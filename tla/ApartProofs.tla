---------------------------- MODULE ApartProofs ----------------------------
(***************************************************************************)
(* The invariants of the parts of Apart, for any values of their           *)
(* constants.  For each part there is an inductive invariant, named for    *)
(* it, and lemmas that its initial states have it, that its steps keep it  *)
(* and what follows from it; the theorems at the end put them together.    *)
(***************************************************************************)
EXTENDS Apart, Selection, SequenceTheorems, FiniteSetTheorems, WellFoundedInduction, TLAPS

-----------------------------------------------------------------------------
(* Sequences as functions.                                                 *)

LEMMA FunctionIsSeq ==
  ASSUME NEW Z, NEW n \in Nat, NEW f \in [1..n -> Z]
  PROVE  f \in Seq(Z) /\ Len(f) = n
<1>1. f \in Seq(Z)
  BY SeqDef
<1>2. DOMAIN f = 1..n /\ DOMAIN f = 1..Len(f) /\ Len(f) \in Nat
  BY <1>1
<1> QED
  BY <1>1, <1>2

LEMMA SeqExcept ==
  ASSUME NEW Z, NEW s \in Seq(Z), NEW k \in 1..Len(s), NEW z \in Z
  PROVE  /\ [s EXCEPT ![k] = z] \in Seq(Z) /\ Len([s EXCEPT ![k] = z]) = Len(s)
         /\ [s EXCEPT ![k] = z][k] = z
         /\ \A i \in 1..Len(s) : i # k => [s EXCEPT ![k] = z][i] = s[i]
<1>1. s \in [1..Len(s) -> Z] /\ Len(s) \in Nat
  BY ElementOfSeq
<1>2. [s EXCEPT ![k] = z] \in [1..Len(s) -> Z]
  BY <1>1
<1>3. [s EXCEPT ![k] = z] \in Seq(Z) /\ Len([s EXCEPT ![k] = z]) = Len(s)
  BY <1>1, <1>2, FunctionIsSeq
<1> QED
  BY <1>1, <1>3

\* A set of numbers has a least one.
LEMMA LeastNumber ==
  ASSUME NEW N, N \subseteq Nat, N # {}
  PROVE  \E n \in N : \A m \in N : n <= m
<1> DEFINE Less == OpToRel(<, Nat)
<1>1. IsWellFoundedOn(Less, Nat)
  BY NatLessThanWellFounded
<1>2. PICK n \in N : \A m \in N : ~(<<m, n>> \in Less)
  <2> HIDE DEF Less
  <2> QED
  BY <1>1, WFMin
<1>3. \A m \in N : ~(m < n)
  BY <1>2 DEF OpToRel
<1> QED
  BY <1>3

-----------------------------------------------------------------------------
(* What is selected from a sequence.                                       *)

\* Each of finitely many places has a rank of its own, and each rank a place.
LEMMA Ranks ==
  ASSUME NEW N \in Nat, NEW places \in SUBSET (1..N)
  PROVE  /\ IsFiniteSet(places) /\ Cardinality(places) \in Nat
         /\ \A i \in places : Rank(places, i) \in 1..Cardinality(places)
         /\ \A i, k \in places : Rank(places, i) = Rank(places, k) => i = k
         /\ \A n \in 1..Cardinality(places) : \E i \in places : Rank(places, i) = n
<1> DEFINE Upto(i) == {j \in places : j <= i}
           rank == [i \in places |-> Cardinality(Upto(i))]
<1>0. \A i : Rank(places, i) = Cardinality(Upto(i))
  BY DEF Rank
<1>1. IsFiniteSet(places)
  <2>1. IsFiniteSet(1..N)
    BY FS_Interval
  <2> QED
    BY <2>1, FS_Subset
<1>2. Cardinality(places) \in Nat
  BY <1>1, FS_CardinalityType
<1>3. ASSUME NEW i \in places
      PROVE  IsFiniteSet(Upto(i)) /\ Cardinality(Upto(i)) \in 1..Cardinality(places)
  <2>1. Upto(i) \in SUBSET places /\ i \in Upto(i)
    OBVIOUS
  <2> HIDE DEF Upto
  <2>2. IsFiniteSet(Upto(i)) /\ Cardinality(Upto(i)) <= Cardinality(places)
    BY <1>1, <2>1, FS_Subset
  <2>3. Cardinality(Upto(i)) \in Nat /\ Cardinality(Upto(i)) # 0
    BY <2>1, <2>2, FS_EmptySet, FS_CardinalityType
  <2> QED
    BY <1>2, <2>2, <2>3
<1>4. ASSUME NEW i \in places, NEW k \in places, i < k
      PROVE  Cardinality(Upto(i)) # Cardinality(Upto(k))
  <2>1. Upto(i) \in SUBSET Upto(k) /\ Upto(i) # Upto(k)
    <3>1. k \in Upto(k) /\ k \notin Upto(i)
      BY <1>4
    <3>2. ASSUME NEW j \in Upto(i) PROVE j \in Upto(k)
      <4>1. j \in Int /\ i \in Int /\ k \in Int
        OBVIOUS
      <4> QED
        BY <1>4, <4>1
    <3> QED
      BY <3>1, <3>2
  <2>2. IsFiniteSet(Upto(k))
    BY <1>3
  <2> HIDE DEF Upto
  <2> QED
    BY <2>1, <2>2, FS_Subset
<1>5. ASSUME NEW i \in places, NEW k \in places, Cardinality(Upto(i)) = Cardinality(Upto(k))
      PROVE  i = k
  <2>1. i < k \/ k < i \/ i = k
    OBVIOUS
  <2> HIDE DEF Upto
  <2> QED
    BY <1>4, <1>5, <2>1
<1>6. rank \in Surjection(places, 1..Cardinality(places))
  <2> HIDE DEF Upto
  <2>1. rank \in [places -> 1..Cardinality(places)]
    BY <1>3
  <2>2. rank \in Injection(places, 1..Cardinality(places))
    BY <1>5, <2>1 DEF Injection, IsInjective
  <2>3. IsFiniteSet(1..Cardinality(places)) /\ Cardinality(1..Cardinality(places)) = Cardinality(places)
    BY <1>2, FS_Interval
  <2> HIDE DEF rank
  <2> QED
    BY <2>2, <2>3, FS_Injection
<1>7. ASSUME NEW n \in 1..Cardinality(places)
      PROVE  \E i \in places : Cardinality(Upto(i)) = n
  <2> HIDE DEF Upto
  <2> QED
    BY <1>6 DEF Surjection
<1> QED
  <2> HIDE DEF Upto
  <2> QED
    BY <1>0, <1>1, <1>2, <1>3, <1>5, <1>7

\* What is selected are the lines at the places, each once.
LEMMA OnlyProperties ==
  ASSUME NEW M, NEW s \in Seq(M), NEW places \in SUBSET (1..Len(s))
  PROVE  LET o == Only(s, places)
         IN  /\ o \in Seq(M)
             /\ \A i \in places : \E n \in 1..Len(o) : o[n] = s[i]
             /\ \E pos \in [1..Len(o) -> places] :
                  /\ \A n \in 1..Len(o) : o[n] = s[pos[n]]
                  /\ \A m, n \in 1..Len(o) : pos[m] = pos[n] => m = n
<1> DEFINE total == Cardinality(places)
           pos == [n \in 1..total |-> At(places, n)]
           o == [n \in 1..total |-> s[pos[n]]]
<1>1. /\ total \in Nat
      /\ \A i \in places : Rank(places, i) \in 1..total
      /\ \A i, k \in places : Rank(places, i) = Rank(places, k) => i = k
      /\ \A n \in 1..total : \E i \in places : Rank(places, i) = n
  <2>1. Len(s) \in Nat
    OBVIOUS
  <2> QED
    BY <2>1, Ranks
<1>2. Only(s, places) = o
  BY DEF Only
<1> HIDE DEF total
<1>3. ASSUME NEW n \in 1..total PROVE pos[n] \in places /\ Rank(places, pos[n]) = n
  BY <1>1 DEF At
<1>4. pos \in [1..total -> places]
  BY <1>3
<1> HIDE DEF pos
<1>5. \A i \in places : s[i] \in M
  OBVIOUS
<1>6. o \in [1..total -> M]
  BY <1>4, <1>5
<1>7. o \in Seq(M) /\ Len(o) = total /\ \A n \in 1..total : o[n] = s[pos[n]]
  BY <1>1, <1>6, FunctionIsSeq
<1> HIDE DEF o
<1>8. ASSUME NEW i \in places PROVE \E n \in 1..total : o[n] = s[i]
  <2>1. Rank(places, i) \in 1..total /\ pos[Rank(places, i)] = i
    BY <1>1, <1>3
  <2> QED
    BY <1>7, <2>1
<1>9. \A m, n \in 1..total : pos[m] = pos[n] => m = n
  BY <1>3
<1> QED
  BY <1>2, <1>4, <1>7, <1>8, <1>9

\* The first place is the least, the last one the greatest.
LEMMA Ends ==
  ASSUME NEW N \in Nat, NEW places \in SUBSET (1..N), places # {}
  PROVE  /\ Cardinality(places) \in Nat \ {0}
         /\ At(places, 1) \in places /\ \A j \in places : At(places, 1) <= j
         /\ At(places, Cardinality(places)) \in places
         /\ \A j \in places : j <= At(places, Cardinality(places))
<1> DEFINE Upto(i) == {j \in places : j <= i}
           C0 == Cardinality(places)
<1>0. \A i \in places : i \in Int
  OBVIOUS
<1>1. /\ IsFiniteSet(places) /\ C0 \in Nat
      /\ \A n \in 1..C0 : \E i \in places : Rank(places, i) = n
  BY Ranks
<1>2. C0 # 0
  BY <1>1, FS_EmptySet
<1>3. \A n \in 1..C0 : At(places, n) \in places /\ Cardinality(Upto(At(places, n))) = n
  BY <1>1 DEF At, Rank
<1>4. ASSUME NEW j \in places PROVE At(places, 1) <= j
  <2> DEFINE i == At(places, 1)
  <2>1. i \in places /\ Cardinality(Upto(i)) = 1
    BY <1>1, <1>2, <1>3
  <2>2. i \in Upto(i) /\ Upto(i) \in SUBSET places
    <3>1. i \in Int
      BY <1>0, <2>1
    <3> HIDE DEF i
    <3> QED
      BY <2>1, <3>1
  <2> HIDE DEF i
  <2>3. j \notin Upto(i) => i <= j
    BY <2>1
  <2>4. j \in Upto(i) => j = i
    <3> HIDE DEF Upto
    <3>1. IsFiniteSet(Upto(i))
      BY <1>1, <2>2, FS_Subset
    <3>2. PICK x : Upto(i) = {x}
      BY <2>1, <3>1, FS_Singleton
    <3> QED
      BY <2>2, <3>2
  <2> QED
    BY <2>1, <2>3, <2>4 DEF i
<1>5. ASSUME NEW j \in places PROVE j <= At(places, C0)
  <2> DEFINE i == At(places, C0)
  <2>1. i \in places /\ Cardinality(Upto(i)) = C0
    BY <1>1, <1>2, <1>3
  <2>2. Upto(i) \in SUBSET places
    OBVIOUS
  <2> HIDE DEF i
  <2>3. Upto(i) = places
    <3> HIDE DEF Upto
    <3> QED
      BY <1>1, <2>1, <2>2, FS_Subset
  <2>4. j <= i
    BY <2>3
  <2> QED
    BY <2>4 DEF i
<1>6. At(places, 1) \in places /\ At(places, C0) \in places
  <2>1. 1 \in 1..C0 /\ C0 \in 1..C0
    BY <1>1, <1>2
  <2> HIDE DEF C0
  <2> QED
    BY <1>3, <2>1
<1> QED
  BY <1>1, <1>2, <1>4, <1>5, <1>6

\* Of all places, each is its own.
LEMMA AllPlaces ==
  ASSUME NEW n \in Nat
  PROVE  Cardinality(1..n) = n /\ \A i \in 1..n : At(1..n, i) = i
<1>1. Cardinality(1..n) = n
  BY FS_Interval
<1>2. ASSUME NEW i \in 1..n PROVE Rank(1..n, i) = i
  <2>1. {j \in 1..n : j <= i} = 1..i /\ i \in Nat \ {0}
    OBVIOUS
  <2>2. Cardinality(1..i) = i
    BY <2>1, FS_Interval
  <2> QED
    BY <2>1, <2>2 DEF Rank
<1> QED
  BY <1>1, <1>2 DEF At

-----------------------------------------------------------------------------
(* The Stream Deck.                                                        *)

\* A report is read from a device, and one is looked for only without.
DeckInv ==
  /\ SD!TypeOK /\ SD!ScriptKnowsDevice
  /\ deckPc = "read" => device # None
  /\ deckPc = "enumerate" => device = None

LEMMA DeckInit == ASSUME Init PROVE DeckInv
<1>1. SD!Init
  BY DEF Init
<1>2. <<>> \in [1..0 -> BOOLEAN] /\ DOMAIN <<>> = {} /\ buttons = <<>>
  BY <1>1 DEF SD!Init
<1>3. buttons \in UNION {[1..n -> BOOLEAN] : n \in Devices \cup {0}}
  BY <1>2
<1>4. changes \in 0..MaxChanges /\ lastScan \in -1..MaxChanges
  BY <1>1, DeckAssumption DEF SD!Init, SD!DevicesAssumption
<1>5. images \in [SD!Buttons -> Images \cup {None}]
  BY <1>1 DEF SD!Init, SD!NoImages
<1>6. SD!TypeOK
  BY <1>1, <1>3, <1>4, <1>5 DEF SD!Init, SD!TypeOK
<1>7. SD!ScriptKnowsDevice
  BY <1>1, <1>2 DEF SD!Init, SD!ScriptKnowsDevice
<1> QED
  BY <1>1, <1>6, <1>7 DEF DeckInv, SD!Init

\* The buttons of a report that are pressed are those the script was told of.
LEMMA DeckReports ==
  ASSUME DeckInv, SD!Report
  PROVE  /\ buttons' \in UNION {[1..n -> BOOLEAN] : n \in Devices \cup {0}}
         /\ held' \subseteq SD!Buttons
         /\ \A b \in DOMAIN buttons' : buttons'[b] => b \in held'
<1>1. device \in Devices
  BY DEF DeckInv, SD!TypeOK, SD!Report, SD!Reading
<1>2. PICK report \in [1..device -> BOOLEAN] :
        buttons' = report /\ held' = (held \cup SD!Pressed(report)) \ SD!Released(report)
  BY DEF SD!Report
<1>3. SD!Pressed(report) \subseteq 1..device
  BY <1>2 DEF SD!Pressed
<1>4. 1..device \subseteq SD!Buttons /\ held \subseteq SD!Buttons
  BY <1>1 DEF SD!Buttons, DeckInv, SD!TypeOK
<1>5. ASSUME NEW b \in 1..device, report[b] PROVE b \in held'
  <2>1. b \notin SD!Released(report)
    BY <1>5 DEF SD!Released
  <2>2. CASE SD!Resized(device)[b]
    <3>1. b \in DOMAIN buttons /\ buttons[b]
      BY <2>2 DEF SD!Resized
    <3> QED
      BY <1>2, <2>1, <3>1 DEF DeckInv, SD!ScriptKnowsDevice
  <2>3. CASE ~SD!Resized(device)[b]
    BY <1>2, <1>5, <2>1, <2>3 DEF SD!Pressed
  <2> QED
    BY <2>2, <2>3
<1>6. held' \subseteq SD!Buttons
  BY <1>2, <1>3, <1>4
<1>7. DOMAIN buttons' = 1..device
  BY <1>2
<1> QED
  BY <1>1, <1>2, <1>5, <1>6, <1>7

LEMMA DeckStep == ASSUME DeckInv, [SD!Next]_(SD!vars) PROVE DeckInv'
<1> USE DEF DeckInv, SD!connectorVars, SD!usbVars, SD!historyVars
<1>1. CASE SD!Unplug \/ \E d \in Devices : SD!Plug(d)
  <2>1. changes' \in 0..MaxChanges
    BY <1>1, DeckAssumption DEF SD!Unplug, SD!Plug, SD!TypeOK, SD!DevicesAssumption
  <2> QED
    BY <1>1, <2>1 DEF SD!Unplug, SD!Plug, SD!TypeOK, SD!ScriptKnowsDevice
<1>2. CASE \E level \in Levels : SD!SetBrightness(level)
  BY <1>2 DEF SD!SetBrightness, SD!TypeOK, SD!ScriptKnowsDevice
<1>3. CASE \E b \in SD!Buttons, image \in Images : SD!SetButton(b, image)
  BY <1>3 DEF SD!SetButton, SD!TypeOK, SD!ScriptKnowsDevice
<1>4. CASE SD!NoChange \/ SD!NotFound \/ SD!NoReport \/ SD!NoDevice
  BY <1>4 DEF SD!NoChange, SD!NotFound, SD!NoReport, SD!NoDevice, SD!Reading, SD!TypeOK, SD!ScriptKnowsDevice
<1>5. CASE SD!Scan
  <2>1. lastScan' \in -1..MaxChanges
    BY <1>5 DEF SD!Scan, SD!TypeOK
  <2> QED
    BY <1>5, <2>1 DEF SD!Scan, SD!TypeOK, SD!ScriptKnowsDevice
<1>6. CASE SD!Found
  <2>1. SD!TypeOK'
    BY <1>6 DEF SD!Found, SD!TypeOK
  <2> QED
    BY <1>6, <2>1, DeckAssumption DEF SD!Found, SD!TypeOK, SD!ScriptKnowsDevice, SD!DevicesAssumption
<1>7. CASE SD!ReadFails
  <2>1. SD!TypeOK'
    BY <1>7 DEF SD!ReadFails, SD!Lost, SD!ForceDisconnect, SD!TypeOK
  <2> QED
    BY <1>7, <2>1 DEF SD!ReadFails, SD!Lost, SD!ForceDisconnect, SD!ScriptKnowsDevice
<1>8. CASE SD!Report
  <2>1. SD!TypeOK'
    BY <1>8, DeckReports DEF SD!Report, SD!TypeOK
  <2>2. deckPc # "ended" /\ deckPc' = "outputs" /\ UNCHANGED <<device, deckTold>>
    BY <1>8 DEF SD!Report, SD!Reading
  <2> QED
    BY <1>8, <2>1, <2>2, DeckReports DEF SD!ScriptKnowsDevice
<1>9. CASE SD!Written
  <2>1. images' \in [SD!Buttons -> Images \cup {None}] /\ actual' \in Levels \cup {None}
    BY <1>9 DEF SD!Written, SD!NoImages, SD!TypeOK
  <2> QED
    BY <1>9, <2>1 DEF SD!Written, SD!TypeOK, SD!ScriptKnowsDevice
<1>10. CASE SD!WriteFails
  <2>1. images' \in [SD!Buttons -> Images \cup {None}] /\ actual' \in Levels \cup {None}
    BY <1>10 DEF SD!WriteFails, SD!NoImages, SD!TypeOK
  <2>2. SD!TypeOK'
    BY <1>10, <2>1 DEF SD!WriteFails, SD!Lost, SD!ForceDisconnect, SD!TypeOK
  <2> QED
    BY <1>10, <2>2 DEF SD!WriteFails, SD!Lost, SD!ForceDisconnect, SD!ScriptKnowsDevice
<1>11. CASE SD!Shutdown
  BY <1>11 DEF SD!Shutdown, SD!TypeOK, SD!ScriptKnowsDevice
<1>12. CASE UNCHANGED SD!vars
  BY <1>12 DEF SD!vars, SD!TypeOK, SD!ScriptKnowsDevice
<1> QED
  BY <1>1, <1>2, <1>3, <1>4, <1>5, <1>6, <1>7, <1>8, <1>9, <1>10, <1>11, <1>12
  DEF SD!Next, SD!World, SD!Tick

-----------------------------------------------------------------------------
(* The window.                                                             *)

\* While the main thread handles events it holds the mutex and nothing is added to
\* them; outside of that all that are there wait to be handled.  The watch is there,
\* and called, only with a window, but for a connector that was collected.
Turns ==
  /\ windowPc \in {"create", "watch", "handle", "resize"} => locked
  /\ windowPc \in {"create", "watch", "handle"} => end = Len(pending)
  /\ at \in 1..Len(pending) + 1 /\ (windowPc # "handle" => at = 1)
  /\ windowPc \in {"watch", "handle", "resize"} => window
  /\ calling # None => watched
  /\ watched => window \/ collected

WindowInv == W!TypeOK /\ Turns /\ W!WindowHolds

LEMMA WindowInit == ASSUME Init PROVE WindowInv
<1>1. W!Init
  BY DEF Init
<1>2. <<>> \in Seq(W!Events) /\ <<>> \o SubSeq(<<>>, 1, 0) \o <<>> = <<>>
  BY EmptySeq, SubSeqEmpty, ConcatEmptySeq
<1>3. W!InitialSize \in Sizes /\ 0 \in 0..MaxEvents
  BY WindowAssumption DEF W!InitialSize, W!SizesAssumption
<1>4. W!TypeOK
  BY <1>1, <1>2, <1>3 DEF W!Init, W!TypeOK
<1>5. Turns /\ W!WindowHolds
  BY <1>1, <1>2 DEF W!Init, Turns, W!WindowHolds
<1> QED
  BY <1>4, <1>5 DEF WindowInv

\* Steps that leave alone what the main thread and the watch share.
LEMMA WindowAside ==
  ASSUME WindowInv, UNCHANGED <<pending, at, calling, taken, seen>>,
         (window \/ collected) => (window' \/ collected')
  PROVE  W!WindowHolds'
BY DEF WindowInv, W!WindowHolds

\* What the sequences are that the main thread and the watch share.
LEMMA WindowTypes ==
  ASSUME WindowInv
  PROVE  /\ pending \in Seq(W!Events) /\ raised \in Seq(W!Events)
         /\ taken \in Seq(W!Events) /\ seen \in Seq(W!Events)
         /\ at \in 1..Len(pending) + 1 /\ Len(pending) \in Nat /\ calling \in W!Events \cup {None}
         /\ None \notin W!Events /\ MaxEvents \in Nat
         /\ SubSeq(pending, at, Len(pending)) \in Seq(W!Events)
<1>1. /\ pending \in Seq(W!Events) /\ raised \in Seq(W!Events) /\ taken \in Seq(W!Events)
      /\ seen \in Seq(W!Events) /\ calling \in W!Events \cup {None}
  BY DEF WindowInv, W!TypeOK
<1>2. at \in 1..Len(pending) + 1 /\ Len(pending) \in Nat
  BY <1>1 DEF WindowInv, Turns
<1>3. SubSeq(pending, at, Len(pending)) \in Seq(W!Events)
  BY <1>1, <1>2, SubSeqProperties
<1> QED
  BY <1>1, <1>2, <1>3, WindowAssumption DEF W!SizesAssumption

\* SDL calls the watch: the event is the last it was called with.
LEMMA WindowCalls == ASSUME WindowInv, W!CallWatch PROVE WindowInv'
<1> DEFINE left == SubSeq(pending, at, Len(pending))
<1>1. /\ raised # <<>> /\ calling = None /\ raised' = Tail(raised)
      /\ IF watched THEN calling' = Head(raised) /\ taken' = Append(taken, Head(raised))
                    ELSE UNCHANGED <<calling, taken>>
      /\ UNCHANGED <<windowPc, W!tickVars, W!wantVars, watched, size, count, told, seen, collected>>
  BY DEF W!CallWatch
<1>2. Head(raised) \in W!Events /\ raised' \in Seq(W!Events) /\ Head(raised) # None
  BY <1>1, WindowTypes, HeadTailProperties
<1>3. taken' \in Seq(W!Events) /\ calling' \in W!Events \cup {None}
  <2>1. taken \in Seq(W!Events) /\ Append(taken, Head(raised)) \in Seq(W!Events)
    BY <1>2, WindowTypes, AppendProperties
  <2> QED
    BY <1>1, <1>2, <2>1, WindowTypes
<1>4. W!TypeOK' /\ Turns'
  BY <1>1, <1>2, <1>3 DEF WindowInv, W!TypeOK, Turns, W!tickVars, W!wantVars
<1>5. CASE watched
  <2>1. taken = seen \o left
    BY <1>1, WindowTypes, ConcatProperties, ConcatEmptySeq DEF WindowInv, W!WindowHolds
  <2>2. taken' = seen \o left \o <<calling'>>
    BY <1>1, <1>2, <1>5, <2>1, WindowTypes, AppendIsConcat
  <2>3. calling' # None /\ UNCHANGED <<pending, at, seen, window, collected>> /\ (window \/ collected)
    BY <1>1, <1>2, <1>5 DEF W!tickVars, WindowInv, Turns
  <2> QED
    BY <1>4, <2>2, <2>3 DEF WindowInv, W!WindowHolds
<1>6. CASE ~watched
  BY <1>1, <1>4, <1>6, WindowAside DEF WindowInv, W!tickVars
<1> QED
  BY <1>5, <1>6

\* The watch adds the event to those that wait, which nobody goes through meanwhile.
LEMMA WindowFilters == ASSUME WindowInv, W!Filter PROVE WindowInv'
<1> DEFINE left == SubSeq(pending, at, Len(pending))
<1>1. /\ calling # None /\ ~locked /\ pending' = Append(pending, calling) /\ calling' = None
      /\ UNCHANGED <<windowPc, window, locked, at, end, W!wantVars, watched, size, raised, count, W!historyVars>>
  BY DEF W!Filter, W!TakeEvent
<1>2. /\ pending' \in Seq(W!Events) /\ Len(pending') = Len(pending) + 1 /\ pending'[Len(pending')] = calling
      /\ \A i \in 1..Len(pending) : pending'[i] = pending[i]
  BY <1>1, WindowTypes, AppendProperties
<1>3. W!TypeOK'
  BY <1>1, <1>2 DEF WindowInv, W!TypeOK, W!wantVars, W!historyVars
<1>4. Turns'
  <2>1. windowPc \notin {"create", "watch", "handle", "resize"} /\ at = 1 /\ at' \in 1..Len(pending') + 1
    BY <1>1, <1>2, WindowTypes DEF WindowInv, Turns
  <2> QED
    BY <1>1, <2>1 DEF WindowInv, Turns, W!historyVars
<1>5. SubSeq(pending', at, Len(pending')) = left \o <<calling>>
  <2>1. SubSeq(pending', at, Len(pending')) = SubSeq(pending', at, Len(pending)) \o <<calling>>
    <3>1. at \in 1..Len(pending') /\ Len(pending') \in at..Len(pending') /\ Len(pending') - 1 = Len(pending)
      BY <1>2, WindowTypes
    <3> QED
      BY <1>2, <3>1, SubSeqRecursiveSecond
  <2>2. SubSeq(pending', at, Len(pending)) = left
    <3> DEFINE new == SubSeq(pending', at, Len(pending))
    <3>1. \A i \in at..Len(pending) : pending'[i] \in W!Events /\ pending[i] \in W!Events /\ pending'[i] = pending[i]
      BY <1>2, WindowTypes, ElementOfSeq
    <3>2. /\ new \in Seq(W!Events) /\ left \in Seq(W!Events)
          /\ Len(new) = IF at <= Len(pending) THEN Len(pending) - at + 1 ELSE 0
          /\ Len(left) = IF at <= Len(pending) THEN Len(pending) - at + 1 ELSE 0
          /\ \A i \in 1..Len(pending) - at + 1 : new[i] = pending'[at + i - 1]
          /\ \A i \in 1..Len(pending) - at + 1 : left[i] = pending[at + i - 1]
      BY <3>1, WindowTypes, SubSeqProperties
    <3>3. ASSUME NEW i \in 1..Len(new) PROVE new[i] = left[i]
      <4>1. i \in 1..Len(pending) - at + 1 /\ at + i - 1 \in at..Len(pending)
        BY <3>2, WindowTypes
      <4> QED
        BY <3>1, <3>2, <4>1
    <3> HIDE DEF new, left
    <3>4. Len(new) = Len(left)
      BY <3>2
    <3> QED
      BY <3>2, <3>3, <3>4, SeqEqual DEF new
  <2> QED
    BY <2>1, <2>2
<1>6. taken = seen \o left \o <<calling>>
  BY <1>1 DEF WindowInv, W!WindowHolds
<1>7. seen \o left \o <<calling>> = seen \o (left \o <<calling>>)
  <2>1. <<calling>> \in Seq(W!Events)
    BY <1>1, WindowTypes
  <2>2. seen \in Seq(W!Events) /\ left \in Seq(W!Events)
    BY WindowTypes
  <2> HIDE DEF left
  <2> QED
    BY <2>1, <2>2, ConcatAssociative
<1>8. W!WindowHolds'
  <2>1. taken \in Seq(W!Events) /\ taken \o <<>> = taken
    BY WindowTypes, ConcatEmptySeq
  <2>2. UNCHANGED <<taken, seen, at>> /\ calling' = None
    BY <1>1 DEF W!historyVars
  <2> QED
    BY <1>5, <1>6, <1>7, <2>1, <2>2 DEF W!WindowHolds
<1> QED
  BY <1>3, <1>4, <1>8 DEF WindowInv

\* The event that is handled is the first of those that are left.
LEMMA WindowHandles == ASSUME WindowInv, W!Handle PROVE WindowInv'
<1> DEFINE left == SubSeq(pending, at, Len(pending))
           rest == SubSeq(pending, at + 1, Len(pending))
<1>1. /\ windowPc = "handle" /\ at <= end /\ at' = at + 1 /\ seen' = Append(seen, pending[at])
      /\ W!HandleWindowEvent(pending[at])
      /\ UNCHANGED <<windowPc, window, locked, pending, end, wantedSize, exitOnClose, W!sdlVars, told, taken,
                    collected>>
  BY DEF W!Handle, W!HandleWindowEvent
<1>2. at \in 1..Len(pending) /\ at + 1 \in 1..Len(pending) + 1
  BY <1>1, WindowTypes DEF WindowInv, Turns
<1>3. pending[at] \in W!Events /\ seen' \in Seq(W!Events) /\ seen' = seen \o <<pending[at]>>
  BY <1>1, <1>2, WindowTypes, ElementOfSeq, AppendProperties, AppendIsConcat
<1>4. W!TypeOK'
  <2>1. {sizeChanged', dirty', hide'} \subseteq BOOLEAN /\ requests' \subseteq {"reload", "exit"}
    BY <1>1 DEF W!HandleWindowEvent, WindowInv, W!TypeOK
  <2> QED
    BY <1>1, <1>2, <1>3, <2>1 DEF WindowInv, W!TypeOK, W!sdlVars
<1>5. Turns'
  BY <1>1, <1>2 DEF WindowInv, Turns, W!sdlVars
<1>6. left = <<pending[at]>> \o rest
  <2>1. Len(pending) \in at..Len(pending)
    BY <1>2, WindowTypes
  <2> QED
    BY <1>2, <2>1, WindowTypes, SubSeqRecursiveFirst
<1>7. rest \in Seq(W!Events) /\ <<pending[at]>> \in Seq(W!Events)
  <2>1. \A i \in at + 1..Len(pending) : pending[i] \in W!Events
    BY <1>2, WindowTypes, ElementOfSeq
  <2> QED
    BY <1>2, <1>3, <2>1, WindowTypes, SubSeqProperties
<1>8. seen \o left = seen' \o rest
  <2>1. seen \in Seq(W!Events)
    BY WindowTypes
  <2> HIDE DEF rest
  <2>2. (seen \o <<pending[at]>>) \o rest = seen \o (<<pending[at]>> \o rest)
    BY <1>7, <2>1, ConcatAssociative
  <2> QED
    BY <1>3, <1>6, <2>2
<1>9. W!WindowHolds'
  BY <1>1, <1>8 DEF WindowInv, W!WindowHolds, W!sdlVars
<1> QED
  BY <1>4, <1>5, <1>9 DEF WindowInv

\* All are handled: none is left that the vector loses.
LEMMA WindowClears == ASSUME WindowInv, W!AllHandled PROVE WindowInv'
<1>1. /\ windowPc = "handle" /\ at > end /\ pending' = <<>> /\ at' = 1 /\ end' = 0 /\ locked' = sizeChanged
      /\ windowPc' = IF sizeChanged THEN "resize" ELSE "outputs"
      /\ UNCHANGED <<window, W!wantVars, W!sdlVars, W!historyVars>>
  BY DEF W!AllHandled
<1>2. SubSeq(pending, at, Len(pending)) = <<>> /\ SubSeq(pending', at', Len(pending')) = <<>>
  <2>1. at > Len(pending)
    BY <1>1 DEF WindowInv, Turns
  <2> QED
    BY <1>1, <2>1, WindowTypes, SubSeqEmpty, EmptySeq
<1>3. W!TypeOK'
  <2>1. pending' \in Seq(W!Events)
    BY <1>1, EmptySeq
  <2>2. locked' \in BOOLEAN
    BY <1>1 DEF WindowInv, W!TypeOK
  <2> QED
    BY <1>1, <2>1, <2>2 DEF WindowInv, W!TypeOK, W!wantVars, W!sdlVars, W!historyVars
<1>4. Turns'
  BY <1>1 DEF WindowInv, W!TypeOK, Turns, W!wantVars, W!sdlVars, W!historyVars
<1>5. W!WindowHolds'
  BY <1>1, <1>2 DEF WindowInv, W!WindowHolds, W!sdlVars, W!historyVars
<1> QED
  BY <1>3, <1>4, <1>5 DEF WindowInv

\* What the main thread does besides, and what the script and the user do.
LEMMA WindowGoesOn ==
  ASSUME WindowInv,
         \/ W!BeginInputs \/ W!Create \/ W!CreateFails \/ W!AddWatch \/ W!Resize
         \/ W!NoWindow \/ W!TickOutputs \/ W!Shutdown \/ W!User \/ W!Script \/ UNCHANGED W!vars
  PROVE  WindowInv'
<1> USE DEF W!tickVars, W!wantVars, W!sdlVars, W!historyVars
<1>1. CASE W!BeginInputs
  <2>1. at' = at /\ UNCHANGED <<pending, calling, taken, seen, window, collected>>
    BY <1>1 DEF W!BeginInputs, WindowInv, Turns
  <2>2. W!TypeOK'
    BY <1>1, WindowTypes DEF W!BeginInputs, WindowInv, W!TypeOK
  <2>3. Turns'
    BY <1>1, <2>1 DEF W!BeginInputs, WindowInv, Turns
  <2> QED
    BY <2>1, <2>2, <2>3, WindowAside DEF WindowInv
<1>2. CASE W!Create
  <2>1. W!TypeOK'
    BY <1>2 DEF W!Create, WindowInv, W!TypeOK
  <2>2. Turns'
    BY <1>2 DEF W!Create, WindowInv, Turns
  <2> QED
    BY <1>2, <2>1, <2>2, WindowAside DEF W!Create, WindowInv
<1>3. CASE W!CreateFails
  <2>1. W!TypeOK'
    BY <1>3 DEF W!CreateFails, WindowInv, W!TypeOK
  <2>2. Turns'
    BY <1>3 DEF W!CreateFails, WindowInv, Turns
  <2> QED
    BY <1>3, <2>1, <2>2, WindowAside DEF W!CreateFails, WindowInv
<1>4. CASE W!AddWatch
  <2>1. W!TypeOK'
    BY <1>4 DEF W!AddWatch, WindowInv, W!TypeOK
  <2>2. Turns'
    BY <1>4 DEF W!AddWatch, WindowInv, Turns
  <2> QED
    BY <1>4, <2>1, <2>2, WindowAside DEF W!AddWatch, WindowInv
<1>5. CASE W!Resize
  <2>1. W!TypeOK'
    BY <1>5 DEF W!Resize, WindowInv, W!TypeOK
  <2>2. Turns'
    BY <1>5 DEF W!Resize, WindowInv, Turns
  <2> QED
    BY <1>5, <2>1, <2>2, WindowAside DEF W!Resize, WindowInv
<1>6. CASE W!NoWindow
  <2>1. W!TypeOK'
    BY <1>6 DEF W!NoWindow, WindowInv, W!TypeOK
  <2>2. Turns'
    BY <1>6 DEF W!NoWindow, WindowInv, Turns
  <2> QED
    BY <1>6, <2>1, <2>2, WindowAside DEF W!NoWindow, WindowInv
<1>7. CASE W!TickOutputs
  <2>1. size' \in Sizes /\ raised' \in Seq(W!Events)
    <3>1. <<"size", 0>> \in W!Events
      BY DEF W!Events
    <3>2. Append(raised, <<"size", 0>>) \in Seq(W!Events)
      BY <3>1, WindowTypes, AppendProperties
    <3> QED
      BY <1>7, <3>2 DEF W!TickOutputs, WindowInv, W!TypeOK
  <2>2. W!TypeOK'
    BY <1>7, <2>1 DEF W!TickOutputs, WindowInv, W!TypeOK
  <2>3. Turns'
    BY <1>7 DEF W!TickOutputs, WindowInv, Turns
  <2> QED
    BY <1>7, <2>2, <2>3, WindowAside DEF W!TickOutputs, WindowInv
<1>8. CASE W!Shutdown
  <2>1. W!TypeOK'
    BY <1>8 DEF W!Shutdown, WindowInv, W!TypeOK
  <2>2. Turns'
    BY <1>8 DEF W!Shutdown, WindowInv, Turns
  <2>3. W!WindowHolds'
    BY <1>8 DEF W!Shutdown, WindowInv, W!WindowHolds
  <2> QED
    BY <2>1, <2>2, <2>3 DEF WindowInv
<1>9. CASE W!User
  <2>1. PICK e \in W!Events : W!Raise(e)
    <3>1. CASE W!UserActs
      <4>1. PICK e \in {<<"close", 0>>, <<"focus", 0>>, <<"input", count + 1>>} : W!Raise(e)
        BY <1>9, <3>1 DEF W!UserActs
      <4>2. count + 1 \in 1..MaxEvents
        BY <4>1, WindowTypes DEF W!Raise, WindowInv, W!TypeOK
      <4>3. e \in W!Events
        BY <4>1, <4>2 DEF W!Events, W!Inputs
      <4> QED
        BY <4>1, <4>3
    <3>2. CASE \E s \in Sizes : W!UserResizes(s)
      BY <3>2 DEF W!UserResizes, W!Events
    <3> QED
      BY <1>9, <3>1, <3>2 DEF W!User
  <2>2. size' \in Sizes /\ UNCHANGED <<windowPc, W!tickVars, W!wantVars, watched, calling, W!historyVars>>
    BY <1>9 DEF W!User, W!UserActs, W!UserResizes, WindowInv, W!TypeOK
  <2>3. raised' \in Seq(W!Events) /\ count' \in 0..MaxEvents
    BY <2>1, WindowTypes, AppendProperties DEF W!Raise, WindowInv, W!TypeOK
  <2>4. W!TypeOK' /\ Turns'
    BY <2>2, <2>3 DEF WindowInv, W!TypeOK, Turns
  <2> QED
    BY <2>2, <2>4, WindowAside DEF WindowInv
<1>10. CASE W!Script
  <2>1. CASE W!Collected
    <3>1. W!TypeOK'
      BY <2>1 DEF W!Collected, WindowInv, W!TypeOK
    <3>2. Turns'
      BY <2>1 DEF W!Collected, WindowInv, Turns
    <3> QED
      BY <2>1, <3>1, <3>2, WindowAside DEF W!Collected, WindowInv
  <2>2. CASE \/ \E s \in Sizes : W!WantSize(s)
             \/ \E b \in BOOLEAN : W!SetExitOnClose(b) \/ W!SetVisible(b)
             \/ W!Redraw \/ W!InitialSetup
    <3>1. UNCHANGED <<windowPc, W!tickVars, requests, watched, size, raised, calling, W!historyVars>>
      BY <2>2 DEF W!WantSize, W!SetExitOnClose, W!SetVisible, W!Redraw, W!InitialSetup
    <3>2. {sizeChanged', dirty', hide', exitOnClose'} \subseteq BOOLEAN /\ wantedSize' \in Sizes \cup {None}
      BY <2>2 DEF W!WantSize, W!SetExitOnClose, W!SetVisible, W!Redraw, W!InitialSetup, WindowInv, W!TypeOK
    <3>3. count' \in 0..MaxEvents
      BY <2>2, WindowTypes
      DEF W!WantSize, W!SetExitOnClose, W!SetVisible, W!Redraw, W!InitialSetup, WindowInv, W!TypeOK
    <3>4. W!TypeOK' /\ Turns'
      BY <3>1, <3>2, <3>3 DEF WindowInv, W!TypeOK, Turns
    <3> QED
      BY <3>1, <3>4, WindowAside DEF WindowInv
  <2> QED
    BY <1>10, <2>1, <2>2 DEF W!Script
<1>11. CASE UNCHANGED W!vars
  <2>1. W!TypeOK'
    BY <1>11 DEF W!vars, WindowInv, W!TypeOK
  <2>2. Turns'
    BY <1>11 DEF W!vars, WindowInv, Turns
  <2> QED
    BY <1>11, <2>1, <2>2, WindowAside DEF W!vars, WindowInv
<1> QED
  BY <1>1, <1>2, <1>3, <1>4, <1>5, <1>6, <1>7, <1>8, <1>9, <1>10, <1>11

LEMMA WindowStep == ASSUME WindowInv, [W!Next]_(W!vars) PROVE WindowInv'
BY WindowCalls, WindowFilters, WindowHandles, WindowClears, WindowGoesOn DEF W!Next, W!Main

-----------------------------------------------------------------------------
(* The VNC server.                                                         *)

Handling == {"pointing", "moved", "clicked"}

\* Without a screen there is no surface.  While events are gone through, the iterator
\* is within those that were there before, which still wait.  Between the turns, and
\* while viewers act, the script knows the size of the surface, and between them it is
\* the one that is wanted; within a turn it knows the one that is wanted.
VncTurns ==
  /\ ~screen => surface = Nothing
  /\ vncPc \in Handling => vncAt \in 1..vncEnd /\ vncEnd <= Len(queue) + 1
  /\ vncPc = "moved" => vncAt < vncEnd
  /\ vncPc \in {"idle", "pumping"} /\ surface \in Sizes /\ ~own => vncTold = surface
  /\ vncPc \in {"idle", "opened"} /\ surface \in Sizes /\ ~own => want = surface
  /\ vncPc \in Handling \cup {"resizing", "ticked", "opened"} /\ surface # Nothing /\ ~own => vncTold = want
  /\ vncPc = "opened" => surface # 0

VncInv == V!TypeOK /\ VncTurns /\ V!VncHolds

\* A size is not 0, nor the lack of one.
LEMMA VncSizes == 0 \notin Sizes /\ Nothing \notin Sizes /\ Nothing # 0
<1>1. Sizes \subseteq Nat \ {0} /\ Nothing \notin Nat
  BY ServerAssumption DEF V!VncAssumption
<1>2. \A s \in Sizes : s \in Nat /\ s # 0
  BY <1>1
<1>3. 0 \notin Sizes /\ Nothing \notin Sizes
  BY <1>1, <1>2
<1> QED
  BY <1>1, <1>3

LEMMA VncInit == ASSUME Init PROVE VncInv
<1>1. V!Init
  BY DEF Init
<1>2. want \in Sizes
  <2>1. \E s \in Sizes : \A o \in Sizes : s <= o
    BY ServerAssumption, LeastNumber DEF V!VncAssumption
  <2> QED
    BY <1>1, <2>1 DEF V!Init
<1>3. queue \in Seq(SUBSET MouseButtons)
  BY <1>1, EmptySeq DEF V!Init
<1>4. V!TypeOK
  <2>1. own = FALSE /\ screen = FALSE /\ card = FALSE /\ vncDirty = FALSE /\ shown = TRUE
    BY <1>1 DEF V!Init
  <2>2. /\ vncPc = "idle" /\ frame = "none" /\ surface = Nothing /\ vncAt = 0 /\ vncEnd = 0 /\ vncTold = Nothing
        /\ pointer \in SUBSET MouseButtons /\ clicks \in [MouseButtons -> BOOLEAN \cup {Nothing}]
    BY <1>1 DEF V!Init
  <2> QED
    BY <1>2, <1>3, <2>1, <2>2 DEF V!TypeOK
<1>5. VncTurns /\ V!VncHolds
  BY <1>1, VncSizes DEF V!Init, VncTurns, Handling, V!VncHolds, V!SizeTold, V!PictureShown, V!ButtonsTold
<1> QED
  BY <1>4, <1>5 DEF VncInv

\* What viewers do: another size is wanted, or one more event waits.
LEMMA VncViewers ==
  ASSUME VncInv, V!Viewer
  PROVE  /\ want' \in Sizes /\ queue' \in Seq(SUBSET MouseButtons)
         /\ Len(queue) \in Nat /\ Len(queue') \in Nat /\ Len(queue) <= Len(queue')
<1>1. queue \in Seq(SUBSET MouseButtons) /\ Len(queue) \in Nat
  BY DEF VncInv, V!TypeOK
<1>2. CASE \E s \in Sizes : want' = s /\ UNCHANGED queue
  BY <1>1, <1>2
<1>3. CASE \E mask \in SUBSET MouseButtons : queue' = Append(queue, mask) /\ UNCHANGED want
  BY <1>1, <1>3, AppendProperties DEF VncInv, V!TypeOK
<1> QED
  BY <1>2, <1>3 DEF V!Viewer

\* Closing the server, while scripts run or between the turns.
LEMMA VncCloses ==
  ASSUME VncInv, V!CloseVnc, UNCHANGED <<vncPc, vncAt, vncEnd, pointer, V!pictureVars, V!scriptVars>>,
         V!ScriptRuns
  PROVE  VncInv'
<1> USE DEF V!pictureVars, V!scriptVars
<1>1. /\ want' \in Sizes /\ queue' \in Seq(SUBSET MouseButtons)
      /\ Len(queue) \in Nat /\ Len(queue') \in Nat /\ Len(queue) <= Len(queue')
  <2>1. CASE V!Viewer
    BY <2>1, VncViewers
  <2>2. CASE UNCHANGED <<want, queue>>
    BY <2>2 DEF VncInv, V!TypeOK
  <2> QED
    BY <2>1, <2>2 DEF V!CloseVnc, V!ViewerInClose
<1>2. screen' = FALSE /\ frame' = "none" /\ surface' = Nothing
  BY DEF V!CloseVnc
<1>3. V!TypeOK'
  BY <1>1, <1>2 DEF VncInv, V!TypeOK
<1>4. VncTurns'
  BY <1>1, <1>2, VncSizes DEF VncInv, V!TypeOK, VncTurns, Handling
<1>5. V!VncHolds'
  BY <1>2, VncSizes DEF VncInv, V!VncHolds, V!SizeTold, V!PictureShown, V!ButtonsTold
<1> QED
  BY <1>3, <1>4, <1>5 DEF VncInv

\* What scripts do, and what is done between the turns.
LEMMA VncScripts == ASSUME VncInv, V!Script \/ V!InitialSetup \/ V!Shutdown \/ UNCHANGED V!vars PROVE VncInv'
<1> USE VncSizes
    DEF V!serverVars, V!queueVars, V!pictureVars, V!scriptVars, VncTurns, Handling, V!VncHolds, V!SizeTold,
        V!PictureShown, V!ButtonsTold
<1>1. CASE \E s \in Sizes : V!SetSize(s)
  <2>1. V!TypeOK'
    BY <1>1 DEF V!SetSize, VncInv, V!TypeOK
  <2>2. VncTurns' /\ V!VncHolds'
    BY <1>1 DEF V!SetSize, V!ScriptRuns, VncInv, V!TypeOK
  <2> QED
    BY <2>1, <2>2 DEF VncInv
<1>2. CASE \E c \in BOOLEAN : V!SetCard(c)
  <2>1. V!TypeOK'
    BY <1>2 DEF V!SetCard, VncInv, V!TypeOK
  <2>2. VncTurns' /\ V!VncHolds'
    BY <1>2 DEF V!SetCard, V!ScriptRuns, VncInv, V!TypeOK
  <2> QED
    BY <2>1, <2>2 DEF VncInv
<1>3. CASE V!Redraw
  <2>1. V!TypeOK'
    BY <1>3 DEF V!Redraw, VncInv, V!TypeOK
  <2>2. VncTurns' /\ V!VncHolds'
    BY <1>3 DEF V!Redraw, VncInv, V!TypeOK
  <2> QED
    BY <2>1, <2>2 DEF VncInv
<1>4. CASE V!InitialSetup
  <2>1. V!TypeOK'
    BY <1>4 DEF V!InitialSetup, VncInv, V!TypeOK
  <2>2. VncTurns' /\ V!VncHolds'
    BY <1>4 DEF V!InitialSetup, VncInv, V!TypeOK
  <2> QED
    BY <2>1, <2>2 DEF VncInv
<1>5. CASE V!SetPort
  BY <1>5, VncCloses DEF V!SetPort
<1>6. CASE V!Shutdown
  BY <1>6, VncCloses DEF V!Shutdown, V!ScriptRuns
<1>7. CASE UNCHANGED V!vars
  <2>1. V!TypeOK'
    BY <1>7 DEF V!vars, VncInv, V!TypeOK
  <2>2. VncTurns' /\ V!VncHolds'
    BY <1>7 DEF V!vars, VncInv
  <2> QED
    BY <2>1, <2>2 DEF VncInv
<1> QED
  BY <1>1, <1>2, <1>3, <1>4, <1>5, <1>6, <1>7 DEF V!Script

\* The first half of a turn, with what viewers do in it.
LEMMA VncInputs == ASSUME VncInv, V!TickInputs PROVE VncInv'
<1> USE VncSizes
    DEF V!serverVars, V!queueVars, V!pictureVars, V!scriptVars, VncTurns, Handling, V!VncHolds, V!SizeTold,
        V!PictureShown, V!ButtonsTold
<1>1. CASE V!NoScreen
  <2>1. V!TypeOK'
    BY <1>1 DEF V!NoScreen, VncInv, V!TypeOK
  <2>2. VncTurns' /\ V!VncHolds'
    BY <1>1 DEF V!NoScreen, VncInv, V!TypeOK
  <2> QED
    BY <2>1, <2>2 DEF VncInv
<1>2. CASE V!StartPump
  <2>1. V!TypeOK'
    BY <1>2 DEF V!StartPump, VncInv, V!TypeOK
  <2>2. VncTurns' /\ V!VncHolds'
    BY <1>2 DEF V!StartPump, VncInv, V!TypeOK
  <2> QED
    BY <2>1, <2>2 DEF VncInv
<1>3. CASE V!Pump
  <2>1. /\ want' \in Sizes /\ queue' \in Seq(SUBSET MouseButtons)
        /\ Len(queue) \in Nat /\ Len(queue') \in Nat /\ Len(queue) <= Len(queue')
    BY <1>3, VncViewers DEF V!Pump
  <2>2. V!TypeOK'
    BY <1>3, <2>1 DEF V!Pump, VncInv, V!TypeOK
  <2>3. VncTurns' /\ V!VncHolds'
    BY <1>3, <2>1 DEF V!Pump, VncInv, V!TypeOK
  <2> QED
    BY <2>2, <2>3 DEF VncInv
<1>4. CASE V!PumpDangling
  <2>1. V!TypeOK'
    BY <1>4 DEF V!PumpDangling, VncInv, V!TypeOK
  <2>2. VncTurns' /\ V!VncHolds'
    BY <1>4 DEF V!PumpDangling, VncInv, V!TypeOK
  <2> QED
    BY <2>1, <2>2 DEF VncInv
<1>5. CASE V!EmitResize
  <2>1. V!TypeOK'
    BY <1>5 DEF V!EmitResize, VncInv, V!TypeOK, V!MustResize
  <2>2. VncTurns' /\ V!VncHolds'
    BY <1>5 DEF V!EmitResize, VncInv, V!TypeOK, V!MustResize
  <2> QED
    BY <2>1, <2>2 DEF VncInv
<1>6. CASE V!StartPointing
  <2>1. V!TypeOK'
    BY <1>6 DEF V!StartPointing, VncInv, V!TypeOK, V!MustResize
  <2>2. VncTurns' /\ V!VncHolds'
    BY <1>6 DEF V!StartPointing, VncInv, V!TypeOK, V!MustResize
  <2> QED
    BY <2>1, <2>2 DEF VncInv
<1>7. CASE V!ScaleFails
  <2>1. V!TypeOK'
    BY <1>7 DEF V!ScaleFails, VncInv, V!TypeOK
  <2>2. VncTurns' /\ V!VncHolds'
    BY <1>7 DEF V!ScaleFails, VncInv, V!TypeOK
  <2> QED
    BY <2>1, <2>2 DEF VncInv
<1>8. CASE V!Clicks
  <2>1. /\ vncAt \in 1..Len(queue) /\ queue[vncAt] \in SUBSET MouseButtons /\ vncAt + 1 \in 1..vncEnd
        /\ vncEnd <= Len(queue) + 1
    BY <1>8 DEF V!Clicks, VncInv, V!TypeOK
  <2>2. /\ vncPc' \in {"pointing", "clicked"} /\ vncPc \in {"pointing", "moved"}
        /\ vncAt' = vncAt + 1 /\ pointer' = queue[vncAt]
        /\ UNCHANGED <<V!serverVars, want, queue, vncEnd, V!pictureVars, vncTold, own>>
    BY <1>8 DEF V!Clicks
  <2>3. \A b \in MouseButtons :
           clicks'[b] = IF (b \in pointer) # (b \in pointer') THEN b \in pointer' ELSE clicks[b]
    BY <1>8 DEF V!Clicks
  <2>4. clicks' \in [MouseButtons -> BOOLEAN \cup {Nothing}]
    BY <1>8, <2>2 DEF V!Clicks, VncInv, V!TypeOK
  <2>5. V!TypeOK'
    BY <2>1, <2>2, <2>4 DEF VncInv, V!TypeOK
  <2>6. VncTurns'
    BY <2>1, <2>2 DEF VncInv, V!TypeOK
  <2>7. V!VncHolds'
    BY <2>2, <2>3 DEF VncInv
  <2> QED
    BY <2>5, <2>6, <2>7 DEF VncInv
<1>9. CASE V!Motion
  <2>1. V!TypeOK'
    BY <1>9 DEF V!Motion, VncInv, V!TypeOK
  <2>2. VncTurns' /\ V!VncHolds'
    BY <1>9 DEF V!Motion, VncInv, V!TypeOK
  <2> QED
    BY <2>1, <2>2 DEF VncInv
<1>10. CASE V!EndPointing
  <2>1. queue' \in Seq(SUBSET MouseButtons)
    BY <1>10, EmptySeq DEF V!EndPointing
  <2>2. V!TypeOK'
    BY <1>10, <2>1 DEF V!EndPointing, VncInv, V!TypeOK
  <2>3. VncTurns' /\ V!VncHolds'
    BY <1>10 DEF V!EndPointing, VncInv, V!TypeOK
  <2> QED
    BY <2>2, <2>3 DEF VncInv
<1>11. CASE V!Clicked
  <2>1. V!TypeOK'
    BY <1>11 DEF V!Clicked, VncInv, V!TypeOK
  <2>2. VncTurns' /\ V!VncHolds'
    BY <1>11 DEF V!Clicked, VncInv, V!TypeOK
  <2> QED
    BY <2>1, <2>2 DEF VncInv
<1> QED
  BY <1>1, <1>2, <1>3, <1>4, <1>5, <1>6, <1>7, <1>8, <1>9, <1>10, <1>11 DEF V!TickInputs

\* The second half: the surface is replaced where another size is wanted, and drawn.
LEMMA VncOutputs == ASSUME VncInv, V!TickOutputs PROVE VncInv'
<1> USE VncSizes
    DEF V!serverVars, V!queueVars, V!pictureVars, V!scriptVars, VncTurns, Handling, V!VncHolds, V!SizeTold,
        V!PictureShown, V!ButtonsTold
<1>1. CASE V!ScreenFails
  <2>1. V!TypeOK'
    BY <1>1 DEF V!ScreenFails, VncInv, V!TypeOK
  <2>2. VncTurns' /\ V!VncHolds'
    BY <1>1 DEF V!ScreenFails, VncInv, V!TypeOK
  <2> QED
    BY <2>1, <2>2 DEF VncInv
<1>2. CASE V!SurfaceFails
  <2>1. V!TypeOK'
    BY <1>2 DEF V!SurfaceFails, VncInv, V!TypeOK, V!DirtyNow, V!NeedsSurface
  <2>2. VncTurns' /\ V!VncHolds'
    BY <1>2 DEF V!SurfaceFails, VncInv, V!TypeOK, V!DirtyNow, V!NeedsSurface
  <2> QED
    BY <2>1, <2>2 DEF VncInv
<1>3. CASE V!FirstSurface
  <2>1. V!TypeOK'
    BY <1>3 DEF V!FirstSurface, VncInv, V!TypeOK, V!DirtyNow
  <2>2. VncTurns' /\ V!VncHolds'
    BY <1>3 DEF V!FirstSurface, VncInv, V!TypeOK, V!DirtyNow
  <2> QED
    BY <2>1, <2>2 DEF VncInv
<1>4. CASE V!NewSurface
  <2>1. V!TypeOK'
    BY <1>4 DEF V!NewSurface, VncInv, V!TypeOK
  <2>2. VncTurns' /\ V!VncHolds'
    BY <1>4 DEF V!NewSurface, VncInv, V!TypeOK
  <2> QED
    BY <2>1, <2>2 DEF VncInv
<1>5. CASE V!OpenedClosed
  <2>1. V!TypeOK'
    BY <1>5 DEF V!OpenedClosed, VncInv, V!TypeOK
  <2>2. VncTurns' /\ V!VncHolds'
    BY <1>5 DEF V!OpenedClosed, VncInv, V!TypeOK
  <2> QED
    BY <2>1, <2>2 DEF VncInv
<1>6. CASE V!Opened
  <2>1. V!TypeOK'
    BY <1>6 DEF V!Opened, VncInv, V!TypeOK
  <2>2. VncTurns' /\ V!VncHolds'
    BY <1>6 DEF V!Opened, VncInv, V!TypeOK
  <2> QED
    BY <2>1, <2>2 DEF VncInv
<1>7. CASE V!Draw
  <2>1. V!TypeOK'
    BY <1>7 DEF V!Draw, VncInv, V!TypeOK, V!DirtyNow, V!NeedsSurface
  <2>2. VncTurns' /\ V!VncHolds'
    BY <1>7 DEF V!Draw, VncInv, V!TypeOK, V!DirtyNow, V!NeedsSurface
  <2> QED
    BY <2>1, <2>2 DEF VncInv
<1> QED
  BY <1>1, <1>2, <1>3, <1>4, <1>5, <1>6, <1>7 DEF V!TickOutputs

LEMMA VncStep == ASSUME VncInv, [V!Next]_(V!vars) PROVE VncInv'
BY VncScripts, VncInputs, VncOutputs DEF V!Next

-----------------------------------------------------------------------------
(* Rectangles.                                                             *)

LEMMA LargerOf ==
  ASSUME NEW i \in Int, NEW j \in Int
  PROVE  /\ R!Max({i, j}) \in {i, j} /\ R!Max({i, j}) >= i /\ R!Max({i, j}) >= j
<1>1. \E x \in {i, j} : \A y \in {i, j} : x >= y
  OBVIOUS
<1> QED
  BY <1>1 DEF R!Max

LEMMA SmallerOf ==
  ASSUME NEW i \in Int, NEW j \in Int
  PROVE  /\ R!Min({i, j}) \in {i, j} /\ R!Min({i, j}) <= i /\ R!Min({i, j}) <= j
<1>1. \E x \in {i, j} : \A y \in {i, j} : x <= y
  OBVIOUS
<1> QED
  BY <1>1 DEF R!Min

\* What the operators do in one direction.
LEMMA Spans ==
  ASSUME NEW s \in R!Span
  PROVE  /\ s.at \in Int /\ s.len \in Nat /\ R!End(s) \in Int /\ s.at <= R!End(s)
         /\ -MaxAt <= s.at /\ R!End(s) <= MaxAt + MaxLen
BY DataAssumption DEF R!RectangleAssumption, R!Span, R!End

LEMMA SpanClips ==
  ASSUME NEW s \in R!Span, NEW o \in R!Span
  PROVE  LET c == R!ClipSpan(s, o) IN
         /\ c.at \in Int /\ c.len \in Nat
         /\ \A p \in Int : R!Has(c, p) <=> R!Has(s, p) /\ R!Has(o, p)
         /\ c.at >= s.at /\ R!End(c) <= R!End(s)
<1>1. /\ {s.at, o.at, R!End(s), R!End(o)} \subseteq Int /\ s.at <= R!End(s) /\ o.at <= R!End(o)
  BY Spans
<1> DEFINE left == R!Max({s.at, o.at})  right == R!Min({R!End(s), R!End(o)})
<1>2. /\ left \in {s.at, o.at} /\ left >= s.at /\ left >= o.at
      /\ right \in {R!End(s), R!End(o)} /\ right <= R!End(s) /\ right <= R!End(o)
  BY <1>1, LargerOf, SmallerOf
<1>3. R!ClipSpan(s, o) = IF left < right THEN [at |-> left, len |-> right - left]
                         ELSE [at |-> IF s.at < right THEN R!End(s) ELSE s.at, len |-> 0]
  BY DEF R!ClipSpan
<1> HIDE DEF left, right
<1> QED
  BY <1>1, <1>2, <1>3 DEF R!Has, R!End

LEMMA SpansMerge ==
  ASSUME NEW s \in R!Span, NEW o \in R!Span
  PROVE  LET m == R!MergeSpan(s, o) both == {s, o} IN
         /\ \A t \in both : m.at <= t.at /\ R!End(t) <= R!End(m)
         /\ m.at \in {t.at : t \in both} /\ R!End(m) \in {R!End(t) : t \in both}
<1>1. {s.at, o.at, R!End(s), R!End(o)} \subseteq Int
  BY Spans
<1> DEFINE left == R!Min({s.at, o.at})  right == R!Max({R!End(s), R!End(o)})  m == R!MergeSpan(s, o)
<1>2. /\ left \in {s.at, o.at} /\ left <= s.at /\ left <= o.at
      /\ right \in {R!End(s), R!End(o)} /\ right >= R!End(s) /\ right >= R!End(o)
  BY <1>1, LargerOf, SmallerOf
<1>3. m.at = left /\ m.len = right - left
  BY DEF R!MergeSpan
<1> HIDE DEF left, right, m
<1>4. R!End(m) = right
  BY <1>1, <1>2, <1>3 DEF R!End
<1> QED
  BY <1>2, <1>3, <1>4 DEF m

LEMMA SpanCentres ==
  ASSUME NEW s \in R!Span, NEW o \in R!Span
  PROVE  LET c == R!CenteredSpan(s, o)
         IN (c.at - o.at) - (R!End(o) - R!End(c)) \in {-1, 0, 1}
<1>1. s.len \in Nat /\ o.at \in Int /\ o.len \in Nat
  BY DEF R!Span
<1>2. PICK d \in Int : d = o.len - s.len
  BY <1>1
<1>3. R!Half(d) \in Int /\ 2 * R!Half(d) - d \in {-1, 0, 1}
  BY <1>2 DEF R!Half
<1> DEFINE c == R!CenteredSpan(s, o)
<1>4. c.at = o.at + R!Half(d) /\ c.len = s.len
  BY <1>2 DEF R!CenteredSpan
<1> HIDE DEF c
<1>5. (c.at - o.at) - (R!End(o) - R!End(c)) = 2 * R!Half(d) - d
  <2> DEFINE h == R!Half(d)
  <2>1. h \in Int /\ c.at = o.at + h
    BY <1>3, <1>4
  <2> HIDE DEF h
  <2>2. (c.at - o.at) - (R!End(o) - R!End(c)) = 2 * h - d
    BY <1>1, <1>2, <1>4, <2>1 DEF R!End
  <2> QED
    BY <2>2 DEF h
<1> QED
  BY <1>3, <1>5 DEF c

\* The clipped rectangle is the intersection, as far as its points go.
LEMMA ClipIntersects == ASSUME R!TypeOK PROVE R!ClipIsIntersection
<1> SUFFICES ASSUME NEW r \in Rectangles, NEW o \in Rectangles
             PROVE  LET c == R!Clip(rect[r], rect[o])
                        common == {p \in R!Points : R!Contains(rect[r], p) /\ R!Contains(rect[o], p)} IN
                    /\ {p \in R!Points : R!Contains(c, p)} = common /\ (R!Valid(c) <=> common # {})
                    /\ \A a \in R!Axes :
                         c[a].len >= 0 /\ c[a].at >= rect[r][a].at /\ R!End(c[a]) <= R!End(rect[r][a])
  BY DEF R!ClipIsIntersection
<1> DEFINE c == R!Clip(rect[r], rect[o])
           common == {p \in R!Points : R!Contains(rect[r], p) /\ R!Contains(rect[o], p)}
<1>1. \A a \in R!Axes : rect[r][a] \in R!Span /\ rect[o][a] \in R!Span
  BY DEF R!TypeOK
<1>2. \A a \in R!Axes : c[a] = R!ClipSpan(rect[r][a], rect[o][a])
  BY DEF R!Clip
<1> HIDE DEF c
<1>3. \A a \in R!Axes :
        /\ c[a].at \in Int /\ c[a].len \in Nat
        /\ \A p \in Int : R!Has(c[a], p) <=> R!Has(rect[r][a], p) /\ R!Has(rect[o][a], p)
        /\ c[a].at >= rect[r][a].at /\ R!End(c[a]) <= R!End(rect[r][a])
  BY <1>1, <1>2, SpanClips
<1>4. {p \in R!Points : R!Contains(c, p)} = common
  <2>1. \A p \in R!Points : \A a \in R!Axes : p[a] \in Int
    BY DataAssumption DEF R!Points, R!RectangleAssumption
  <2> QED
    BY <1>3, <2>1 DEF R!Contains
<1>5. ASSUME R!Valid(c) PROVE common # {}
  <2> DEFINE p == [a \in R!Axes |-> c[a].at]
  <2>1. \A a \in R!Axes : R!Has(c[a], p[a]) /\ p[a] \in -MaxAt .. MaxAt + MaxLen
    <3> SUFFICES ASSUME NEW a \in R!Axes
                 PROVE  R!Has(c[a], c[a].at) /\ c[a].at \in -MaxAt .. MaxAt + MaxLen
      OBVIOUS
    <3>1. /\ rect[r][a].at \in Int /\ -MaxAt <= rect[r][a].at /\ R!End(rect[r][a]) <= MaxAt + MaxLen
          /\ R!End(rect[r][a]) \in Int
      BY <1>1, Spans
    <3>2. c[a].at \in Int /\ c[a].len \in Nat \ {0} /\ c[a].at >= rect[r][a].at
          /\ R!End(c[a]) <= R!End(rect[r][a])
      BY <1>3, <1>5 DEF R!Valid
    <3>3. R!End(c[a]) = c[a].at + c[a].len
      BY DEF R!End
    <3> QED
      BY <3>1, <3>2, <3>3, DataAssumption DEF R!Has, R!RectangleAssumption
  <2>2. p \in R!Points
    BY <2>1 DEF R!Points
  <2>3. R!Contains(c, p)
    BY <2>1 DEF R!Contains
  <2> QED
    BY <1>4, <2>2, <2>3
<1>6. ASSUME common # {} PROVE R!Valid(c)
  <2>1. PICK p \in R!Points : R!Contains(c, p)
    BY <1>4, <1>6
  <2>2. \A a \in R!Axes : p[a] \in Int
    BY DataAssumption DEF R!Points, R!RectangleAssumption
  <2>3. \A a \in R!Axes : R!Has(c[a], p[a])
    BY <2>1 DEF R!Contains
  <2> QED
    BY <1>3, <2>2, <2>3 DEF R!Valid, R!Has, R!End
<1> QED
  BY <1>3, <1>4, <1>5, <1>6 DEF c

\* Whatever the rectangles are: the geometry is that of the operators.
LEMMA RectanglesConclude == ASSUME R!TypeOK PROVE R!GeometryHolds
<1>1. \A r \in Rectangles, a \in R!Axes : rect[r][a] \in R!Span
  BY DEF R!TypeOK
<1>2. R!MergeIsHull
  BY <1>1, SpansMerge DEF R!MergeIsHull
<1>3. R!CentredEvenly
  BY <1>1, SpanCentres DEF R!CentredEvenly
<1> QED
  BY <1>2, <1>3, ClipIntersects DEF R!GeometryHolds

LEMMA RectangleInit == ASSUME Init PROVE R!TypeOK
<1>1. [at |-> 0, len |-> 0] \in R!Span
  BY DataAssumption DEF R!Span, R!RectangleAssumption
<1> QED
  BY <1>1 DEF Init, R!Init, R!TypeOK, R!Empty

\* Whatever a script makes of a rectangle is one again.
LEMMA RectangleStep == ASSUME R!TypeOK, [R!Next]_rect PROVE R!TypeOK'
<1>1. ASSUME NEW r \in Rectangles, NEW v, R!Becomes(r, v) PROVE R!TypeOK'
  BY <1>1 DEF R!Becomes, R!TypeOK
<1>2. CASE R!Assign
  BY <1>1, <1>2 DEF R!Assign, R!SetStart, R!SetLength, R!SetEnd
<1>3. CASE R!Change
  BY <1>1, <1>3 DEF R!Change, R!Place, R!Resize, R!Move
<1>4. CASE R!Combine
  BY <1>1, <1>4 DEF R!Combine
<1>5. CASE R!Dup \/ R!Reset
  BY <1>1, <1>5 DEF R!Dup, R!Reset
<1>6. CASE UNCHANGED rect
  BY <1>6 DEF R!TypeOK
<1> QED
  BY <1>2, <1>3, <1>4, <1>5, <1>6 DEF R!Next

-----------------------------------------------------------------------------
(* The list of rectangles.                                                 *)

\* SlotsOwned in terms of cells: which slots are referred to, and which are free.
Used(s)  == \E i \in 1..listSize : cells[i] = s
Freed(s) == \E i \in 1..Len(free) : free[i] = s
Owned ==
  /\ \A i, j \in 1..listSize : cells[i] = cells[j] => i = j
  /\ \A i, j \in 1..Len(free) : free[i] = free[j] => i = j
  /\ \A s \in 1..Len(slots) : Used(s) \/ Freed(s)
  /\ \A s \in 1..Len(slots) : ~(Used(s) /\ Freed(s))
  /\ \A s \in 1..Len(slots) : Freed(s) <=> slots[s] = Gone

\* The walk is within the vector as it was when it began, and as long as that is left
\* alone, the script is given what is there.
OnItsWay ==
  /\ Len(walk.started) <= listSize
  /\ \A i \in 1..Len(walk.started) : walk.started[i] = slots[cells[i]]
  /\ Len(walk.given) = IF walk.at = "idle" THEN 0 ELSE IF walk.at = "next" THEN walk.iter - 1 ELSE walk.iter
  /\ \A i \in 1..Len(walk.given) : walk.given[i] = walk.started[i]
  /\ walk.at = "done" => walk.answer = walk.given[walk.iter]
Walking ==
  /\ walk.at = "idle" => walk = L!Idle
  /\ walk.at # "idle" => walk.end = Len(walk.started) + 1 /\ walk.iter \in 1..walk.end
  /\ walk.end <= Len(cells) + 1
  /\ walk.at \in {"called", "done"} => walk.iter < walk.end
  /\ walk.at # "done" => walk.answer = Gone
  /\ ~walk.erased /\ ~walk.moved => OnItsWay

ListInv == L!TypeOK /\ listSize <= MaxSize /\ Owned /\ Walking

\* The references as a sequence.
LEMMA ListRefs ==
  L!TypeOK => /\ L!refs \in Seq(1..Len(slots)) /\ Len(L!refs) = listSize
              /\ \A i \in 1..listSize : L!refs[i] = cells[i] /\ cells[i] \in 1..Len(slots)
<1> SUFFICES ASSUME L!TypeOK
             PROVE  /\ L!refs \in Seq(1..Len(slots)) /\ Len(L!refs) = listSize
                    /\ \A i \in 1..listSize : L!refs[i] = cells[i] /\ cells[i] \in 1..Len(slots)
  OBVIOUS
<1>1. cells \in Seq(1..Len(slots)) /\ listSize \in 0..Len(cells) /\ Len(cells) \in Nat
  BY DEF L!TypeOK
<1>2. \A i \in 1..listSize : cells[i] \in 1..Len(slots)
  BY <1>1, ElementOfSeq
<1> QED
  BY <1>1, <1>2, SubSeqProperties DEF L!refs

LEMMA OwnedMeans == L!TypeOK /\ Owned => L!SlotsOwned
<1> SUFFICES ASSUME L!TypeOK, Owned PROVE L!SlotsOwned
  OBVIOUS
<1>1. DOMAIN L!refs = 1..listSize /\ DOMAIN free = 1..Len(free) /\ DOMAIN slots = 1..Len(slots)
  BY ListRefs DEF L!TypeOK
<1>2. \A i \in 1..Len(free) : free[i] \in 1..Len(slots)
  BY ElementOfSeq DEF L!TypeOK
<1>3. L!IsInjective(L!refs) /\ L!IsInjective(free)
  BY <1>1, ListRefs DEF L!IsInjective, Owned
<1>4. \A s \in 1..Len(slots) : (s \in L!ToSet(L!refs) <=> Used(s)) /\ (s \in L!ToSet(free) <=> Freed(s))
  BY <1>1, ListRefs DEF L!ToSet, Used, Freed
<1>5. L!ToSet(L!refs) \subseteq 1..Len(slots) /\ L!ToSet(free) \subseteq 1..Len(slots)
  BY <1>1, <1>2, ListRefs DEF L!ToSet
<1> QED
  BY <1>1, <1>3, <1>4, <1>5 DEF L!SlotsOwned, Owned

\* What the list is made of.
LEMMA ListTypes ==
  ASSUME ListInv
  PROVE  /\ slots \in Seq(Rectangles \cup {Gone}) /\ Len(slots) \in Nat /\ Len(slots) <= MaxSize
         /\ free \in Seq(1..Len(slots)) /\ Len(free) \in Nat
         /\ cells \in Seq(1..Len(slots)) /\ Len(cells) \in Nat /\ Len(cells) <= 2 * MaxSize
         /\ listSize \in Nat /\ listSize <= Len(cells) /\ listSize <= MaxSize
         /\ MaxSize \in Nat /\ ListChanges \in Nat /\ Gone \notin Rectangles
         /\ \A i \in 1..Len(cells) : cells[i] \in 1..Len(slots)
         /\ \A i \in 1..Len(free) : free[i] \in 1..Len(slots)
         /\ \A s \in 1..Len(slots) : slots[s] \in Rectangles \cup {Gone}
<1>1. /\ slots \in Seq(Rectangles \cup {Gone}) /\ Len(slots) \in Nat /\ Len(slots) <= MaxSize
      /\ free \in Seq(1..Len(slots)) /\ Len(free) \in Nat
      /\ cells \in Seq(1..Len(slots)) /\ Len(cells) \in Nat /\ Len(cells) <= 2 * MaxSize
      /\ listSize \in Nat /\ listSize <= Len(cells) /\ listSize <= MaxSize
  BY DEF ListInv, L!TypeOK
<1> QED
  BY <1>1, ElementOfSeq, DataAssumption DEF L!ListAssumption

LEMMA ListInit == ASSUME Init PROVE ListInv
<1>1. cells = <<>> /\ listSize = 0 /\ slots = <<>> /\ free = <<>> /\ walk = L!Idle
  BY DEF Init, L!Init
<1>2. MaxSize \in Nat /\ ListChanges \in Nat
  BY DataAssumption DEF L!ListAssumption
<1>3. walk \in L!Walks
  <2>1. <<>> \in Seq(Rectangles) /\ <<>> \in Seq(Rectangles \cup {Gone}) /\ 0 \in 0..ListChanges
    BY <1>2, EmptySeq
  <2> QED
    BY <1>1, <2>1 DEF L!Idle, L!Walks
<1>4. L!TypeOK
  BY <1>1, <1>2, <1>3 DEF L!TypeOK
<1>5. Owned
  BY <1>1 DEF Owned
<1>6. Walking
  BY <1>1 DEF Walking, L!Idle, OnItsWay
<1> QED
  BY <1>1, <1>2, <1>4, <1>5, <1>6 DEF ListInv

\* If no slot is free, there are as many as references.
LEMMA FullSlots == ASSUME ListInv, free = <<>> PROVE Len(slots) <= listSize
<1> DEFINE f == [i \in 1..listSize |-> cells[i]]
<1>1. f \in Surjection(1..listSize, 1..Len(slots))
  <2>1. \A s \in 1..Len(slots) : Used(s)
    BY DEF ListInv, Owned, Freed
  <2> QED
    BY <2>1, ListTypes DEF Surjection, Used
<1>2. IsFiniteSet(1..listSize) /\ Cardinality(1..listSize) = listSize /\ Cardinality(1..Len(slots)) = Len(slots)
  <2>1. listSize \in Nat /\ Len(slots) \in Nat /\ 1 \in Int
    BY ListTypes
  <2>2. \A n \in Nat : IsFiniteSet(1..n) /\ Cardinality(1..n) = n
    BY FS_Interval
  <2> QED
    BY <2>1, <2>2
<1> HIDE DEF f
<1> QED
  BY <1>1, <1>2, FS_Surjection

\* The slot that is taken, and what remains free.
LEMMA TakesSlot ==
  ASSUME ListInv, listSize < MaxSize
  PROVE  /\ L!TakenSlot \in 1..MaxSize
         /\ free = <<>> => L!TakenSlot = Len(slots) + 1
         /\ free # <<>> => /\ L!TakenSlot = free[1] /\ L!TakenSlot \in 1..Len(slots)
                           /\ Tail(free) \in Seq(1..Len(slots)) /\ Len(Tail(free)) = Len(free) - 1
                           /\ \A i \in 1..Len(free) - 1 : Tail(free)[i] = free[i + 1]
<1>1. CASE free = <<>>
  BY <1>1, ListTypes, FullSlots DEF L!TakenSlot
<1>2. CASE free # <<>>
  <2>1. 1 \in 1..Len(free) /\ Head(free) = free[1]
    BY <1>2, ListTypes, HeadTailProperties
  <2> QED
    BY <1>2, <2>1, ListTypes, HeadTailProperties DEF L!TakenSlot
<1> QED
  BY <1>1, <1>2

\* The script changes the list within a walk: the walk knows that of it.
LEMMA WalkChanges ==
  ASSUME ListInv, NEW e \in BOOLEAN, NEW m \in BOOLEAN, L!Changed(e, m)
  PROVE  /\ walk' \in L!Walks
         /\ walk'.at = walk.at /\ walk'.iter = walk.iter /\ walk'.end = walk.end /\ walk'.started = walk.started
         /\ walk'.given = walk.given /\ walk'.answer = walk.answer
         /\ walk.at = "called" => walk'.erased = (walk.erased \/ e) /\ walk'.moved = (walk.moved \/ m)
         /\ walk.at # "called" => walk' = walk
<1>1. walk \in L!Walks
  BY DEF ListInv, L!TypeOK
<1>2. CASE walk.at = "called"
  <2>1. /\ walk.changes < ListChanges
        /\ walk' = [walk EXCEPT !.erased = @ \/ e, !.moved = @ \/ m, !.changes = @ + 1]
    BY <1>2 DEF L!Changed
  <2>2. walk.changes + 1 \in 0..ListChanges
    BY <1>1, <2>1, ListTypes DEF L!Walks
  <2> QED
    BY <1>1, <1>2, <2>1, <2>2 DEF L!Walks
<1>3. CASE walk.at # "called"
  BY <1>1, <1>3 DEF L!Changed
<1> QED
  BY <1>2, <1>3

\* What the walk knows is still so if the references it goes through are as they were.
LEMMA WalkGoesOn ==
  ASSUME ListInv, NEW e \in BOOLEAN, NEW m \in BOOLEAN, L!Changed(e, m), L!Script,
         Len(cells) <= Len(cells'), Len(cells') \in Nat, listSize' \in Nat,
         ~e /\ ~m => /\ listSize <= listSize'
                     /\ \A i \in 1..listSize : slots'[cells'[i]] = slots[cells[i]]
  PROVE  walk' \in L!Walks /\ Walking'
<1>1. /\ walk' \in L!Walks
      /\ walk'.at = walk.at /\ walk'.iter = walk.iter /\ walk'.end = walk.end /\ walk'.started = walk.started
      /\ walk'.given = walk.given /\ walk'.answer = walk.answer
      /\ walk.at = "called" => walk'.erased = (walk.erased \/ e) /\ walk'.moved = (walk.moved \/ m)
      /\ walk.at # "called" => walk' = walk
  BY WalkChanges
<1>2. walk.at \in {"idle", "called"}
  BY DEF L!Script
<1>3. walk.end \in Nat /\ Len(walk.started) \in Nat /\ Len(walk.given) \in Nat
  BY DEF ListInv, L!TypeOK, L!Walks
<1>4. CASE walk.at = "idle"
  <2>1. walk' = walk /\ walk = L!Idle
    BY <1>1, <1>4 DEF ListInv, Walking
  <2>2. /\ walk'.at = "idle" /\ walk'.end = 0 /\ walk'.answer = Gone
        /\ walk'.started = <<>> /\ walk'.given = <<>> /\ Len(<<>>) = 0
    BY <2>1 DEF L!Idle
  <2>3. walk' = L!Idle' /\ 0 <= Len(cells') + 1
    BY <2>1 DEF L!Idle
  <2>4. OnItsWay'
    BY <1>1, <2>1, <2>2, ListTypes DEF OnItsWay
  <2> QED
    BY <1>1, <2>2, <2>3, <2>4 DEF Walking
<1>5. CASE walk.at = "called"
  <2>1. ASSUME ~walk'.erased, ~walk'.moved PROVE OnItsWay'
    <3>1. ~walk.erased /\ ~walk.moved /\ ~e /\ ~m
      BY <1>1, <1>5, <2>1
    <3>2. /\ Len(walk.started) <= listSize
          /\ \A i \in 1..Len(walk.started) : walk.started[i] = slots[cells[i]]
          /\ Len(walk.given) = walk.iter /\ \A i \in 1..Len(walk.given) : walk.given[i] = walk.started[i]
      BY <1>5, <3>1 DEF ListInv, Walking, OnItsWay
    <3>3. /\ walk'.started = walk.started /\ walk'.given = walk.given /\ walk'.iter = walk.iter
          /\ walk'.at = "called"
      BY <1>1, <1>5
    <3>4. listSize \in Nat /\ listSize <= listSize'
      BY <3>1, ListTypes
    <3>5. \A i \in 1..Len(walk.started) : walk.started[i] = slots'[cells'[i]]
      BY <1>3, <3>1, <3>2, <3>4
    <3> QED
      BY <1>3, <3>2, <3>3, <3>4, <3>5 DEF OnItsWay
  <2> QED
    BY <1>1, <1>3, <1>5, <2>1, ListTypes DEF ListInv, Walking
<1> QED
  BY <1>2, <1>4, <1>5

LEMMA ListAdds == ASSUME ListInv, L!Script, NEW r \in Rectangles, L!Add(r) PROVE ListInv'
<1> DEFINE block == IF listSize = Len(cells) THEN L!Grown ELSE cells
           slot  == L!TakenSlot
           most == IF free = <<>> THEN Len(slots) + 1 ELSE Len(slots)
<1>1. /\ listSize < MaxSize /\ cells' = [block EXCEPT ![listSize + 1] = slot] /\ listSize' = listSize + 1
      /\ slots' = [s \in 1..most |-> IF s = slot THEN r ELSE slots[s]]
      /\ free' = IF free = <<>> THEN <<>> ELSE Tail(free)
      /\ L!Changed(FALSE, listSize = Len(cells))
  BY DEF L!Add
<1>2. /\ slot \in 1..most /\ most \in 1..MaxSize /\ most >= Len(slots)
      /\ free = <<>> => slot = Len(slots) + 1
      /\ free # <<>> => /\ slot = free[1] /\ slot \in 1..Len(slots)
                        /\ Tail(free) \in Seq(1..Len(slots)) /\ Len(Tail(free)) = Len(free) - 1 /\ Len(free) >= 1
                        /\ \A i \in 1..Len(free) - 1 : Tail(free)[i] = free[i + 1]
  BY <1>1, TakesSlot, ListTypes, HeadTailProperties
<1> HIDE DEF slot, most
<1>3. slots' \in Seq(Rectangles \cup {Gone}) /\ Len(slots') = most
  <2>1. \A s \in 1..most : (IF s = slot THEN r ELSE slots[s]) \in Rectangles \cup {Gone}
    BY <1>2, ListTypes DEF most
  <2> QED
    BY <1>1, <1>2, <2>1, IsASeq
<1>4. /\ block \in Seq(1..most) /\ Len(block) \in listSize + 1..2 * MaxSize /\ Len(cells) <= Len(block)
      /\ \A i \in 1..listSize : block[i] = cells[i]
  <2>1. CASE listSize = Len(cells)
    <3> DEFINE n == IF listSize = 0 THEN 1 ELSE 2 * listSize
    <3>1. n \in Nat /\ n \in listSize + 1..2 * MaxSize
      BY <1>1, ListTypes
    <3> HIDE DEF n
    <3>2. block = [i \in 1..n |-> IF i <= listSize THEN cells[i] ELSE 1]
      BY <2>1 DEF L!Grown, n
    <3>3. \A i \in 1..n : (IF i <= listSize THEN cells[i] ELSE 1) \in 1..most
      BY <1>2, <2>1, <3>1, ListTypes
    <3>4. block \in [1..n -> 1..most]
      BY <3>2, <3>3
    <3>5. block \in Seq(1..most) /\ Len(block) = n
      BY <3>1, <3>4, FunctionIsSeq
    <3> QED
      BY <2>1, <3>1, <3>2, <3>5, ListTypes
  <2>2. CASE listSize # Len(cells)
    <3>1. cells \in Seq(1..most)
      <4>1. 1..Len(slots) \subseteq 1..most
        BY <1>2, ListTypes
      <4> QED
        BY <4>1, ListTypes, SeqMonotonic
    <3> QED
      BY <2>2, <3>1, ListTypes
  <2> QED
    BY <2>1, <2>2
<1>5. cells' \in Seq(1..most) /\ Len(cells') = Len(block)
      /\ (\A i \in 1..listSize : cells'[i] = cells[i]) /\ cells'[listSize + 1] = slot
  <2> HIDE DEF block
  <2>1. listSize + 1 \in 1..Len(block) /\ slot \in 1..most /\ block \in Seq(1..most)
    BY <1>2, <1>4, ListTypes
  <2>2. /\ cells' \in Seq(1..most) /\ Len(cells') = Len(block) /\ cells'[listSize + 1] = slot
        /\ \A i \in 1..Len(block) : i # listSize + 1 => cells'[i] = block[i]
    BY <1>1, <2>1, SeqExcept
  <2>3. \A i \in 1..listSize : i \in 1..Len(block) /\ i # listSize + 1
    BY <1>4, ListTypes
  <2> QED
    BY <1>4, <2>2, <2>3
<1> HIDE DEF block
<1>6. free' \in Seq(1..most)
  <2>1. CASE free = <<>>
    BY <1>1, <2>1, EmptySeq
  <2>2. CASE free # <<>>
    <3>1. 1..Len(slots) \subseteq 1..most
      BY <1>2, ListTypes
    <3> QED
      BY <1>1, <1>2, <2>2, <3>1, SeqMonotonic
  <2> QED
    BY <2>1, <2>2
<1>7. \A i \in 1..listSize : cells[i] # slot
  <2>1. CASE free = <<>>
    BY <1>2, <2>1, ListTypes
  <2>2. CASE free # <<>>
    <3>1. Freed(slot)
      BY <1>2, <2>2, ListTypes DEF Freed
    <3> QED
      BY <1>2, <2>2, <3>1 DEF ListInv, Owned, Used
  <2> QED
    BY <2>1, <2>2
<1>8. /\ 1..listSize' = 1..listSize \cup {listSize + 1} /\ listSize + 1 \notin 1..listSize
      /\ \A i \in 1..listSize : cells[i] \in 1..most
  <2>1. listSize' = listSize + 1 /\ listSize \in Nat
    BY <1>1, ListTypes
  <2>2. \A i \in 1..listSize : cells[i] \in 1..Len(slots)
    BY ListTypes
  <2>3. 1..Len(slots) \subseteq 1..most
    BY <1>2, ListTypes
  <2> QED
    BY <2>1, <2>2, <2>3
<1>9. Owned'
  <2>1. \A i, j \in 1..listSize' : cells'[i] = cells'[j] => i = j
    BY <1>5, <1>7, <1>8 DEF ListInv, Owned
  <2>2. \A s \in 1..most : Used(s)' <=> Used(s) \/ s = slot
    BY <1>5, <1>8 DEF Used
  <2>3. \A s \in 1..most : Freed(s)' <=> Freed(s) /\ s # slot
    <3>1. CASE free = <<>>
      BY <1>1, <3>1 DEF Freed
    <3>2. CASE free # <<>>
      <4>1. free' = Tail(free) /\ Len(free') = Len(free) - 1 /\ Len(free) \in Nat
        BY <1>1, <1>2, <3>2, ListTypes
      <4>2. \A i \in 1..Len(free') : free'[i] = free[i + 1] /\ free[i + 1] # slot
        BY <1>2, <3>2, <4>1 DEF ListInv, Owned
      <4>3. ASSUME NEW s \in 1..most, Freed(s), s # slot PROVE Freed(s)'
        <5>1. PICK i \in 1..Len(free) : free[i] = s
          BY <4>3 DEF Freed
        <5>2. i # 1
          BY <1>2, <3>2, <4>3, <5>1
        <5>3. i - 1 \in 1..Len(free') /\ free'[i - 1] = free[i - 1 + 1] /\ i - 1 + 1 = i
          BY <4>1, <4>2, <5>1, <5>2
        <5> QED
          BY <5>1, <5>3 DEF Freed
      <4>4. ASSUME NEW s \in 1..most, Freed(s)' PROVE Freed(s) /\ s # slot
        <5>1. PICK i \in 1..Len(free') : free'[i] = s
          BY <4>4 DEF Freed
        <5>2. i + 1 \in 1..Len(free) /\ free[i + 1] = s /\ s # slot
          BY <4>1, <4>2, <5>1
        <5> QED
          BY <5>2 DEF Freed
      <4> QED
        BY <4>3, <4>4
    <3> QED
      BY <3>1, <3>2
  <2>4. \A i, j \in 1..Len(free') : free'[i] = free'[j] => i = j
    <3>1. CASE free = <<>>
      BY <1>1, <3>1
    <3>2. CASE free # <<>>
      BY <1>1, <1>2, <3>2, ListTypes DEF ListInv, Owned
    <3> QED
      BY <3>1, <3>2
  <2>5. ASSUME NEW s \in 1..most
        PROVE  /\ Used(s)' \/ Freed(s)'
               /\ ~(Used(s)' /\ Freed(s)')
               /\ Freed(s)' <=> slots'[s] = Gone
    <3>1. CASE s = slot
      <4>1. slots'[s] # Gone
        BY <1>1, <3>1, ListTypes
      <4> QED
        BY <2>2, <2>3, <3>1, <4>1
    <3>2. CASE s # slot
      <4>1. s \in 1..Len(slots) /\ slots'[s] = slots[s]
        BY <1>1, <1>2, <3>2, ListTypes DEF most
      <4> QED
        BY <2>2, <2>3, <3>2, <4>1 DEF ListInv, Owned
    <3> QED
      BY <3>1, <3>2
  <2> QED
    BY <1>3, <2>1, <2>4, <2>5 DEF Owned
<1>10. walk' \in L!Walks /\ Walking'
  <2>1. \A i \in 1..listSize : slots'[cells'[i]] = slots[cells[i]]
    <3> SUFFICES ASSUME NEW i \in 1..listSize PROVE slots'[cells'[i]] = slots[cells[i]]
      OBVIOUS
    <3>1. cells'[i] = cells[i] /\ cells[i] \in 1..most /\ cells[i] # slot
      BY <1>5, <1>7, <1>8
    <3> QED
      BY <1>1, <3>1
  <2>2. Len(cells) <= Len(cells') /\ Len(cells') \in Nat /\ listSize <= listSize' /\ listSize' \in Nat
    BY <1>1, <1>4, <1>5, ListTypes
  <2>3. FALSE \in BOOLEAN /\ (listSize = Len(cells)) \in BOOLEAN
    OBVIOUS
  <2> QED
    BY <1>1, <2>1, <2>2, <2>3, WalkGoesOn
<1>11. L!TypeOK'
  <2>1. listSize' \in 0..Len(cells') /\ Len(cells') <= 2 * MaxSize
    BY <1>1, <1>4, <1>5, ListTypes
  <2>2. DOMAIN slots' = 1..most /\ Len(slots') <= MaxSize
    BY <1>2, <1>3
  <2> QED
    BY <1>3, <1>5, <1>6, <1>10, <2>1, <2>2 DEF L!TypeOK
<1> QED
  BY <1>1, <1>9, <1>10, <1>11, ListTypes DEF ListInv

\* The reference is gone, and those behind it have moved up: no slot is used twice.
LEMMA ListErases == ASSUME ListInv, L!Script, NEW r \in Rectangles, L!Erase(r) PROVE ListInv'
<1>1. PICK i \in 1..listSize :
        /\ L!List[i] = r
        /\ slots' = [slots EXCEPT ![cells[i]] = Gone]
        /\ free' = <<cells[i]>> \o free
        /\ cells' = [c \in DOMAIN cells |-> IF c \in i..listSize - 1 THEN cells[c + 1] ELSE cells[c]]
        /\ listSize' = listSize - 1
        /\ L!Changed(TRUE, FALSE)
  BY DEF L!Erase
<1> DEFINE slot == cells[i]
<1>2. /\ slot \in 1..Len(slots) /\ slots[slot] = r /\ r # Gone /\ DOMAIN cells = 1..Len(cells)
      /\ i \in Nat /\ listSize \in Nat /\ i <= listSize /\ listSize <= Len(cells)
  BY <1>1, ListTypes DEF L!List
<1>3. Used(slot) /\ ~Freed(slot)
  BY <1>1, <1>2 DEF Used, ListInv, Owned
<1>4. /\ slots' \in Seq(Rectangles \cup {Gone}) /\ Len(slots') = Len(slots) /\ slots'[slot] = Gone
      /\ \A s \in 1..Len(slots) : s # slot => slots'[s] = slots[s]
  BY <1>1, <1>2, ListTypes, SeqExcept
<1>5. /\ free' \in Seq(1..Len(slots)) /\ Len(free') = Len(free) + 1 /\ free'[1] = slot
      /\ \A j \in 1..Len(free) : free'[j + 1] = free[j]
  <2>1. <<slot>> \in Seq(1..Len(slots)) /\ Len(<<slot>>) = 1 /\ <<slot>>[1] = slot
    BY <1>2
  <2>2. free' = <<slot>> \o free /\ free \in Seq(1..Len(slots)) /\ Len(free) \in Nat
    BY <1>1, ListTypes
  <2> HIDE DEF slot
  <2> QED
    BY <2>1, <2>2, ConcatProperties
<1>6. /\ cells' \in Seq(1..Len(slots)) /\ Len(cells') = Len(cells)
      /\ \A c \in 1..listSize - 1 : cells'[c] = IF c < i THEN cells[c] ELSE cells[c + 1]
  <2>1. \A c \in 1..Len(cells) : (IF c \in i..listSize - 1 THEN cells[c + 1] ELSE cells[c]) \in 1..Len(slots)
    <3>1. \A c \in 1..Len(cells) : c \in i..listSize - 1 => c + 1 \in 1..Len(cells)
      BY <1>2, ListTypes
    <3> QED
      BY <3>1, ListTypes
  <2>2. cells' \in [1..Len(cells) -> 1..Len(slots)]
    BY <1>1, <1>2, <2>1
  <2>3. cells' \in Seq(1..Len(slots)) /\ Len(cells') = Len(cells)
    BY <2>2, ListTypes, FunctionIsSeq
  <2>4. \A c \in 1..listSize - 1 : c \in DOMAIN cells /\ (c \in i..listSize - 1 <=> ~(c < i))
    BY <1>2, ListTypes
  <2> QED
    BY <1>1, <2>3, <2>4
<1> HIDE DEF slot
<1>7. Owned'
  <2>1. \A c, d \in 1..listSize' : cells'[c] = cells'[d] => c = d
    <3> SUFFICES ASSUME NEW c \in 1..listSize - 1, NEW d \in 1..listSize - 1, cells'[c] = cells'[d]
                 PROVE  c = d
      BY <1>1
    <3> DEFINE b(x) == IF x < i THEN x ELSE x + 1
    <3>1. b(c) \in 1..listSize /\ b(d) \in 1..listSize /\ (b(c) = b(d) => c = d)
      BY <1>2
    <3>2. cells[b(c)] = cells[b(d)]
      BY <1>6
    <3> HIDE DEF b
    <3>3. b(c) = b(d)
      BY <3>1, <3>2 DEF ListInv, Owned
    <3> QED
      BY <3>1, <3>3
  <2>2. ASSUME NEW s \in 1..Len(slots), Used(s)' PROVE Used(s) /\ s # slot
    <3>1. PICK c \in 1..listSize - 1 : cells'[c] = s
      BY <1>1, <2>2 DEF Used
    <3>2. PICK d \in 1..listSize : d # i /\ cells[d] = s
      BY <1>2, <1>6, <3>1
    <3> QED
      BY <1>1, <3>2 DEF Used, slot, ListInv, Owned
  <2>3. ASSUME NEW s \in 1..Len(slots), Used(s), s # slot PROVE Used(s)'
    <3>1. PICK d \in 1..listSize : cells[d] = s
      BY <2>3 DEF Used
    <3>2. d # i
      BY <2>3, <3>1 DEF slot
    <3>3. CASE d < i
      <4>1. d \in 1..listSize - 1 /\ cells'[d] = s
        BY <1>2, <1>6, <3>1, <3>3
      <4> QED
        BY <1>1, <4>1 DEF Used
    <3>4. CASE d > i
      <4>1. d - 1 \in 1..listSize - 1 /\ ~(d - 1 < i) /\ d - 1 + 1 = d
        BY <1>2, <3>4
      <4>2. cells'[d - 1] = s
        BY <1>6, <3>1, <4>1
      <4> QED
        BY <1>1, <4>1, <4>2 DEF Used
    <3> QED
      BY <1>2, <3>2, <3>3, <3>4
  <2>4. /\ \A j \in 1..Len(free') : j = 1 \/ (j - 1 \in 1..Len(free) /\ free'[j] = free[j - 1])
        /\ 1 \in 1..Len(free') /\ \A j \in 1..Len(free) : j + 1 \in 1..Len(free')
    <3>1. Len(free) \in Nat /\ Len(free') = Len(free) + 1
      BY <1>5, ListTypes
    <3>2. \A j \in 1..Len(free) + 1 : j = 1 \/ (j - 1 \in 1..Len(free) /\ j - 1 + 1 = j)
      BY <3>1
    <3> QED
      BY <1>5, <3>1, <3>2
  <2>5. \A s \in 1..Len(slots) : Freed(s)' <=> Freed(s) \/ s = slot
    BY <1>5, <2>4 DEF Freed
  <2>6. \A j, k \in 1..Len(free') : free'[j] = free'[k] => j = k
    <3>1. \A j \in 1..Len(free) : free[j] # slot
      BY <1>3 DEF Freed
    <3>2. \A j, k \in 1..Len(free) : free[j] = free[k] => j = k
      BY DEF ListInv, Owned
    <3> SUFFICES ASSUME NEW j \in 1..Len(free'), NEW k \in 1..Len(free'), free'[j] = free'[k], j # 1 \/ k # 1
                 PROVE  j = k
      OBVIOUS
    <3>3. j # 1 /\ k # 1
      BY <1>5, <2>4, <3>1
    <3>4. j - 1 = k - 1 /\ j \in Int /\ k \in Int
      BY <2>4, <3>2, <3>3
    <3> QED
      BY <3>4
  <2> QED
    BY <1>3, <1>4, <2>1, <2>2, <2>3, <2>5, <2>6 DEF Owned, ListInv
<1>8. walk' \in L!Walks /\ Walking'
  <2>1. Len(cells) <= Len(cells') /\ Len(cells') \in Nat /\ listSize' \in Nat
    BY <1>1, <1>2, <1>6, ListTypes
  <2> QED
    BY <1>1, <2>1, WalkGoesOn
<1>9. L!TypeOK'
  <2>1. listSize' \in 0..Len(cells') /\ Len(cells') <= 2 * MaxSize /\ Len(slots') <= MaxSize
    BY <1>1, <1>2, <1>4, <1>6, ListTypes
  <2>2. DOMAIN slots' = 1..Len(slots)
    BY <1>4
  <2> QED
    BY <1>4, <1>5, <1>6, <1>8, <2>1, <2>2 DEF L!TypeOK
<1> QED
  BY <1>1, <1>2, <1>7, <1>8, <1>9, ListTypes DEF ListInv

\* All references are given back: every slot is free.
LEMMA ListClears == ASSUME ListInv, L!Script, L!Clear PROVE ListInv'
<1> DEFINE back == L!Reverse(L!refs)
           m(i) == listSize - i + 1
<1>1. /\ slots' = [s \in DOMAIN slots |-> IF s \in L!ToSet(L!refs) THEN Gone ELSE slots[s]]
      /\ free' = back \o free
      /\ listSize' = 0 /\ L!Changed(TRUE, FALSE) /\ UNCHANGED cells
  BY DEF L!Clear
<1>2. /\ DOMAIN slots = 1..Len(slots) /\ listSize \in Nat /\ Len(free) \in Nat /\ Len(slots) \in Nat
      /\ free \in Seq(1..Len(slots))
  BY ListTypes
<1>3. /\ L!refs \in Seq(1..Len(slots)) /\ Len(L!refs) = listSize
      /\ \A i \in 1..listSize : L!refs[i] = cells[i] /\ cells[i] \in 1..Len(slots)
  BY ListRefs DEF ListInv
<1>4. \A s \in 1..Len(slots) : s \in L!ToSet(L!refs) <=> Used(s)
  BY <1>3 DEF L!ToSet, Used
<1>5. /\ back \in Seq(1..Len(slots)) /\ Len(back) = listSize
      /\ \A i \in 1..listSize : m(i) \in 1..listSize /\ m(m(i)) = i /\ back[i] = cells[m(i)]
  <2>1. \A i \in 1..listSize : m(i) \in 1..listSize /\ m(m(i)) = i
    BY <1>2
  <2>2. back = [i \in 1..listSize |-> cells[m(i)]]
    BY <1>3, <2>1 DEF L!Reverse
  <2>3. back \in [1..listSize -> 1..Len(slots)]
    BY <1>3, <2>1, <2>2
  <2> HIDE DEF back, m
  <2> QED
    BY <1>2, <2>1, <2>2, <2>3, FunctionIsSeq
<1> HIDE DEF back, m
<1>6. /\ free' \in Seq(1..Len(slots)) /\ Len(free') = listSize + Len(free)
      /\ \A i \in 1..listSize : free'[i] = back[i]
      /\ \A i \in 1..Len(free) : free'[listSize + i] = free[i]
  <2>1. free' = back \o free
    BY <1>1
  <2>2. \A i \in 1..Len(back) + Len(free) : (back \o free)[i] = IF i <= Len(back) THEN back[i] ELSE free[i - Len(back)]
    BY <1>2, <1>5, ConcatProperties
  <2>3. \A i \in 1..listSize : i \in 1..listSize + Len(free) /\ i <= listSize
    BY <1>2
  <2>4. \A i \in 1..Len(free) :
          listSize + i \in 1..listSize + Len(free) /\ ~(listSize + i <= listSize) /\ listSize + i - listSize = i
    BY <1>2
  <2>5. back \o free \in Seq(1..Len(slots)) /\ Len(back \o free) = listSize + Len(free)
    BY <1>2, <1>5, ConcatProperties
  <2>6. \A i \in 1..listSize : (back \o free)[i] = back[i]
    BY <1>5, <2>2, <2>3
  <2>7. \A i \in 1..Len(free) : (back \o free)[listSize + i] = free[i]
    <3> SUFFICES ASSUME NEW i \in 1..Len(free) PROVE (back \o free)[listSize + i] = free[i]
      OBVIOUS
    <3>1. (back \o free)[listSize + i] = free[listSize + i - listSize]
      BY <1>5, <2>2, <2>4
    <3> QED
      BY <2>4, <3>1
  <2> QED
    BY <2>1, <2>5, <2>6, <2>7
<1>7. slots' \in Seq(Rectangles \cup {Gone}) /\ Len(slots') = Len(slots)
      /\ \A s \in 1..Len(slots) : slots'[s] = IF Used(s) THEN Gone ELSE slots[s]
  <2>1. slots' \in [1..Len(slots) -> Rectangles \cup {Gone}]
    BY <1>1, <1>2, ListTypes
  <2>2. slots' \in Seq(Rectangles \cup {Gone}) /\ Len(slots') = Len(slots)
    BY <1>2, <2>1, FunctionIsSeq
  <2> QED
    BY <1>1, <1>2, <1>4, <2>2
<1>8. Owned'
  <2>1. \A i \in 1..Len(free') : \/ i \in 1..listSize /\ free'[i] = back[i]
                                 \/ \E j \in 1..Len(free) : i = listSize + j /\ free'[i] = free[j]
    <3>1. \A i \in 1..listSize + Len(free) : i \in 1..listSize \/ (i - listSize \in 1..Len(free) /\ i = listSize + (i - listSize))
      BY <1>2
    <3> QED
      BY <1>6, <3>1
  <2>2. \A s \in 1..Len(slots) : Used(s) <=> \E i \in 1..listSize : back[i] = s
    <3>1. \A i \in 1..listSize : back[m(i)] = cells[i]
      BY <1>5
    <3> QED
      BY <1>5, <3>1 DEF Used
  <2>3. \A s \in 1..Len(slots) : Freed(s)' <=> Used(s) \/ Freed(s)
    <3>1. \A i \in 1..listSize : i \in 1..Len(free')
      BY <1>2, <1>6
    <3>2. \A i \in 1..Len(free) : listSize + i \in 1..Len(free')
      BY <1>2, <1>6
    <3> QED
      BY <1>6, <2>1, <2>2, <3>1, <3>2 DEF Freed
  <2>4. \A i, j \in 1..Len(free') : free'[i] = free'[j] => i = j
    <3>1. \A i, j \in 1..listSize : back[i] = back[j] => i = j
      <4> SUFFICES ASSUME NEW i \in 1..listSize, NEW j \in 1..listSize, back[i] = back[j] PROVE i = j
        OBVIOUS
      <4>1. m(i) = m(j)
        BY <1>5 DEF ListInv, Owned
      <4> QED
        BY <1>5, <4>1
    <3>2. \A i \in 1..listSize, j \in 1..Len(free) : back[i] # free[j]
      BY <1>3, <1>5 DEF ListInv, Owned, Used, Freed
    <3>3. \A i, j \in 1..Len(free) : free[i] = free[j] => i = j
      BY DEF ListInv, Owned
    <3> QED
      BY <2>1, <3>1, <3>2, <3>3
  <2>5. \A s \in 1..Len(slots) : ~Used(s)'
    BY <1>1 DEF Used
  <2>6. \A i, j \in 1..listSize' : FALSE
    BY <1>1
  <2> QED
    BY <1>7, <2>3, <2>4, <2>5, <2>6 DEF Owned, ListInv
<1>9. walk' \in L!Walks /\ Walking'
  <2>1. Len(cells) <= Len(cells') /\ Len(cells') \in Nat /\ listSize' \in Nat
    BY <1>1, ListTypes
  <2> QED
    BY <1>1, <2>1, WalkGoesOn
<1>10. L!TypeOK'
  <2>1. listSize' \in 0..Len(cells') /\ Len(cells') <= 2 * MaxSize /\ Len(slots') <= MaxSize
    BY <1>1, <1>7, ListTypes
  <2>2. DOMAIN slots' = 1..Len(slots) /\ cells' \in Seq(1..Len(slots))
    BY <1>1, <1>7, ListTypes
  <2> QED
    BY <1>6, <1>7, <1>9, <2>1, <2>2 DEF L!TypeOK
<1> QED
  BY <1>1, <1>8, <1>9, <1>10, ListTypes DEF ListInv

\* The list counts and selects as Selection does.
LEMMA ListSelects == \A s, places : L!Only(s, places) = Only(s, places)
<1>1. \A Z : L!Cardinality(Z) = Cardinality(Z)
  BY DEF L!Cardinality, Cardinality
<1>2. \A places, i : L!Rank(places, i) = Rank(places, i)
  BY <1>1 DEF L!Rank, Rank
<1>3. \A places, n : L!At(places, n) = At(places, n)
  BY <1>2 DEF L!At, At
<1> QED
  BY <1>1, <1>3 DEF L!Only, Only

\* The queries find what is in the list.
LEMMA ListAnswers == ASSUME ListInv PROVE L!QueriesAgree
<1>0. /\ listSize \in Nat /\ Gone \notin Rectangles
      /\ \A i \in 1..listSize : cells[i] \in 1..Len(slots)
      /\ \A i \in 1..listSize : slots[cells[i]] \in Rectangles
  <2>1. /\ listSize \in Nat /\ listSize <= Len(cells) /\ Len(cells) \in Nat /\ Gone \notin Rectangles
        /\ \A i \in 1..Len(cells) : cells[i] \in 1..Len(slots)
        /\ \A s \in 1..Len(slots) : slots[s] \in Rectangles \cup {Gone}
    BY ListTypes
  <2>2. \A i \in 1..listSize : i \in 1..Len(cells)
    BY <2>1
  <2>3. \A i \in 1..listSize : Used(cells[i])
    BY DEF Used
  <2>4. \A s \in 1..Len(slots) : Used(s) => slots[s] # Gone
    BY DEF ListInv, Owned
  <2> QED
    BY <2>1, <2>2, <2>3, <2>4
<1>1. L!List \in Seq(Rectangles) /\ Len(L!List) = listSize /\ \A i \in 1..listSize : L!List[i] = slots[cells[i]]
  <2>1. L!List \in [1..listSize -> Rectangles]
    BY <1>0 DEF L!List
  <2> QED
    BY <1>0, <2>1, FunctionIsSeq DEF L!List
<1> SUFFICES ASSUME NEW hit \in SUBSET Rectangles
             PROVE  LET all == L!AllContains(hit) IN
                    /\ all = <<>> <=> L!AnyContains(hit, FALSE) = Gone
                    /\ all # <<>> => L!AnyContains(hit, FALSE) = Head(all) /\ L!AnyContains(hit, TRUE) = L!Last(all)
                    /\ hit = Rectangles => all = L!List
                         /\ L!AnyContains(hit, FALSE) = L!AtEnd(FALSE) /\ L!AnyContains(hit, TRUE) = L!AtEnd(TRUE)
  BY DEF L!QueriesAgree
<1> DEFINE all == L!AllContains(hit)
           places == L!Hits(hit)
           total == Cardinality(places)
           first == At(places, 1)
           final == At(places, total)
<1>2. PICK s \in Seq(Rectangles) : s = L!List /\ Len(s) = listSize /\ \A i \in 1..listSize : s[i] = slots[cells[i]]
  BY <1>1
<1>3. places \in SUBSET (1..listSize) /\ \A i \in 1..listSize : i \in places <=> s[i] \in hit
  BY <1>2 DEF L!Hits
<1>4. all = [n \in 1..total |-> s[At(places, n)]]
  <2>1. all = Only(s, places)
    BY <1>2, ListSelects DEF L!AllContains
  <2> QED
    BY <2>1 DEF Only
<1>5. total \in Nat /\ (total = 0 <=> places = {})
  <2> HIDE DEF places
  <2>1. IsFiniteSet(places) /\ total \in Nat
    BY <1>0, <1>3, Ranks
  <2> QED
    BY <2>1, FS_EmptySet
<1>6. all \in Seq(Rectangles) /\ Len(all) = total /\ \A n \in 1..total : all[n] = s[At(places, n)]
  <2> HIDE DEF places
  <2>1. \A n \in 1..total : At(places, n) \in places
    BY <1>0, <1>3, Ranks DEF At
  <2>2. \A i \in places : s[i] \in Rectangles
    BY <1>3
  <2> HIDE DEF all, total
  <2>3. all \in [1..total -> Rectangles]
    BY <1>4, <2>1, <2>2
  <2> QED
    BY <1>4, <1>5, <2>3, FunctionIsSeq
<1>7. places # {} => /\ first \in places /\ \A j \in places : first <= j
                     /\ final \in places /\ \A j \in places : j <= final
  <2> HIDE DEF places
  <2> QED
    BY <1>0, <1>3, Ends
<1>8. L!AnyContains(hit, FALSE) = IF places = {} THEN Gone ELSE s[first]
  <2>1. places # {} => L!FoundAt(hit, FALSE) = first
    <3> HIDE DEF first, final
    <3>1. \A i, j \in places : i \in Int /\ (i <= j /\ j <= i => i = j)
      BY <1>3
    <3> QED
      BY <1>7, <3>1 DEF L!FoundAt
  <2> QED
    BY <1>2, <2>1 DEF L!AnyContains
<1>9. L!AnyContains(hit, TRUE) = IF places = {} THEN Gone ELSE s[final]
  <2>1. places # {} => L!FoundAt(hit, TRUE) = final
    <3> HIDE DEF first, final
    <3>1. \A i, j \in places : i \in Int /\ (i <= j /\ j <= i => i = j)
      BY <1>3
    <3> QED
      BY <1>7, <3>1 DEF L!FoundAt
  <2> QED
    BY <1>2, <2>1 DEF L!AnyContains
<1>10. hit = Rectangles => places = 1..listSize
  BY <1>0, <1>2, <1>3
<1> HIDE DEF all, places
<1>11. all = <<>> <=> places = {}
  BY <1>5, <1>6
<1>12. places # {} => Head(all) = s[first] /\ L!Last(all) = s[final] /\ s[first] \in Rectangles
  <2> SUFFICES ASSUME places # {} PROVE Head(all) = s[first] /\ L!Last(all) = s[final] /\ s[first] \in Rectangles
    OBVIOUS
  <2>1. total \in Nat \ {0} /\ 1 \in 1..total /\ total \in 1..total
    BY <1>5
  <2>2. all[1] = s[first] /\ all[total] = s[final] /\ Head(all) = all[1]
    <3> HIDE DEF total
    <3> QED
      BY <1>6, <2>1 DEF total
  <2>3. s[first] \in hit
    BY <1>3, <1>7
  <2> QED
    BY <1>6, <2>2, <2>3 DEF L!Last
<1>13. ASSUME hit = Rectangles
       PROVE  /\ all = L!List
              /\ L!AnyContains(hit, FALSE) = L!AtEnd(FALSE) /\ L!AnyContains(hit, TRUE) = L!AtEnd(TRUE)
  <2>1. places = 1..listSize /\ total = listSize /\ \A i \in 1..listSize : At(places, i) = i
    BY <1>0, <1>10, <1>13, AllPlaces
  <2>2. \A i \in 1..listSize : L!List[i] = s[i]
    BY <1>2
  <2>3. all = L!List
    <3> HIDE DEF total
    <3>1. all = [i \in 1..listSize |-> s[i]]
      BY <1>4, <2>1
    <3>2. L!List = [i \in 1..listSize |-> s[i]]
      BY <1>2 DEF L!List
    <3> QED
      BY <3>1, <3>2
  <2>4. CASE listSize = 0
    <3>1. places = {}
      BY <2>1, <2>4
    <3> QED
      BY <1>8, <1>9, <2>2, <2>3, <2>4, <3>1 DEF L!AtEnd
  <2>5. CASE listSize # 0
    <3>1. first = 1 /\ final = listSize /\ places # {}
      BY <1>0, <2>1, <2>5
    <3>2. 1 \in 1..listSize /\ listSize \in 1..listSize
      BY <1>0, <2>5
    <3> HIDE DEF first, final
    <3> QED
      BY <1>2, <1>8, <1>9, <2>2, <2>3, <2>5, <3>1, <3>2 DEF L!AtEnd
  <2> QED
    BY <2>4, <2>5
<1>14. places # {} => L!AnyContains(hit, FALSE) # Gone
  BY <1>0, <1>8, <1>12
<1> HIDE DEF first, final, total
<1> QED
  BY <1>8, <1>9, <1>11, <1>12, <1>13, <1>14 DEF all

\* list[k] finds what is in the list, each rectangle in its slot.
LEMMA ListIndex == ASSUME ListInv PROVE L!IndexFinds
<1>1. /\ listSize \in Nat /\ Len(slots) \in Nat /\ DOMAIN slots = 1..Len(slots)
      /\ \A i \in 1..listSize : cells[i] \in 1..Len(slots) /\ slots[cells[i]] # Gone
      /\ \A k \in 1..Len(slots) : slots[k] # Gone => \E i \in 1..listSize : cells[i] = k
  <2>1. listSize \in Nat /\ Len(slots) \in Nat /\ DOMAIN slots = 1..Len(slots)
    BY ListTypes
  <2>2. \A i \in 1..listSize : cells[i] \in 1..Len(slots)
    BY ListRefs DEF ListInv
  <2>3. \A i \in 1..listSize : slots[cells[i]] # Gone
    BY <2>2 DEF ListInv, Owned, Used
  <2>4. \A k \in 1..Len(slots) : slots[k] # Gone => \E i \in 1..listSize : cells[i] = k
    BY DEF ListInv, Owned, Used
  <2> QED
    BY <2>1, <2>2, <2>3, <2>4
<1>2. L!ToSet(L!List) = {slots[cells[i]] : i \in 1..listSize}
  BY <1>1 DEF L!ToSet, L!List
<1>3. ASSUME NEW k \in 0..Len(slots), L!AtIndex(k) # Gone
      PROVE  \E i \in 1..listSize : L!AtIndex(k) = slots[cells[i]]
  <2>1. CASE k \in DOMAIN slots /\ slots[k] # Gone
    <3>1. PICK i \in 1..listSize : cells[i] = k
      BY <1>1, <2>1
    <3>2. L!AtIndex(k) = slots[k]
      BY <2>1 DEF L!AtIndex
    <3> QED
      BY <3>1, <3>2
  <2>2. CASE ~(k \in DOMAIN slots /\ slots[k] # Gone)
    <3>1. k + 1 \in 1..listSize /\ L!AtIndex(k) = L!List[k + 1]
      BY <1>1, <1>3, <2>2 DEF L!AtIndex
    <3> QED
      BY <3>1 DEF L!List
  <2> QED
    BY <2>1, <2>2
<1>4. ASSUME NEW i \in 1..listSize
      PROVE  cells[i] \in 0..Len(slots) /\ L!AtIndex(cells[i]) = slots[cells[i]] /\ slots[cells[i]] # Gone
  BY <1>1 DEF L!AtIndex
<1>5. {L!AtIndex(k) : k \in 0..Len(slots)} \ {Gone} = {slots[cells[i]] : i \in 1..listSize}
  BY <1>3, <1>4
<1> QED
  BY <1>2, <1>5 DEF L!IndexFinds

\* What foreach does: it never leaves the references that it began with.
LEMMA ListWalks ==
  ASSUME ListInv, L!Begin \/ L!Call \/ L!Return \/ L!ReturnFound \/ L!EndOfWalk
  PROVE  ListInv'
<1>1. UNCHANGED <<cells, listSize, slots, free>>
  BY DEF L!Begin, L!Call, L!Return, L!ReturnFound, L!EndOfWalk
<1>2. Owned'
  BY <1>1 DEF ListInv, Owned, Used, Freed
<1>3. walk \in L!Walks
  BY DEF ListInv, L!TypeOK
<1>4. walk.iter \in Nat /\ walk.end \in Nat /\ Len(walk.started) \in Nat /\ Len(walk.given) \in Nat
      /\ walk.given \in Seq(Rectangles \cup {Gone})
  BY <1>3 DEF L!Walks
<1>5. L!Idle \in L!Walks /\ L!Idle' = L!Idle
  <2>1. <<>> \in Seq(Rectangles) /\ <<>> \in Seq(Rectangles \cup {Gone}) /\ 0 \in 0..ListChanges
    BY ListTypes, EmptySeq
  <2> QED
    BY <2>1 DEF L!Idle, L!Walks
<1>6. ASSUME L!Call \/ L!ReturnFound, NEW r \in L!AtIter
      PROVE  /\ walk.iter \in 1..Len(walk.started) /\ r \in Rectangles \cup {Gone}
             /\ ~walk.erased /\ ~walk.moved => r = walk.started[walk.iter]
  <2>1. walk.at # "idle" /\ walk.iter < walk.end
    BY <1>6 DEF L!Call, L!ReturnFound, ListInv, Walking
  <2>2. walk.iter \in 1..Len(walk.started) /\ walk.iter \in 1..Len(cells)
    BY <1>4, <2>1, ListTypes DEF ListInv, Walking
  <2>3. slots[cells[walk.iter]] \in Rectangles \cup {Gone}
    BY <2>2, ListTypes
  <2>4. r \in Rectangles \cup {Gone} /\ (~walk.moved => r = slots[cells[walk.iter]])
    BY <1>6, <2>3 DEF L!AtIter
  <2> QED
    BY <2>2, <2>4 DEF ListInv, Walking, OnItsWay
<1>7. walk' \in L!Walks /\ Walking'
  <2>1. CASE L!Begin
    <3>1. /\ walk.at = "idle"
          /\ walk' = [L!Idle EXCEPT !.at = "next", !.iter = 1, !.end = listSize + 1, !.started = L!List]
      BY <2>1 DEF L!Begin
    <3>2. \A i \in 1..listSize : slots[cells[i]] \in Rectangles
      <4> SUFFICES ASSUME NEW i \in 1..listSize PROVE slots[cells[i]] \in Rectangles
        OBVIOUS
      <4>1. cells[i] \in 1..Len(slots) /\ Used(cells[i])
        BY ListTypes DEF Used
      <4> QED
        BY <4>1, ListTypes DEF ListInv, Owned
    <3>3. L!List \in [1..listSize -> Rectangles] /\ \A i \in 1..listSize : L!List[i] = slots[cells[i]]
      BY <3>2 DEF L!List
    <3>4. L!List \in Seq(Rectangles) /\ Len(L!List) = listSize
      BY <3>3, ListTypes, FunctionIsSeq
    <3>5. walk' \in L!Walks
      <4>1. listSize + 1 \in Nat /\ 1 \in Nat
        BY ListTypes
      <4> HIDE DEF L!List
      <4> QED
        BY <1>5, <3>1, <3>4, <4>1 DEF L!Walks
    <3>6. /\ walk'.at = "next" /\ walk'.iter = 1 /\ walk'.end = listSize + 1 /\ walk'.started = L!List
          /\ walk'.given = <<>> /\ walk'.answer = Gone
      BY <3>1 DEF L!Idle
    <3>7. OnItsWay'
      BY <1>1, <3>3, <3>4, <3>6, ListTypes DEF OnItsWay
    <3> QED
      BY <1>1, <3>4, <3>5, <3>6, <3>7, ListTypes DEF Walking
  <2>2. CASE L!Call
    <3>1. /\ walk.at = "next" /\ walk.iter < walk.end
          /\ \E r \in L!AtIter : walk' = [walk EXCEPT !.at = "called", !.given = Append(@, r)]
      BY <2>2 DEF L!Call
    <3>2. PICK r \in L!AtIter : walk' = [walk EXCEPT !.at = "called", !.given = Append(@, r)]
      BY <3>1
    <3>3. /\ walk.iter \in 1..Len(walk.started) /\ r \in Rectangles \cup {Gone}
          /\ ~walk.erased /\ ~walk.moved => r = walk.started[walk.iter]
      BY <1>6, <2>2
    <3>4. /\ Append(walk.given, r) \in Seq(Rectangles \cup {Gone})
          /\ Len(Append(walk.given, r)) = Len(walk.given) + 1
          /\ \A i \in 1..Len(walk.given) : Append(walk.given, r)[i] = walk.given[i]
          /\ Append(walk.given, r)[Len(walk.given) + 1] = r
      BY <1>4, <3>3, AppendProperties
    <3>5. walk' \in L!Walks
      BY <1>3, <3>2, <3>4 DEF L!Walks
    <3>6. /\ walk'.at = "called" /\ walk'.given = Append(walk.given, r) /\ walk'.iter = walk.iter
          /\ walk'.end = walk.end /\ walk'.started = walk.started /\ walk'.answer = walk.answer
          /\ walk'.erased = walk.erased /\ walk'.moved = walk.moved
      BY <1>3, <3>2 DEF L!Walks
    <3>7. ASSUME ~walk'.erased, ~walk'.moved PROVE OnItsWay'
      <4>1. OnItsWay /\ Len(walk.given) = walk.iter - 1 /\ r = walk.started[walk.iter]
        BY <3>1, <3>3, <3>6, <3>7 DEF ListInv, Walking, OnItsWay
      <4>2. Len(walk'.given) = walk.iter /\ \A i \in 1..walk.iter : i \in 1..Len(walk.given) \/ i = Len(walk.given) + 1
        BY <1>4, <3>4, <3>6, <4>1
      <4>3. \A i \in 1..walk.iter : walk'.given[i] = walk.started[i]
        BY <1>4, <3>4, <3>6, <4>1, <4>2 DEF OnItsWay
      <4> QED
        BY <1>1, <3>6, <4>1, <4>2, <4>3 DEF OnItsWay
    <3> QED
      BY <1>1, <3>1, <3>5, <3>6, <3>7 DEF ListInv, Walking
  <2>3. CASE L!Return
    <3>1. walk.at = "called" /\ walk' = [walk EXCEPT !.at = "next", !.iter = @ + 1]
      BY <2>3 DEF L!Return
    <3>2. walk' \in L!Walks
      <4>1. walk.iter + 1 \in Nat
        BY <1>4
      <4> QED
        BY <1>3, <3>1, <4>1 DEF L!Walks
    <3>3. /\ walk'.at = "next" /\ walk'.given = walk.given /\ walk'.iter = walk.iter + 1
          /\ walk'.end = walk.end /\ walk'.started = walk.started /\ walk'.answer = walk.answer
          /\ walk'.erased = walk.erased /\ walk'.moved = walk.moved
      BY <1>3, <3>1 DEF L!Walks
    <3>4. ASSUME ~walk'.erased, ~walk'.moved PROVE OnItsWay'
      BY <1>1, <1>4, <3>1, <3>3, <3>4 DEF ListInv, Walking, OnItsWay
    <3>5. walk.iter + 1 \in 1..walk.end /\ walk.end = Len(walk.started) + 1 /\ walk.answer = Gone
      BY <1>4, <3>1 DEF ListInv, Walking
    <3> QED
      BY <1>1, <3>2, <3>3, <3>4, <3>5 DEF ListInv, Walking
  <2>4. CASE L!ReturnFound
    <3>1. walk.at = "called" /\ \E r \in L!AtIter : walk' = [walk EXCEPT !.at = "done", !.answer = r]
      BY <2>4 DEF L!ReturnFound
    <3>2. PICK r \in L!AtIter : walk' = [walk EXCEPT !.at = "done", !.answer = r]
      BY <3>1
    <3>3. /\ walk.iter \in 1..Len(walk.started) /\ r \in Rectangles \cup {Gone}
          /\ ~walk.erased /\ ~walk.moved => r = walk.started[walk.iter]
      BY <1>6, <2>4
    <3>4. walk' \in L!Walks
      BY <1>3, <3>2, <3>3 DEF L!Walks
    <3>5. /\ walk'.at = "done" /\ walk'.given = walk.given /\ walk'.iter = walk.iter
          /\ walk'.end = walk.end /\ walk'.started = walk.started /\ walk'.answer = r
          /\ walk'.erased = walk.erased /\ walk'.moved = walk.moved
      BY <1>3, <3>2 DEF L!Walks
    <3>6. ASSUME ~walk'.erased, ~walk'.moved PROVE OnItsWay'
      <4>1. OnItsWay /\ Len(walk.given) = walk.iter /\ r = walk.started[walk.iter]
        BY <3>1, <3>3, <3>5, <3>6 DEF ListInv, Walking, OnItsWay
      <4>2. r = walk.given[walk.iter]
        BY <1>4, <3>3, <4>1 DEF OnItsWay
      <4> QED
        BY <1>1, <3>5, <4>1, <4>2 DEF OnItsWay
    <3> QED
      BY <1>1, <3>1, <3>4, <3>5, <3>6 DEF ListInv, Walking
  <2>5. CASE L!EndOfWalk
    <3>1. walk' = L!Idle
      BY <2>5 DEF L!EndOfWalk
    <3>2. /\ walk'.at = "idle" /\ walk'.end = 0 /\ walk'.answer = Gone
          /\ walk'.started = <<>> /\ walk'.given = <<>>
      BY <3>1 DEF L!Idle
    <3>3. OnItsWay'
      BY <1>1, <3>2, ListTypes DEF OnItsWay
    <3> QED
      BY <1>1, <1>5, <3>1, <3>2, <3>3, ListTypes DEF Walking
  <2> QED
    BY <2>1, <2>2, <2>3, <2>4, <2>5
<1> QED
  BY <1>1, <1>2, <1>7 DEF ListInv, L!TypeOK

LEMMA ListStep == ASSUME ListInv, [L!Next]_(L!vars) PROVE ListInv'
<1>1. CASE L!Script
  BY <1>1, ListAdds, ListErases, ListClears DEF L!Script
<1>2. CASE UNCHANGED L!vars
  <2>1. UNCHANGED <<cells, listSize, slots, free, walk>>
    BY <1>2 DEF L!vars
  <2> QED
    BY <2>1 DEF ListInv, L!TypeOK, Owned, Used, Freed, Walking, OnItsWay, L!Idle
<1> QED
  BY <1>1, <1>2, ListWalks DEF L!Next

\* What the script was given is the list as it was; nothing is given twice.
LEMMA ListConcludes == ASSUME ListInv PROVE L!ListHolds
<1>1. L!SlotsOwned
  BY OwnedMeans DEF ListInv
<1>2. ASSUME ~walk.erased, ~walk.moved
      PROVE  /\ walk.given = SubSeq(walk.started, 1, Len(walk.given))
             /\ walk.at = "next" /\ walk.iter = walk.end => walk.given = walk.started
             /\ walk.answer # Gone => walk.answer = L!Last(walk.given)
  <2>1. OnItsWay
    BY <1>2 DEF ListInv, Walking
  <2>2. /\ walk.given \in Seq(Rectangles \cup {Gone}) /\ walk.started \in Seq(Rectangles)
        /\ Len(walk.given) \in Nat /\ Len(walk.started) \in Nat /\ walk.iter \in Nat
    BY DEF ListInv, L!TypeOK, L!Walks
  <2>3. Len(walk.given) <= Len(walk.started)
    <3>1. CASE walk.at = "idle"
      BY <2>1, <2>2, <3>1 DEF OnItsWay
    <3>2. CASE walk.at # "idle"
      BY <2>1, <2>2, <3>2 DEF OnItsWay, ListInv, Walking, L!TypeOK, L!Walks
    <3> QED
      BY <3>1, <3>2
  <2>4. \A i \in 1..Len(walk.given) : walk.given[i] = walk.started[i]
    BY <2>1 DEF OnItsWay
  <2>5. walk.given = SubSeq(walk.started, 1, Len(walk.given))
    <3> DEFINE n == Len(walk.given)  first == SubSeq(walk.started, 1, n)
    <3>1. \A i \in 1..n : walk.started[i] \in Rectangles
      BY <2>2, <2>3, ElementOfSeq
    <3>2. first \in Seq(Rectangles) /\ Len(first) = n /\ \A i \in 1..n : first[i] = walk.started[i]
      BY <2>2, <2>3, <3>1, SubSeqProperties
    <3> HIDE DEF first
    <3> QED
      BY <2>2, <2>4, <3>2, SeqEqual DEF first
  <2>6. ASSUME walk.at = "next", walk.iter = walk.end PROVE walk.given = walk.started
    <3>1. Len(walk.given) = Len(walk.started)
      BY <2>1, <2>2, <2>6 DEF OnItsWay, ListInv, Walking
    <3> QED
      BY <2>2, <2>4, <3>1, SeqEqual
  <2>7. ASSUME walk.answer # Gone PROVE walk.answer = L!Last(walk.given)
    <3>1. walk.at = "done"
      BY <2>7 DEF ListInv, Walking
    <3> QED
      BY <2>1, <3>1 DEF OnItsWay, L!Last
  <2> QED
    BY <2>5, <2>6, <2>7
<1> QED
  BY <1>1, <1>2, ListAnswers, ListIndex DEF L!ListHolds, L!WalksTheList

-----------------------------------------------------------------------------
(* The buffer.                                                             *)

Buffers == [bytes : Seq(Bytes), cap : Nat, offset : Nat]

\* Buffer b holds what was written, w, from f on, and is read up to p.
Keeps(b, w, f, p) ==
  /\ b \in Buffers /\ w \in Seq(Bytes) /\ f \in Nat /\ p \in Nat /\ f <= p /\ p <= Len(w)
  /\ Len(b.bytes) = Len(w) - f
  /\ \A i \in 1..Len(w) - f : b.bytes[i] = w[f + i]
  /\ b.offset = p - f
  /\ Len(b.bytes) <= b.cap

BufferInv == Keeps(buffer, written, floor, position)

Lengths(b, w, f, p) ==
  /\ b.bytes \in Seq(Bytes) /\ Len(b.bytes) \in Nat /\ b.cap \in Nat /\ b.offset \in Nat
  /\ w \in Seq(Bytes) /\ Len(w) \in Nat /\ f \in Nat /\ p \in Nat /\ f <= p /\ p <= Len(w)
  /\ Len(b.bytes) = Len(w) - f /\ b.offset = p - f /\ Len(b.bytes) <= b.cap
  /\ b.offset <= Len(b.bytes)

LEMMA KeptLengths ==
  ASSUME NEW b, NEW w, NEW f, NEW p, Keeps(b, w, f, p)
  PROVE  Lengths(b, w, f, p)
BY DEF Keeps, Buffers, Lengths

\* What is added at the end of both is kept.
LEMMA SuffixGrows ==
  ASSUME NEW s \in Seq(Bytes), NEW w \in Seq(Bytes), NEW src \in Seq(Bytes), NEW f \in 0..Len(w),
         Len(s) = Len(w) - f, \A i \in 1..Len(w) - f : s[i] = w[f + i]
  PROVE  /\ s \o src \in Seq(Bytes) /\ Len(s \o src) = Len(s) + Len(src) /\ w \o src \in Seq(Bytes)
         /\ Len(w \o src) = Len(w) + Len(src) /\ Len(s \o src) = Len(w \o src) - f
         /\ \A i \in 1..Len(w \o src) - f : (s \o src)[i] = (w \o src)[f + i]
<1>1. Len(s) \in Nat /\ Len(w) \in Nat /\ Len(src) \in Nat /\ f \in Nat
  OBVIOUS
<1>2. /\ s \o src \in Seq(Bytes) /\ Len(s \o src) = Len(s) + Len(src)
      /\ w \o src \in Seq(Bytes) /\ Len(w \o src) = Len(w) + Len(src)
  BY ConcatProperties
<1>3. ASSUME NEW i \in 1..Len(w \o src) - f PROVE (s \o src)[i] = (w \o src)[f + i]
  <2>1. i \in 1..Len(s) + Len(src) /\ f + i \in 1..Len(w) + Len(src)
    BY <1>1, <1>2
  <2>2. (s \o src)[i] = IF i <= Len(s) THEN s[i] ELSE src[i - Len(s)]
    BY <2>1, ConcatProperties
  <2>3. (w \o src)[f + i] = IF f + i <= Len(w) THEN w[f + i] ELSE src[f + i - Len(w)]
    BY <2>1, ConcatProperties
  <2>4. CASE i <= Len(s)
    <3>1. i \in 1..Len(w) - f /\ f + i <= Len(w)
      BY <1>1, <2>1, <2>4
    <3> QED
      BY <2>2, <2>3, <2>4, <3>1
  <2>5. CASE ~(i <= Len(s))
    <3>1. ~(f + i <= Len(w)) /\ i - Len(s) = f + i - Len(w)
      BY <1>1, <2>1, <2>5
    <3> QED
      BY <2>2, <2>3, <2>5, <3>1
  <2> QED
    BY <2>4, <2>5
<1> QED
  BY <1>1, <1>2, <1>3

LEMMA KeepsMore ==
  ASSUME NEW b, NEW w, NEW f, NEW p, Keeps(b, w, f, p), NEW src \in Seq(Bytes),
         NEW c, DOMAIN c = {"bytes", "cap", "offset"}, c = [x \in DOMAIN c |-> c[x]],
         c.bytes = b.bytes \o src, c.cap \in Nat, Len(b.bytes) + Len(src) <= c.cap, c.offset = b.offset
  PROVE  Keeps(c, w \o src, f, p)
<1>0. Lengths(b, w, f, p)
  BY KeptLengths
<1>1. PICK s \in Seq(Bytes) : s = b.bytes
  BY <1>0 DEF Lengths
<1>2. w \in Seq(Bytes) /\ f \in 0..Len(w) /\ Len(s) = Len(w) - f
  BY <1>0, <1>1 DEF Lengths
<1>3. \A i \in 1..Len(w) - f : s[i] = w[f + i]
  BY <1>1 DEF Keeps
<1>4. /\ s \o src \in Seq(Bytes) /\ Len(s \o src) = Len(s) + Len(src) /\ w \o src \in Seq(Bytes)
      /\ Len(w \o src) = Len(w) + Len(src) /\ Len(s \o src) = Len(w \o src) - f
      /\ \A i \in 1..Len(w \o src) - f : (s \o src)[i] = (w \o src)[f + i]
  BY ONLY <1>2, <1>3, SuffixGrows, Zenon
<1>5. c.bytes = s \o src /\ c.cap \in Nat /\ Len(s \o src) <= c.cap /\ c.offset \in Nat /\ c.offset = p - f
  BY <1>0, <1>1, <1>4 DEF Lengths
<1>6. c \in Buffers
  BY <1>4, <1>5 DEF Buffers
<1>7. f \in Nat /\ p \in Nat /\ f <= p /\ p <= Len(w \o src)
  BY <1>0, <1>4 DEF Lengths
<1> QED
  BY <1>4, <1>5, <1>6, <1>7 DEF Keeps

LEMMA WriteKeeps ==
  ASSUME NEW b, NEW w, NEW f, NEW p, Keeps(b, w, f, p), NEW src \in Seq(Bytes)
  PROVE  Keeps(B!Write(b, src), w \o src, f, p)
<1>0. Lengths(b, w, f, p)
  BY KeptLengths
<1> DEFINE cap == IF B!Space(b) < Len(src) THEN Len(b.bytes) + Len(src) + Slack ELSE b.cap
           c   == B!Write(b, src)
<1>1. Len(src) \in Nat /\ Slack \in Nat
  BY DataAssumption DEF B!BufferAssumption
<1>2. cap \in Nat /\ Len(b.bytes) + Len(src) <= cap
  BY <1>0, <1>1 DEF B!Space, Lengths
<1>3. b \in Buffers /\ c = [b EXCEPT !.bytes = @ \o src, !.cap = cap]
  BY DEF B!Write, Keeps
<1> HIDE DEF cap, c
<1>4. /\ DOMAIN c = {"bytes", "cap", "offset"} /\ c = [x \in DOMAIN c |-> c[x]]
      /\ c.bytes = b.bytes \o src /\ c.cap = cap /\ c.offset = b.offset
  BY <1>3 DEF Buffers
<1>5. Keeps(c, w \o src, f, p)
  BY <1>2, <1>4, KeepsMore
<1> QED
  BY <1>5 DEF c

LEMMA AddedKeeps ==
  ASSUME NEW b, NEW w, NEW f, NEW p, Keeps(b, w, f, p), NEW src \in Seq(Bytes), Len(src) <= B!Space(b)
  PROVE  Keeps(B!AddedToTail(b, src), w \o src, f, p)
<1>0. Lengths(b, w, f, p)
  BY KeptLengths
<1> DEFINE c == B!AddedToTail(b, src)
<1>1. Len(b.bytes) + Len(src) <= b.cap /\ b.cap \in Nat
  BY <1>0 DEF B!Space, Lengths
<1>2. b \in Buffers /\ c = [b EXCEPT !.bytes = @ \o src]
  BY DEF B!AddedToTail, Keeps
<1> HIDE DEF c
<1>3. /\ DOMAIN c = {"bytes", "cap", "offset"} /\ c = [x \in DOMAIN c |-> c[x]]
      /\ c.bytes = b.bytes \o src /\ c.cap = b.cap /\ c.offset = b.offset
  BY <1>2 DEF Buffers
<1>4. Keeps(c, w \o src, f, p)
  BY <1>1, <1>3, KeepsMore
<1> QED
  BY <1>4 DEF c

LEMMA ReserveKeeps ==
  ASSUME NEW b, NEW w, NEW f, NEW p, Keeps(b, w, f, p), NEW n \in Nat
  PROVE  Keeps(B!Reserve(b, n), w, f, p)
<1>0. Lengths(b, w, f, p)
  BY KeptLengths
<1>1. B!Most(n, Len(b.bytes)) \in Nat /\ Len(b.bytes) <= B!Most(n, Len(b.bytes))
  BY <1>0 DEF Lengths, B!Most
<1> QED
  BY <1>1 DEF Keeps, Buffers, B!Reserve

\* What was read is dropped: it cannot be read again.
LEMMA FlushKeeps ==
  ASSUME NEW b, NEW w, NEW f, NEW p, Keeps(b, w, f, p)
  PROVE  Keeps(B!Flush(b), w, p, p) /\ B!Flush(b).cap = b.cap /\ B!Flush(b).offset = 0
<1>0. Lengths(b, w, f, p)
  BY KeptLengths
<1> DEFINE rest == IF b.offset >= Len(b.bytes) THEN <<>> ELSE B!From(b.bytes, b.offset)
<1>1. rest \in Seq(Bytes) /\ Len(rest) = Len(w) - p /\ \A i \in 1..Len(w) - p : rest[i] = w[p + i]
  <2>1. CASE b.offset >= Len(b.bytes)
    BY <1>0, <2>1, EmptySeq DEF Lengths
  <2>2. CASE ~(b.offset >= Len(b.bytes))
    <3> DEFINE m == b.offset + 1  n == Len(b.bytes)
    <3>1. /\ m \in Nat /\ n \in Nat /\ m <= n /\ 1 <= m
          /\ \A i \in m..n : b.bytes[i] \in Bytes
      BY <1>0, <2>2, ElementOfSeq DEF Lengths
    <3>2. /\ SubSeq(b.bytes, m, n) \in Seq(Bytes) /\ Len(SubSeq(b.bytes, m, n)) = n - m + 1
          /\ \A i \in 1..n - m + 1 : SubSeq(b.bytes, m, n)[i] = b.bytes[m + i - 1]
      BY <1>0, <3>1, SubSeqProperties DEF Lengths
    <3>3. rest = SubSeq(b.bytes, m, n)
      BY <2>2 DEF B!From
    <3>4. n - m + 1 = Len(w) - p
      BY <1>0 DEF Lengths
    <3>5. ASSUME NEW i \in 1..Len(w) - p PROVE rest[i] = w[p + i]
      <4>1. p - f + i \in 1..Len(w) - f /\ f + (p - f + i) = p + i /\ i \in 1..n - m + 1
        <5>1. p \in Nat /\ f \in Nat /\ f <= p /\ Len(w) \in Nat
          BY <1>0 DEF Lengths
        <5> HIDE DEF m, n
        <5> QED
          BY <3>4, <5>1
      <4>2. m + i - 1 = p - f + i
        BY <1>0 DEF Lengths
      <4>3. b.bytes[p - f + i] = w[p + i]
        BY <4>1 DEF Keeps
      <4> QED
        BY <3>2, <3>3, <4>1, <4>2, <4>3
    <3> HIDE DEF rest, m, n
    <3> QED
      BY <3>2, <3>3, <3>4, <3>5
  <2> QED
    BY <2>1, <2>2
<1>2. B!Flush(b) = [[b EXCEPT !.bytes = rest] EXCEPT !.offset = 0]
  BY DEF B!Flush, B!PopFront, Keeps, Buffers
<1> HIDE DEF rest
<1>3. b \in Buffers
  BY DEF Keeps
<1>4. B!Flush(b) \in Buffers /\ B!Flush(b).bytes = rest /\ B!Flush(b).cap = b.cap /\ B!Flush(b).offset = 0
  <2> DEFINE c == [b EXCEPT !.bytes = rest]
  <2>1. c \in Buffers /\ c.bytes = rest /\ c.cap = b.cap
    BY <1>1, <1>3 DEF Buffers
  <2>2. B!Flush(b) = [c EXCEPT !.offset = 0]
    BY <1>2
  <2> HIDE DEF c
  <2> QED
    BY <2>1, <2>2 DEF Buffers
<1> QED
  BY <1>0, <1>1, <1>4 DEF Lengths, Keeps

LEMMA Append2Keeps ==
  ASSUME NEW b, NEW w, NEW f, NEW p, Keeps(b, w, f, p), NEW src \in Seq(Bytes)
  PROVE  Keeps(B!Append2(b, src), w \o src, f, p)
<1>0. Lengths(b, w, f, p)
  BY KeptLengths
<1>1. Len(b.bytes) + Len(src) \in Nat
  BY <1>0 DEF Lengths
<1> QED
  BY <1>1, ReserveKeeps, WriteKeeps DEF B!Append2

LEMMA StreamKeeps ==
  ASSUME NEW b, NEW w, NEW f, NEW p, Keeps(b, w, f, p), NEW src \in Seq(Bytes)
  PROVE  Keeps(B!Stream(b, src), w \o src, f, p)
<1>0. Lengths(b, w, f, p)
  BY KeptLengths
<1> DEFINE n == B!Least(B!Space(b), Len(src))
           fits == SubSeq(src, 1, n)  rest == SubSeq(src, n + 1, Len(src))
<1>1. n \in Nat /\ n <= Len(src) /\ n <= B!Space(b) /\ Len(src) \in Nat
  BY <1>0 DEF Lengths, B!Least, B!Space
<1> HIDE DEF n
<1>2. fits \in Seq(Bytes) /\ Len(fits) = n
  <2>1. \A i \in 1..n : src[i] \in Bytes
    BY <1>1, ElementOfSeq
  <2> QED
    BY <1>1, <2>1, SubSeqProperties
<1>3. rest \in Seq(Bytes)
  <2>1. \A i \in n + 1..Len(src) : src[i] \in Bytes
    BY <1>1, ElementOfSeq
  <2> QED
    BY <1>1, <2>1, SubSeqProperties
<1>4. fits \o rest = src
  <2>1. 1 \in 1..Len(src) + 1 /\ n \in 1 - 1..Len(src) /\ Len(src) \in n..Len(src)
    BY <1>1
  <2> QED
    BY <2>1, ConcatAdjacentSubSeq, SubSeqFull
<1>5. B!Stream(b, src) = B!Write(B!AddedToTail(b, fits), rest)
  BY <1>2 DEF B!Stream, B!From, n
<1> HIDE DEF fits, rest
<1>6. Keeps(B!AddedToTail(b, fits), w \o fits, f, p)
  BY <1>1, <1>2, AddedKeeps
<1>7. Keeps(B!Write(B!AddedToTail(b, fits), rest), (w \o fits) \o rest, f, p)
  BY <1>3, <1>6, WriteKeeps
<1>8. (w \o fits) \o rest = w \o src
  <2>1. w \in Seq(Bytes)
    BY <1>0 DEF Lengths
  <2>2. fits \in Seq(Bytes) /\ rest \in Seq(Bytes)
    BY <1>2, <1>3
  <2>3. (w \o fits) \o rest = w \o (fits \o rest)
    BY <2>1, <2>2, ConcatAssociative
  <2> QED
    BY <1>4, <2>3
<1> QED
  BY <1>5, <1>7, <1>8

\* Six bits of each of four characters are eight of each of three bytes.
LEMMA SixAndEight ==
  ASSUME NEW a \in 0..255, NEW b \in 0..255, NEW c \in 0..255
  PROVE  /\ a \div 4 \in 0..63 /\ (a % 4) * 16 + b \div 16 \in 0..63
         /\ (b % 16) * 4 + c \div 64 \in 0..63 /\ c % 64 \in 0..63
         /\ ((a \div 4) * 4 + ((a % 4) * 16 + b \div 16) \div 16) % 256 = a
         /\ (((a % 4) * 16 + b \div 16) * 16 + ((b % 16) * 4 + c \div 64) \div 4) % 256 = b
         /\ (((b % 16) * 4 + c \div 64) * 64 + (c % 64)) % 256 = c
<1>1. PICK p \in 0..63, q \in 0..3 : p = a \div 4 /\ q = a % 4 /\ a = 4 * p + q
  <2>1. a \div 4 \in 0..63 /\ a % 4 \in 0..3 /\ a = 4 * (a \div 4) + (a % 4)
    OBVIOUS
  <2> QED
    BY <2>1
<1>2. PICK r \in 0..15, s \in 0..15 : r = b \div 16 /\ s = b % 16 /\ b = 16 * r + s
  <2>1. b \div 16 \in 0..15 /\ b % 16 \in 0..15 /\ b = 16 * (b \div 16) + (b % 16)
    OBVIOUS
  <2> QED
    BY <2>1
<1>3. PICK t \in 0..3, u \in 0..63 : t = c \div 64 /\ u = c % 64 /\ c = 64 * t + u
  <2>1. c \div 64 \in 0..3 /\ c % 64 \in 0..63 /\ c = 64 * (c \div 64) + (c % 64)
    OBVIOUS
  <2> QED
    BY <2>1
<1>4. /\ (q * 16 + r) \div 16 = q /\ (s * 4 + t) \div 4 = s
      /\ q * 16 + r \in 0..63 /\ s * 4 + t \in 0..63
  OBVIOUS
<1>5. /\ (p * 4 + q) % 256 = a /\ ((s * 4 + t) * 64 + u) % 256 = c
      /\ ((q * 16 + r) * 16 + s) % 256 = b
  <2>1. p * 4 + q = a /\ (s * 4 + t) * 64 + u = 256 * s + c /\ (q * 16 + r) * 16 + s = 256 * q + b
    BY <1>1, <1>2, <1>3
  <2>2. \A x \in 0..255, y \in 0..63 : (256 * y + x) % 256 = x
    OBVIOUS
  <2>3. a % 256 = a
    OBVIOUS
  <2> QED
    BY <2>1, <2>2, <2>3
<1>6. c % 64 \in 0..63 /\ a \div 4 \in 0..63
  OBVIOUS
<1> QED
  BY <1>1, <1>2, <1>3, <1>4, <1>5, <1>6

\* The characters of a group of bytes.
LEMMA Encoded ==
  ASSUME NEW bytes \in Seq(0..255)
  PROVE  /\ Len(B!ToBase64(bytes)) = 4 * ((Len(bytes) + 2) \div 3)
         /\ \A g \in 0..(Len(bytes) + 2) \div 3 - 1, k \in 1..4 :
              B!ToBase64(bytes)[4 * g + k] = B!Group(bytes, g)[k]
<1> DEFINE n == (Len(bytes) + 2) \div 3
           text == B!ToBase64(bytes)
<1>1. n \in Nat /\ n * 4 = 4 * n /\ 4 * n \in Nat
  OBVIOUS
<1>2. text = [i \in 1..4 * n |-> B!Group(bytes, (i - 1) \div 4)[((i - 1) % 4) + 1]]
  BY <1>1 DEF B!ToBase64
<1> HIDE DEF text, n
<1>3. ASSUME NEW g \in 0..n - 1, NEW k \in 1..4 PROVE text[4 * g + k] = B!Group(bytes, g)[k]
  <2>1. 4 * g + k \in 1..4 * n /\ (4 * g + k - 1) \div 4 = g /\ ((4 * g + k - 1) % 4) + 1 = k
    BY <1>1
  <2> QED
    BY <1>2, <2>1
<1>4. Len(text) = 4 * n
  <2>1. DOMAIN text = 1..4 * n
    BY <1>2
  <2>2. text \in Seq({B!Group(bytes, (i - 1) \div 4)[((i - 1) % 4) + 1] : i \in 1..4 * n})
    <3> DEFINE Z == {B!Group(bytes, (i - 1) \div 4)[((i - 1) % 4) + 1] : i \in 1..4 * n}
    <3>1. \A i \in 1..4 * n : text[i] \in Z
      BY <1>2
    <3> HIDE DEF Z
    <3>2. text \in [1..4 * n -> Z]
      BY <1>2, <3>1
    <3>3. text \in Seq(Z)
      BY <1>1, <3>2, FunctionIsSeq
    <3> QED
      BY <3>3 DEF Z
  <2>3. DOMAIN text = 1..Len(text) /\ Len(text) \in Nat
    BY <2>2
  <2> QED
    BY <1>1, <2>1, <2>3
<1> QED
  BY <1>3, <1>4 DEF text, n

\* What a group of characters says of the bytes it was made from: its padding, that its
\* characters are valid up to there, and the bytes.
LEMMA GroupGivesBack ==
  ASSUME NEW bytes \in Seq(0..255), NEW g \in 0..(Len(bytes) + 2) \div 3 - 1
  PROVE  LET text == B!ToBase64(bytes)
             left == Len(bytes) - 3 * g
         IN  /\ left \in Nat \ {0}
             /\ text[4 * g + 3] = B!Pad <=> left = 1
             /\ B!Padded(text, g) <=> left <= 2
             /\ \A k \in 1..4 : k <= left + 1 => B!Ok(text[4 * g + k])
             /\ \A k \in 1..3 : k <= left => B!Three(text, g)[k] = bytes[3 * g + k]
<1> DEFINE text == B!ToBase64(bytes)
           left == Len(bytes) - 3 * g
           a == bytes[3 * g + 1]
           b == IF left > 1 THEN bytes[3 * g + 2] ELSE 0
           c == IF left > 2 THEN bytes[3 * g + 3] ELSE 0
<1>1. left \in Nat \ {0}
  OBVIOUS
<1>10. 4 * g + 3 <= Len(text) /\ 4 * g + 4 <= Len(text)
  <2>1. Len(text) = 4 * ((Len(bytes) + 2) \div 3)
    BY Encoded
  <2> HIDE DEF text
  <2> QED
    BY <2>1
<1>2. a \in 0..255 /\ b \in 0..255 /\ c \in 0..255
  <2>1. \A i \in 1..Len(bytes) : bytes[i] \in 0..255
    BY ElementOfSeq
  <2>2. /\ 3 * g + 1 \in 1..Len(bytes)
        /\ left > 1 => 3 * g + 2 \in 1..Len(bytes)
        /\ left > 2 => 3 * g + 3 \in 1..Len(bytes)
    BY <1>1
  <2> HIDE DEF left
  <2> QED
    BY <2>1, <2>2
<1>3. /\ text[4 * g + 1] = a \div 4
      /\ text[4 * g + 2] = (a % 4) * 16 + b \div 16
      /\ text[4 * g + 3] = IF left = 1 THEN B!Pad ELSE (b % 16) * 4 + c \div 64
      /\ text[4 * g + 4] = IF left <= 2 THEN B!Pad ELSE c % 64
  <2>1. \A k \in 1..4 : text[4 * g + k] = B!Group(bytes, g)[k]
    BY Encoded
  <2>2. B!Group(bytes, g) = << a \div 4, (a % 4) * 16 + b \div 16,
                              IF left = 1 THEN B!Pad ELSE (b % 16) * 4 + c \div 64,
                              IF left <= 2 THEN B!Pad ELSE c % 64 >>
    BY DEF B!Group
  <2> HIDE DEF text, left, a, b, c
  <2> QED
    BY <2>1, <2>2
<1>4. left = 1 => b = 0 /\ c = 0
  BY <1>1
<1>5. left = 2 => c = 0
  BY <1>1
<1>6. /\ left > 1 => b = bytes[3 * g + 2]
      /\ left > 2 => c = bytes[3 * g + 3]
  OBVIOUS
<1>7. a = bytes[3 * g + 1]
  OBVIOUS
<1> HIDE DEF text, left, a, b, c
<1> DEFINE w1 == a \div 4
           w2 == (a % 4) * 16 + b \div 16
           w3 == (b % 16) * 4 + c \div 64
           w4 == c % 64
<1>8. /\ w1 \in 0..63 /\ w2 \in 0..63 /\ w3 \in 0..63 /\ w4 \in 0..63
      /\ (w1 * 4 + w2 \div 16) % 256 = a
      /\ (w2 * 16 + w3 \div 4) % 256 = b
      /\ (w3 * 64 + w4) % 256 = c
  <2> DEFINE Claim(x, y, z) ==
               /\ x \div 4 \in 0..63 /\ (x % 4) * 16 + y \div 16 \in 0..63
               /\ (y % 16) * 4 + z \div 64 \in 0..63 /\ z % 64 \in 0..63
               /\ ((x \div 4) * 4 + ((x % 4) * 16 + y \div 16) \div 16) % 256 = x
               /\ (((x % 4) * 16 + y \div 16) * 16 + ((y % 16) * 4 + z \div 64) \div 4) % 256 = y
               /\ (((y % 16) * 4 + z \div 64) * 64 + (z % 64)) % 256 = z
  <2>1. \A x \in 0..255, y \in 0..255, z \in 0..255 : Claim(x, y, z)
    BY SixAndEight
  <2> HIDE DEF Claim, w1, w2, w3, w4
  <2>2. Claim(a, b, c)
    BY <1>2, <2>1
  <2> QED
    BY ONLY <2>2 DEF Claim, w1, w2, w3, w4
<1>9. /\ text[4 * g + 1] = w1 /\ text[4 * g + 2] = w2
      /\ text[4 * g + 3] = IF left = 1 THEN 64 ELSE w3
      /\ text[4 * g + 4] = IF left <= 2 THEN 64 ELSE w4
  BY <1>3 DEF B!Pad
<1> HIDE DEF w1, w2, w3, w4
<1>11. text[4 * g + 3] = B!Pad <=> left = 1
  BY <1>8, <1>9 DEF B!Pad
<1>12. B!Padded(text, g) <=> left <= 2
  <2>1. B!Padded(text, g) <=> text[4 * g + 3] = 64 \/ text[4 * g + 4] = 64
    BY <1>10 DEF B!Pad, B!Padded
  <2>2. w3 # 64 /\ w4 # 64 /\ (left = 1 => left <= 2)
    BY <1>8
  <2> QED
    BY <1>9, <2>1, <2>2
<1>13. ASSUME NEW k \in 1..4, k <= left + 1 PROVE B!Ok(text[4 * g + k])
  <2>1. k = 1 \/ k = 2 \/ (k = 3 /\ left # 1) \/ (k = 4 /\ ~(left <= 2))
    BY <1>1, <1>13
  <2> QED
    BY <1>8, <1>9, <2>1 DEF B!Ok
<1> DEFINE Bit(k) == B!Bits(text[4 * g + k])
<1>14. /\ Bit(1) = w1 /\ Bit(2) = w2
       /\ Bit(3) = IF left = 1 THEN 0 ELSE w3
       /\ Bit(4) = IF left <= 2 THEN 0 ELSE w4
  BY <1>8, <1>9 DEF B!Bits, B!Ok
<1>15. /\ B!Three(text, g)[1] = (Bit(1) * 4 + Bit(2) \div 16) % 256
       /\ B!Three(text, g)[2] = (Bit(2) * 16 + Bit(3) \div 4) % 256
       /\ B!Three(text, g)[3] = (Bit(3) * 64 + Bit(4)) % 256
  BY DEF B!Three
<1> HIDE DEF Bit
<1>16. ASSUME NEW k \in 1..3, k <= left PROVE B!Three(text, g)[k] = bytes[3 * g + k]
  <2>1. k = 1 \/ (k = 2 /\ left > 1) \/ (k = 3 /\ left > 2)
    BY <1>1, <1>16
  <2>2. CASE k = 1
    BY <1>7, <1>8, <1>14, <1>15, <2>2
  <2>3. CASE k = 2 /\ left > 1
    <3>1. Bit(3) = w3
      BY <1>1, <1>14, <2>3
    <3> QED
      BY <1>6, <1>8, <1>14, <1>15, <2>3, <3>1
  <2>4. CASE k = 3 /\ left > 2
    <3>1. Bit(3) = w3 /\ Bit(4) = w4
      BY <1>1, <1>14, <2>4
    <3> QED
      BY <1>6, <1>8, <1>15, <2>4, <3>1
  <2> QED
    BY <2>1, <2>2, <2>3, <2>4
<1> QED
  BY <1>1, <1>11, <1>12, <1>13, <1>16 DEF text, left

\* Decoding ends at the last group if that is padded, and goes on behind the end if not.
LEMMA Base64GivesBack ==
  ASSUME NEW bytes \in Seq(0..255)
  PROVE  LET back == B!FromBase64(B!ToBase64(bytes))
         IN  IF Len(bytes) > 0 /\ Len(bytes) % 3 = 0 THEN ~back.ok /\ ~back.within
             ELSE back = [bytes |-> bytes, ok |-> TRUE, within |-> TRUE]
<1> DEFINE n == Len(bytes)
           groups == (n + 2) \div 3
           text == B!ToBase64(bytes)
           left(g) == n - 3 * g
           ended == groups > 0 /\ \E g \in 0..groups : B!Padded(text, g)
           stop == IF ended
                  THEN CHOOSE g \in 0..groups : B!Padded(text, g) /\ \A h \in 0..g - 1 : ~B!Padded(text, h)
                  ELSE groups
           more == IF ~ended THEN 0 ELSE IF text[4 * stop + 3] = B!Pad THEN 1 ELSE 2
           back == [i \in 1..3 * stop + more |-> B!Three(text, (i - 1) \div 3)[((i - 1) % 3) + 1]]
           read == 4 * stop + more + 1
           ok == groups = 0 \/ (ended /\ \A i \in 1..read : B!Ok(text[i]))
           within == groups = 0 \/ (ended /\ stop < groups)
<1>1. n \in Nat /\ groups \in Nat /\ 3 * groups \in n..n + 2
  OBVIOUS
<1>2. Len(text) = 4 * groups /\ Len(text) \div 4 = groups
  <2>1. Len(text) = 4 * groups
    BY Encoded
  <2> HIDE DEF text, groups
  <2> QED
    BY <1>1, <2>1
<1>3. B!FromBase64(text) = [bytes |-> back, ok |-> ok, within |-> within]
  <2> HIDE DEF text, groups
  <2> QED
    BY <1>2 DEF B!FromBase64
<1>4. \A g \in 0..groups - 1 :
        /\ left(g) \in Nat \ {0}
        /\ text[4 * g + 3] = B!Pad <=> left(g) = 1
        /\ B!Padded(text, g) <=> left(g) <= 2
        /\ \A k \in 1..4 : k <= left(g) + 1 => B!Ok(text[4 * g + k])
        /\ \A k \in 1..3 : k <= left(g) => B!Three(text, g)[k] = bytes[3 * g + k]
  BY GroupGivesBack
<1> HIDE DEF text, groups, n
\* Only the last group can be padded.
<1>5. ASSUME NEW g \in 0..groups PROVE B!Padded(text, g) <=> g = groups - 1 /\ n % 3 # 0
  <2>1. CASE g \in 0..groups - 1
    <3>1. B!Padded(text, g) <=> left(g) <= 2
      BY <1>4, <2>1
    <3>2. left(g) <= 2 <=> g = groups - 1 /\ n % 3 # 0
      BY <1>1, <2>1
    <3> QED
      BY <3>1, <3>2
  <2>2. CASE g = groups
    <3>1. ~(4 * g + 3 <= Len(text)) /\ ~(4 * g + 4 <= Len(text))
      BY <1>1, <1>2, <2>2
    <3> QED
      BY <1>1, <2>2, <3>1 DEF B!Padded
  <2> QED
    BY <1>1, <2>1, <2>2
<1>6. ended <=> n % 3 # 0
  <2>1. n % 3 # 0 => groups - 1 \in 0..groups /\ groups > 0
    BY <1>1
  <2> QED
    BY <1>5, <2>1
<1>7. stop = IF n % 3 = 0 THEN groups ELSE groups - 1
  <2>1. CASE n % 3 = 0
    BY <1>6, <2>1
  <2>2. CASE n % 3 # 0
    <3>1. groups - 1 \in 0..groups /\ \A h \in 0..groups - 1 - 1 : h \in 0..groups /\ h # groups - 1
      BY <1>1, <2>2
    <3>2. \E g \in 0..groups : B!Padded(text, g) /\ \A h \in 0..g - 1 : ~B!Padded(text, h)
      BY <1>5, <2>2, <3>1
    <3>3. B!Padded(text, stop) /\ stop \in 0..groups
      BY <1>6, <2>2, <3>2
    <3> QED
      BY <1>5, <2>2, <3>3
  <2> QED
    BY <2>1, <2>2
<1>8. more = n % 3
  <2>1. CASE n % 3 = 0
    BY <1>6, <2>1
  <2>2. CASE n % 3 # 0
    <3>1. stop = groups - 1 /\ stop \in 0..groups - 1 /\ ended
      BY <1>1, <1>6, <1>7, <2>2
    <3> HIDE DEF stop, ended
    <3>2. text[4 * stop + 3] = B!Pad <=> left(stop) = 1
      BY <1>4, <3>1
    <3>3. left(stop) = n % 3 /\ n % 3 \in {1, 2}
      BY <1>1, <2>2, <3>1
    <3> QED
      BY <3>1, <3>2, <3>3
  <2> QED
    BY <2>1, <2>2
<1> HIDE DEF more
<1>9. 3 * stop + more = n /\ stop \in Nat
  <2>1. /\ n % 3 = 0 => 3 * groups + (n % 3) = n
        /\ n % 3 # 0 => 3 * (groups - 1) + (n % 3) = n /\ groups - 1 \in Nat
    BY <1>1
  <2> HIDE DEF stop
  <2> QED
    BY <1>1, <1>7, <1>8, <2>1
<1> HIDE DEF stop
<1>10. ASSUME NEW i \in 1..n PROVE back[i] = bytes[i]
  <2> DEFINE g == (i - 1) \div 3
             k == ((i - 1) % 3) + 1
  <2>1. g \in 0..groups - 1 /\ k \in 1..3 /\ k <= left(g) /\ 3 * g + k = i
    BY <1>1
  <2>2. back[i] = B!Three(text, g)[k]
    BY <1>9
  <2> HIDE DEF g, k, back
  <2>3. B!Three(text, g)[k] = bytes[3 * g + k]
    BY <1>4, <2>1
  <2> QED
    BY <2>1, <2>2, <2>3
<1>11. back = bytes
  <2>1. \A i \in 1..n : bytes[i] \in 0..255
    BY ElementOfSeq DEF n
  <2>2. back \in [1..n -> 0..255]
    BY <1>9, <1>10, <2>1
  <2> HIDE DEF back
  <2>3. back \in Seq(0..255) /\ Len(back) = n
    BY <1>1, <2>2, FunctionIsSeq
  <2>4. n = Len(bytes)
    BY DEF n
  <2> QED
    BY <1>10, <2>3, <2>4, SeqEqual
<1>12. ASSUME n % 3 # 0, NEW i \in 1..read PROVE B!Ok(text[i])
  <2> DEFINE g == (i - 1) \div 4
             k == ((i - 1) % 4) + 1
  <2>1. read = 4 * (groups - 1) + (n % 3) + 1
    BY <1>1, <1>7, <1>8, <1>12
  <2>2. read \in Nat /\ i \in 1..read
    BY <1>1, <1>12, <2>1
  <2> HIDE DEF read
  <2>3. g \in 0..groups - 1 /\ k \in 1..4 /\ 4 * g + k = i
    BY <1>1, <1>12, <2>1, <2>2
  <2>4. k <= left(g) + 1
    BY <1>1, <1>12, <2>1, <2>2
  <2> HIDE DEF g, k
  <2>5. B!Ok(text[4 * g + k])
    BY <1>4, <2>3, <2>4
  <2> QED
    BY <2>3, <2>5
<1> HIDE DEF back, read, ended
<1>13. CASE n % 3 # 0
  <2>1. \A i \in 1..read : B!Ok(text[i])
    BY <1>12, <1>13
  <2>2. stop < groups
    BY <1>1, <1>7, <1>13
  <2>3. ok /\ within
    BY <1>6, <1>13, <2>1, <2>2
  <2>4. ok = TRUE /\ within = TRUE
    BY <2>3
  <2> HIDE DEF ok, within
  <2> QED
    BY <1>3, <1>11, <1>13, <2>4 DEF n, text
<1>14. CASE n = 0
  <2>1. groups = 0
    BY <1>1, <1>14
  <2>2. ok = TRUE /\ within = TRUE
    BY <2>1
  <2> HIDE DEF ok, within
  <2> QED
    BY <1>3, <1>11, <1>14, <2>2 DEF n, text
<1>15. CASE n > 0 /\ n % 3 = 0
  <2>1. groups # 0 /\ ~ended
    BY <1>1, <1>6, <1>15
  <2>2. ~ok /\ ~within
    BY <2>1
  <2> HIDE DEF ok, within
  <2> QED
    BY <1>3, <1>15, <2>2 DEF n, text
<1> QED
  BY <1>1, <1>13, <1>14, <1>15

\* write and its kin: what was read is dropped if the buffer makes room for more.
LEMMA BufferPuts == ASSUME BufferInv, NEW src \in Seq(Bytes), B!Put(src) PROVE BufferInv'
<1>0. Lengths(buffer, written, floor, position)
  BY KeptLengths DEF BufferInv
<1>1. /\ written' = written \o src /\ position' = position
      /\ floor' = IF buffer'.offset = buffer.offset THEN floor ELSE position
  BY DEF B!Put
<1> DEFINE flushed == B!Flush(buffer)
<1>2. Keeps(flushed, written, position, position) /\ flushed.offset = 0
  BY FlushKeeps DEF BufferInv
<1> HIDE DEF flushed
<1>3. ASSUME Keeps(buffer', written \o src, floor, position) PROVE BufferInv'
  <2>1. buffer'.offset = position - floor
    BY <1>3 DEF Keeps
  <2> QED
    BY <1>0, <1>1, <1>3, <2>1 DEF BufferInv, Lengths
<1>4. ASSUME Keeps(buffer', written \o src, position, position) PROVE BufferInv'
  <2>1. buffer'.offset = 0
    BY <1>4 DEF Keeps
  <2>2. buffer.offset = 0 => floor = position
    BY <1>0 DEF Lengths
  <2>3. floor' = position
    BY <1>0, <1>1, <2>1, <2>2
  <2> QED
    BY <1>1, <1>4, <2>3 DEF BufferInv
<1>5. CASE buffer' = B!BufferWrite(buffer, src)
  <2>1. CASE buffer' = B!Write(flushed, src)
    BY <1>2, <1>4, <2>1, WriteKeeps
  <2>2. CASE buffer' = B!Write(buffer, src)
    BY <1>3, <2>2, WriteKeeps DEF BufferInv
  <2> QED
    BY <1>5, <2>1, <2>2 DEF B!BufferWrite, flushed
<1>6. CASE Len(src) <= B!Space(buffer) /\ buffer' = B!AddedToTail(buffer, src)
  BY <1>3, <1>6, AddedKeeps DEF BufferInv
<1>7. CASE buffer' = B!BufferAppend(buffer, src)
  BY <1>2, <1>4, <1>7, Append2Keeps DEF B!BufferAppend, flushed
<1>8. CASE buffer' = B!Stream(buffer, src)
  BY <1>3, <1>8, StreamKeeps DEF BufferInv
<1> QED
  BY <1>5, <1>6, <1>7, <1>8 DEF B!Put

LEMMA BufferInit == ASSUME Init PROVE BufferInv
<1>1. PICK n \in 0..MaxCap :
        buffer = [bytes |-> <<>>, cap |-> n, offset |-> 0] /\ written = <<>> /\ position = 0 /\ floor = 0
  BY DEF Init, B!Init, B!NewBuffer
<1>2. n \in Nat /\ <<>> \in Seq(Bytes) /\ Len(<<>>) = 0
  BY DataAssumption, EmptySeq DEF B!BufferAssumption
<1> QED
  BY <1>1, <1>2 DEF BufferInv, Keeps, Buffers

LEMMA BufferStep == ASSUME BufferInv, [B!Next]_(B!bufferVars) PROVE BufferInv'
<1>0. Lengths(buffer, written, floor, position) /\ buffer \in Buffers
  BY KeptLengths DEF BufferInv, Keeps
<1>1. ASSUME NEW src \in B!Chunks, B!Put(src) PROVE BufferInv'
  <2>1. PICK n \in 0..MaxWrite : src \in [1..n -> Bytes]
    BY <1>1 DEF B!Chunks
  <2>2. n \in Nat
    BY DataAssumption DEF B!BufferAssumption
  <2> QED
    BY <1>1, <2>1, <2>2, FunctionIsSeq, BufferPuts
<1>2. ASSUME NEW b \in Buffers, NEW f \in 0..position, NEW p \in f..Len(written),
             UNCHANGED written, buffer' = b, floor' = f, position' = p, f = floor,
             b.bytes = buffer.bytes, b.cap = buffer.cap, b.offset = p - f
      PROVE  BufferInv'
  BY <1>0, <1>2 DEF BufferInv, Keeps, Lengths
<1>3. ASSUME NEW n \in 0..MaxWrite, B!Take(n) PROVE BufferInv'
  <2> DEFINE least == B!Least(n, Len(buffer.bytes) - buffer.offset)
             given == B!ReadBytes(buffer, n)
  <2>1. n \in Nat
    BY DataAssumption DEF B!BufferAssumption
  <2>2. least \in Nat /\ buffer.offset + least <= Len(buffer.bytes) /\ buffer.offset + least \in Nat
    BY <1>0, <2>1 DEF Lengths, B!Least
  <2> HIDE DEF least
  <2>3. Len(given) = least
    <3>1. given = SubSeq(buffer.bytes, buffer.offset + 1, buffer.offset + least)
      BY DEF B!ReadBytes, least
    <3>2. \A i \in buffer.offset + 1..buffer.offset + least : buffer.bytes[i] \in Bytes
      BY <1>0, <2>2, ElementOfSeq DEF Lengths
    <3>3. PICK s \in Seq(Bytes), i \in Nat, j \in Nat :
            s = buffer.bytes /\ i = buffer.offset + 1 /\ j = buffer.offset + least
      BY <1>0, <2>2 DEF Lengths
    <3>4. Len(SubSeq(s, i, j)) = IF i <= j THEN j - i + 1 ELSE 0
      BY <3>2, <3>3, SubSeqProperties
    <3>5. (IF i <= j THEN j - i + 1 ELSE 0) = least
      BY <1>0, <2>2, <3>3 DEF Lengths
    <3> HIDE DEF given
    <3> QED
      BY <3>1, <3>3, <3>4, <3>5
  <2>4. buffer' = [buffer EXCEPT !.offset = @ + least] /\ position' = position + least /\ UNCHANGED <<written, floor>>
    BY <1>3, <2>3 DEF B!Take, B!Advance, least
  <2>5. /\ buffer' \in Buffers /\ buffer'.bytes = buffer.bytes /\ buffer'.cap = buffer.cap
        /\ buffer'.offset = buffer.offset + least
    BY <1>0, <2>2, <2>4 DEF Buffers
  <2>6. floor \in 0..position /\ position' \in floor..Len(written) /\ buffer'.offset = position' - floor
    BY <1>0, <2>2, <2>4, <2>5 DEF Lengths
  <2> QED
    BY <1>2, <2>4, <2>5, <2>6
<1>4. CASE B!GoBack
  <2>1. buffer' = [buffer EXCEPT !.offset = 0] /\ position' = floor /\ UNCHANGED <<written, floor>>
    BY <1>4 DEF B!GoBack, B!Rewind
  <2>2. buffer' \in Buffers /\ buffer'.bytes = buffer.bytes /\ buffer'.cap = buffer.cap /\ buffer'.offset = 0
    BY <1>0, <2>1 DEF Buffers
  <2>3. floor \in 0..position /\ floor \in floor..Len(written) /\ 0 = floor - floor
    BY <1>0 DEF Lengths
  <2> QED
    BY <1>2, <2>1, <2>2, <2>3
<1>5. ASSUME NEW n \in 0..MaxWrite, B!GoBackBy(n) PROVE BufferInv'
  <2> DEFINE q == IF position - n < floor THEN floor ELSE position - n
             o == IF n > buffer.offset THEN 0 ELSE buffer.offset - n
  <2>1. n \in Nat
    BY DataAssumption DEF B!BufferAssumption
  <2>2. o \in Nat /\ q \in floor..Len(written) /\ o = q - floor /\ floor \in 0..position
    BY <1>0, <2>1 DEF Lengths
  <2>3. buffer' = [buffer EXCEPT !.offset = o] /\ position' = q /\ UNCHANGED <<written, floor>>
    BY <1>5 DEF B!GoBackBy, B!RewindBy
  <2> HIDE DEF q, o
  <2>4. buffer' \in Buffers /\ buffer'.bytes = buffer.bytes /\ buffer'.cap = buffer.cap /\ buffer'.offset = o
    BY <1>0, <2>2, <2>3 DEF Buffers
  <2> QED
    BY <1>2, <2>2, <2>3, <2>4
<1>6. ASSUME NEW n \in 0..MaxCap, B!MakeRoom(n) PROVE BufferInv'
  <2>1. n \in Nat
    BY DataAssumption DEF B!BufferAssumption
  <2>2. CASE buffer' = B!Reserve(buffer, n) /\ floor' = floor
    BY <1>6, <2>1, <2>2, ReserveKeeps DEF B!MakeRoom, BufferInv
  <2>3. CASE buffer' = B!Flush(buffer) /\ floor' = position
    BY <1>6, <2>3, FlushKeeps DEF B!MakeRoom, BufferInv
  <2> QED
    BY <1>6, <2>2, <2>3 DEF B!MakeRoom
<1>7. CASE B!Drop
  <2>1. written' = <<>> /\ position' = 0 /\ floor' = 0 /\ <<>> \in Seq(Bytes) /\ Len(<<>>) = 0
    BY <1>7, EmptySeq DEF B!Drop
  <2>2. buffer' \in Buffers /\ buffer'.bytes = <<>> /\ buffer'.offset = 0
    <3>1. CASE buffer' = [buffer EXCEPT !.bytes = <<>>, !.offset = 0]
      BY <1>0, <2>1, <3>1 DEF Buffers
    <3>2. CASE buffer' = [bytes |-> <<>>, cap |-> 0, offset |-> 0]
      BY <2>1, <3>2 DEF Buffers
    <3> QED
      BY <1>7, <3>1, <3>2 DEF B!Drop, B!BufferClear, B!BufferRelease, B!NewBuffer
  <2>3. buffer'.cap \in Nat
    BY <2>2 DEF Buffers
  <2> QED
    BY <2>1, <2>2, <2>3 DEF BufferInv, Keeps
<1>8. CASE UNCHANGED B!bufferVars
  BY <1>8 DEF B!bufferVars, BufferInv, Keeps
<1> QED
  BY <1>1, <1>3, <1>4, <1>5, <1>6, <1>7, <1>8 DEF B!Next

\* The hexadecimal digits of a sequence of bytes give it back.
LEMMA HexGivesBack ==
  ASSUME NEW bytes \in Seq(0..255)
  PROVE  B!FromHex(B!ToHex(bytes)) = [bytes |-> bytes, ok |-> TRUE]
<1> DEFINE n    == Len(bytes)
           text == B!ToHex(bytes)
           back == [i \in 1..n |-> 16 * B!Nibble(text[2 * i - 1]) + B!Nibble(text[2 * i])]
<1>1. n \in Nat /\ \A i \in 1..n : bytes[i] \in 0..255
  BY ElementOfSeq
<1>2. \A i \in 1..2 * n :
        /\ (i + 1) \div 2 \in 1..n
        /\ text[i] = LET b == bytes[(i + 1) \div 2] IN IF i % 2 = 1 THEN b \div 16 ELSE b % 16
  BY <1>1 DEF B!ToHex
<1>3. \A i \in 1..2 * n : text[i] \in 0..15
  <2> SUFFICES ASSUME NEW i \in 1..2 * n PROVE text[i] \in 0..15
    OBVIOUS
  <2>1. PICK b \in 0..255 : text[i] = IF i % 2 = 1 THEN b \div 16 ELSE b % 16
    BY <1>1, <1>2
  <2>2. b \div 16 \in 0..15 /\ b % 16 \in 0..15
    OBVIOUS
  <2> QED
    BY <2>1, <2>2
<1>4. Len(text) = 2 * n
  <2>1. text \in [1..2 * n -> 0..15]
    BY <1>1, <1>3 DEF B!ToHex
  <2> QED
    BY <1>1, <2>1, FunctionIsSeq
<1>5. \A i \in 1..n : text[2 * i - 1] = bytes[i] \div 16 /\ text[2 * i] = bytes[i] % 16
  <2> SUFFICES ASSUME NEW i \in 1..n PROVE text[2 * i - 1] = bytes[i] \div 16 /\ text[2 * i] = bytes[i] % 16
    OBVIOUS
  <2>1. /\ 2 * i - 1 \in 1..2 * n /\ 2 * i \in 1..2 * n
        /\ (2 * i - 1 + 1) \div 2 = i /\ (2 * i + 1) \div 2 = i
        /\ (2 * i - 1) % 2 = 1 /\ (2 * i) % 2 = 0
    BY <1>1
  <2> HIDE DEF text
  <2> QED
    BY <1>2, <2>1
<1> HIDE DEF text
<1>6. back = bytes
  <2>1. \A i \in 1..n : back[i] = bytes[i]
    <3> SUFFICES ASSUME NEW i \in 1..n PROVE back[i] = bytes[i]
      OBVIOUS
    <3>1. back[i] = 16 * B!Nibble(bytes[i] \div 16) + B!Nibble(bytes[i] % 16)
      BY <1>5
    <3>2. \A b \in 0..255 : 16 * B!Nibble(b \div 16) + B!Nibble(b % 16) = b
      BY DEF B!Nibble
    <3> QED
      BY <1>1, <3>1, <3>2
  <2>2. back \in [1..n -> 0..255]
    BY <1>1, <2>1
  <2> HIDE DEF back, n
  <2>3. back \in Seq(0..255) /\ Len(back) = n
    BY <1>1, <2>2, FunctionIsSeq
  <2>4. n = Len(bytes)
    BY DEF n
  <2> QED
    BY <2>1, <2>3, <2>4, SeqEqual
<1>7. Len(text) \div 2 = n /\ 2 * n = Len(text)
  BY <1>1, <1>4
<1>8. \A i \in 1..2 * n : text[i] < 16
  BY <1>3
<1> QED
  BY <1>6, <1>7, <1>8 DEF B!FromHex, text

\* What the buffer holds, as the sequence it is.
LEMMA BufferConcludes == ASSUME BufferInv PROVE B!TypeOK /\ B!BytesKept
<1>0. Lengths(buffer, written, floor, position)
  BY KeptLengths DEF BufferInv
<1>1. buffer.bytes = SubSeq(written, floor + 1, Len(written))
  <2> DEFINE rest == SubSeq(written, floor + 1, Len(written))
  <2>1. \A i \in floor + 1..Len(written) : written[i] \in Bytes
    BY <1>0, ElementOfSeq DEF Lengths
  <2>2. /\ rest \in Seq(Bytes)
        /\ Len(rest) = IF floor + 1 <= Len(written) THEN Len(written) - (floor + 1) + 1 ELSE 0
        /\ \A i \in 1..Len(written) - (floor + 1) + 1 : rest[i] = written[floor + 1 + i - 1]
    <3>1. floor + 1 \in Nat /\ Len(written) \in Nat /\ written \in Seq(Bytes)
      BY <1>0 DEF Lengths
    <3> QED
      BY <2>1, <3>1, SubSeqProperties
  <2>3. Len(rest) = Len(written) - floor
    BY <1>0, <2>2 DEF Lengths
  <2>4. \A i \in 1..Len(written) - floor : rest[i] = buffer.bytes[i]
    <3> SUFFICES ASSUME NEW i \in 1..Len(written) - floor PROVE rest[i] = buffer.bytes[i]
      OBVIOUS
    <3>1. i \in 1..Len(written) - (floor + 1) + 1 /\ floor + 1 + i - 1 = floor + i
      BY <1>0 DEF Lengths
    <3> QED
      BY <2>2, <3>1 DEF BufferInv, Keeps
  <2>5. buffer.bytes \in Seq(Bytes) /\ Len(buffer.bytes) = Len(written) - floor
    BY <1>0 DEF Lengths
  <2> HIDE DEF rest
  <2>6. rest = buffer.bytes
    BY <2>2, <2>3, <2>4, <2>5, SeqEqual
  <2> QED
    BY <2>6 DEF rest
<1>2. B!HoldsTheStream
  BY <1>0, <1>1 DEF B!HoldsTheStream, Lengths
<1>3. written \in Seq(0..255)
  BY <1>0, SeqMonotonic, DataAssumption DEF Lengths, B!BufferAssumption
<1>4. B!TypeOK
  BY <1>0 DEF Lengths, B!TypeOK
<1> QED
  BY <1>2, <1>3, <1>4, HexGivesBack, Base64GivesBack DEF B!BytesKept, B!HexReturns, B!Base64Returns

-----------------------------------------------------------------------------
(* The TLS session.                                                        *)

\* A sequence but for its first n elements.
LEMMA FromProperties ==
  ASSUME NEW u \in Seq(Nat), NEW n \in 0..Len(u)
  PROVE  /\ T!From(u, n) \in Seq(Nat) /\ Len(T!From(u, n)) = Len(u) - n
         /\ \A i \in 1..Len(u) - n : T!From(u, n)[i] = u[n + i]
         /\ SubSeq(u, 1, n) \in Seq(Nat) /\ Len(SubSeq(u, 1, n)) = n
         /\ SubSeq(u, 1, n) \o T!From(u, n) = u
<1>1. n \in Nat /\ n + 1 \in Nat /\ Len(u) \in Nat /\ n <= Len(u) /\ \A i \in 1..Len(u) : u[i] \in Nat
  BY ElementOfSeq
<1>2. /\ SubSeq(u, n + 1, Len(u)) \in Seq(Nat)
      /\ Len(SubSeq(u, n + 1, Len(u))) = IF n + 1 <= Len(u) THEN Len(u) - (n + 1) + 1 ELSE 0
      /\ \A i \in 1..Len(u) - (n + 1) + 1 : SubSeq(u, n + 1, Len(u))[i] = u[n + 1 + i - 1]
  <2>1. \A i \in n + 1..Len(u) : u[i] \in Nat
    BY <1>1
  <2> QED
    BY <1>1, <2>1, SubSeqProperties
<1>3. SubSeq(u, 1, n) \in Seq(Nat) /\ Len(SubSeq(u, 1, n)) = n
  <2>1. \A i \in 1..n : u[i] \in Nat
    BY <1>1
  <2> QED
    BY <1>1, <2>1, SubSeqProperties
<1>4. SubSeq(u, 1, n) \o SubSeq(u, n + 1, Len(u)) = u
  <2>1. 1 \in 1..Len(u) + 1 /\ n \in 1 - 1..Len(u) /\ Len(u) \in n..Len(u)
    BY <1>1
  <2> QED
    BY <2>1, ConcatAdjacentSubSeq, SubSeqFull
<1>5. \A i \in 1..Len(u) - n : i \in 1..Len(u) - (n + 1) + 1 /\ n + 1 + i - 1 = n + i
  BY <1>1
<1>6. (IF n + 1 <= Len(u) THEN Len(u) - (n + 1) + 1 ELSE 0) = Len(u) - n
  BY <1>1
<1> QED
  BY <1>2, <1>3, <1>4, <1>5, <1>6 DEF T!From

LEMMA FromConcat ==
  ASSUME NEW u \in Seq(Nat), NEW v \in Seq(Nat), NEW n \in 0..Len(u)
  PROVE  T!From(u \o v, n) = T!From(u, n) \o v
<1>1. u \o v \in Seq(Nat) /\ Len(u \o v) = Len(u) + Len(v) /\ n \in 0..Len(u \o v)
      /\ Len(u) \in Nat /\ Len(v) \in Nat
  BY ConcatProperties
<1> DEFINE l == T!From(u \o v, n)  f == T!From(u, n)
<1>2. l \in Seq(Nat) /\ Len(l) = Len(u) + Len(v) - n /\ \A i \in 1..Len(u) + Len(v) - n : l[i] = (u \o v)[n + i]
  <2>1. PICK w \in Seq(Nat) : w = u \o v
    BY <1>1
  <2>2. n \in 0..Len(w) /\ Len(w) = Len(u) + Len(v)
    BY <1>1, <2>1
  <2>3. /\ T!From(w, n) \in Seq(Nat) /\ Len(T!From(w, n)) = Len(w) - n
        /\ \A i \in 1..Len(w) - n : T!From(w, n)[i] = w[n + i]
    BY <2>2, FromProperties
  <2> QED
    BY <2>1, <2>2, <2>3
<1>3. f \in Seq(Nat) /\ Len(f) = Len(u) - n /\ \A i \in 1..Len(u) - n : f[i] = u[n + i]
  BY FromProperties
<1> HIDE DEF l, f
<1>4. f \o v \in Seq(Nat) /\ Len(f \o v) = Len(u) + Len(v) - n
  <2>1. f \in Seq(Nat) /\ Len(f) = Len(u) - n
    BY <1>3
  <2>2. f \o v \in Seq(Nat) /\ Len(f \o v) = Len(f) + Len(v)
    BY <2>1, ConcatProperties
  <2> QED
    BY <1>1, <2>1, <2>2
<1>5. ASSUME NEW i \in 1..Len(u) + Len(v) - n PROVE l[i] = (f \o v)[i]
  <2>1. n + i \in 1..Len(u) + Len(v) /\ i \in 1..Len(f) + Len(v)
    BY <1>1, <1>3
  <2>2. (u \o v)[n + i] = IF n + i <= Len(u) THEN u[n + i] ELSE v[n + i - Len(u)]
    BY <2>1, ConcatProperties
  <2>3. (f \o v)[i] = IF i <= Len(f) THEN f[i] ELSE v[i - Len(f)]
    BY <1>3, <2>1, ConcatProperties
  <2>4. CASE n + i <= Len(u)
    <3>1. i \in 1..Len(u) - n /\ i <= Len(f)
      BY <1>1, <1>3, <2>4
    <3> QED
      BY <1>2, <1>3, <2>2, <2>3, <2>4, <3>1
  <2>5. CASE ~(n + i <= Len(u))
    <3>1. ~(i <= Len(f)) /\ i - Len(f) = n + i - Len(u)
      BY <1>1, <1>3, <2>5
    <3> QED
      BY <1>2, <2>2, <2>3, <2>5, <3>1
  <2> QED
    BY <2>4, <2>5
<1>6. l = f \o v
  BY <1>2, <1>4, <1>5, SeqEqual
<1> QED
  BY <1>6 DEF l, f

\* A buffer of units, and what can still be read of it after each call.
Streams == [bytes : Seq(Nat), cap : Nat, offset : Nat]
IsStream(b) == b \in Streams /\ b.offset \in 0..Len(b.bytes)

LEMMA UnreadIs == ASSUME NEW b, IsStream(b) PROVE T!Unread(b) \in Seq(Nat)
<1>1. PICK u \in Seq(Nat), n \in Nat : u = b.bytes /\ n = b.offset /\ n \in 0..Len(u)
  BY DEF IsStream, Streams
<1>2. u \in Seq(Nat) /\ n \in 0..Len(u)
  BY <1>1
<1>3. T!From(u, n) \in Seq(Nat)
  BY <1>2, FromProperties
<1> QED
  BY <1>1, <1>3 DEF T!Unread

\* What is added behind comes after what was there.
LEMMA AddUnread ==
  ASSUME NEW b, IsStream(b), NEW src \in Seq(Nat), NEW c \in Streams,
         c.bytes = b.bytes \o src, c.offset = b.offset
  PROVE  IsStream(c) /\ T!Unread(c) = T!Unread(b) \o src
<1>1. PICK u \in Seq(Nat), n \in Nat : u = b.bytes /\ n = b.offset /\ n \in 0..Len(u)
  BY DEF IsStream, Streams
<1>2. Len(u \o src) = Len(u) + Len(src) /\ Len(u) \in Nat /\ Len(src) \in Nat
  BY ConcatProperties
<1>3. n \in 0..Len(u \o src)
  BY <1>1, <1>2
<1>4. T!From(u \o src, n) = T!From(u, n) \o src
  BY <1>1, FromConcat
<1> QED
  BY <1>1, <1>3, <1>4 DEF IsStream, T!Unread

LEMMA FlushUnread == ASSUME NEW b, IsStream(b) PROVE IsStream(T!Flush(b)) /\ T!Unread(T!Flush(b)) = T!Unread(b)
<1>1. PICK u \in Seq(Nat), n \in Nat : u = b.bytes /\ n = b.offset /\ n \in 0..Len(u)
  BY DEF IsStream, Streams
<1> DEFINE rest == IF n >= Len(u) THEN <<>> ELSE T!From(u, n)
<1>2. rest = T!From(u, n) /\ rest \in Seq(Nat)
  <2>1. T!From(u, n) \in Seq(Nat) /\ Len(T!From(u, n)) = Len(u) - n
    <3>1. u \in Seq(Nat) /\ n \in 0..Len(u)
      BY <1>1
    <3> QED
      BY <3>1, FromProperties
  <2>2. n >= Len(u) => T!From(u, n) = <<>>
    BY <2>1
  <2> QED
    BY <2>1, <2>2
<1> DEFINE c == [b EXCEPT !.bytes = rest]
<1>3. T!Flush(b) = [c EXCEPT !.offset = 0] /\ c \in Streams /\ c.bytes = rest
  <2>1. T!Flush(b) = [c EXCEPT !.offset = 0]
    BY <1>1 DEF T!Flush, T!PopFront, IsStream, Streams
  <2>2. c \in Streams /\ c.bytes = rest
    BY <1>2 DEF IsStream, Streams
  <2> QED
    BY <2>1, <2>2
<1> HIDE DEF rest, c
<1>4. T!Flush(b) \in Streams /\ T!Flush(b).bytes = rest /\ T!Flush(b).offset = 0
  BY <1>3 DEF Streams
<1>5. T!From(rest, 0) = rest
  BY <1>2, SubSeqFull DEF T!From
<1>6. 0 \in 0..Len(rest)
  BY <1>2
<1> QED
  BY <1>1, <1>2, <1>4, <1>5, <1>6 DEF IsStream, T!Unread

LEMMA WriteUnread ==
  ASSUME NEW b, IsStream(b), NEW src \in Seq(Nat)
  PROVE  IsStream(T!BufferWrite(b, src)) /\ T!Unread(T!BufferWrite(b, src)) = T!Unread(b) \o src
<1>1. ASSUME NEW c, IsStream(c) PROVE IsStream(T!Write(c, src)) /\ T!Unread(T!Write(c, src)) = T!Unread(c) \o src
  <2> DEFINE cap == IF T!Space(c) < Len(src) THEN Len(c.bytes) + Len(src) + Slack ELSE c.cap
             d   == T!Write(c, src)
  <2>1. cap \in Nat
    BY <1>1, ServerAssumption DEF T!TlsAssumption, IsStream, Streams
  <2>2. c.bytes \o src \in Seq(Nat)
    BY <1>1, ConcatProperties DEF IsStream, Streams
  <2>3. d = [c EXCEPT !.bytes = c.bytes \o src, !.cap = cap]
    BY <1>1 DEF T!Write, IsStream, Streams
  <2> HIDE DEF cap, d
  <2>4. d \in Streams /\ d.bytes = c.bytes \o src /\ d.offset = c.offset
    BY <1>1, <2>1, <2>2, <2>3 DEF IsStream, Streams
  <2>5. IsStream(d) /\ T!Unread(d) = T!Unread(c) \o src
    BY <1>1, <2>4, AddUnread
  <2> QED
    BY <2>5 DEF d
<1> QED
  BY <1>1, FlushUnread DEF T!BufferWrite

LEMMA AdvanceUnread ==
  ASSUME NEW b, IsStream(b), NEW n \in 0..Len(T!Unread(b))
  PROVE  IsStream(T!Advance(b, n)) /\ T!Unread(T!Advance(b, n)) = T!From(T!Unread(b), n)
<1>1. PICK u \in Seq(Nat), o \in Nat : u = b.bytes /\ o = b.offset /\ o \in 0..Len(u)
  BY DEF IsStream, Streams
<1>2. T!Unread(b) = T!From(u, o) /\ Len(T!From(u, o)) = Len(u) - o /\ T!From(u, o) \in Seq(Nat)
      /\ \A i \in 1..Len(u) - o : T!From(u, o)[i] = u[o + i]
  BY <1>1, FromProperties DEF T!Unread
<1>3. n \in 0..Len(u) - o /\ o + n \in 0..Len(u) /\ o + n \in Nat
  BY <1>2
<1>4. T!Advance(b, n) = [b EXCEPT !.offset = o + n]
  BY <1>1, <1>3 DEF T!Advance, T!Least, IsStream, Streams
<1>5. T!Advance(b, n) \in Streams /\ T!Advance(b, n).bytes = u /\ T!Advance(b, n).offset = o + n
  BY <1>1, <1>3, <1>4 DEF IsStream, Streams
<1>6. T!From(u, o + n) = T!From(T!From(u, o), n)
  <2> DEFINE l == T!From(u, o + n)  f == T!From(u, o)  r == T!From(f, n)
  <2>1. l \in Seq(Nat) /\ Len(l) = Len(u) - (o + n) /\ \A i \in 1..Len(u) - (o + n) : l[i] = u[o + n + i]
    BY <1>3, FromProperties
  <2>2. f \in Seq(Nat) /\ n \in 0..Len(f) /\ Len(f) = Len(u) - o
    BY <1>2, <1>3
  <2> HIDE DEF l, f
  <2>3. r \in Seq(Nat) /\ Len(r) = Len(u) - o - n /\ \A i \in 1..Len(u) - o - n : r[i] = f[n + i]
    BY <2>2, FromProperties
  <2> HIDE DEF r
  <2>4. Len(u) - o - n = Len(u) - (o + n)
    BY <1>3
  <2>5. \A i \in 1..Len(u) - (o + n) : l[i] = r[i]
    <3> SUFFICES ASSUME NEW i \in 1..Len(u) - (o + n) PROVE l[i] = r[i]
      OBVIOUS
    <3>1. n + i \in 1..Len(u) - o /\ o + n + i = o + (n + i) /\ i \in 1..Len(u) - o - n
      BY <1>3
    <3>2. f[n + i] = u[o + (n + i)]
      BY <1>2, <3>1 DEF f
    <3> QED
      BY <2>1, <2>3, <3>1, <3>2
  <2>6. l = r
    BY <2>1, <2>3, <2>4, <2>5, SeqEqual
  <2> QED
    BY <2>6 DEF l, r, f
<1> QED
  BY <1>2, <1>3, <1>5, <1>6 DEF IsStream, T!Unread

\* Room is made without losing anything, and there is some.
LEMMA RoomUnread ==
  ASSUME NEW b, IsStream(b)
  PROVE  /\ IsStream(T!WithRoom(b)) /\ T!Unread(T!WithRoom(b)) = T!Unread(b)
         /\ T!Space(T!WithRoom(b)) \in Nat
<1> DEFINE c == IF T!Space(b) < Room THEN T!Flush(b) ELSE b
           most == T!Most(c.cap + Room, Len(c.bytes))
           d == [c EXCEPT !.cap = most]
<1>1. IsStream(c) /\ T!Unread(c) = T!Unread(b)
  BY FlushUnread
<1>2. Room \in Nat
  BY ServerAssumption DEF T!TlsAssumption
<1>3. T!WithRoom(b) = IF T!Space(c) < Room THEN d ELSE c
  BY DEF T!WithRoom, T!Reserve
<1> HIDE DEF c
<1>4. most \in Nat /\ most - Len(c.bytes) \in Nat
  BY <1>1, <1>2 DEF IsStream, Streams, T!Most
<1> HIDE DEF most
<1>5. d \in Streams /\ d.bytes = c.bytes /\ d.cap = most /\ d.offset = c.offset
  BY <1>1, <1>4 DEF IsStream, Streams
<1> HIDE DEF d
<1>6. IsStream(d) /\ T!Unread(d) = T!Unread(b) /\ T!Space(d) \in Nat
  BY <1>1, <1>4, <1>5 DEF IsStream, T!Unread, T!Space
<1>7. T!Space(c) >= Room => T!Space(c) \in Nat
  BY <1>1, <1>2 DEF T!Space, IsStream, Streams
<1>8. T!Space(c) \in Int
  BY <1>1 DEF T!Space, IsStream, Streams
<1> QED
  BY <1>1, <1>2, <1>3, <1>6, <1>7, <1>8

-----------------------------------------------------------------------------
\* The server's units: z of its flight, and its records from k + 1 to n; the bytes of
\* k records; the first m units of the client.
Units(z, k, n) == [i \in 1..z + n - k |-> IF i <= z THEN 0 ELSE k + i - z]
BytesOf(k)     == [i \in 1..2 * k |-> i]
Sent(m)        == [i \in 1..m |-> i - 1]

LEMMA UnitsAre ==
  ASSUME NEW n \in Nat, NEW k \in 0..n, NEW z \in Nat
  PROVE  /\ Units(z, k, n) \in Seq(Nat) /\ Len(Units(z, k, n)) = z + n - k
         /\ \A i \in 1..z + n - k : Units(z, k, n)[i] = IF i <= z THEN 0 ELSE k + i - z
<1>1. z + n - k \in Nat /\ \A i \in 1..z + n - k : (IF i <= z THEN 0 ELSE k + i - z) \in Nat
  OBVIOUS
<1>2. Units(z, k, n) \in [1..z + n - k -> Nat]
  BY <1>1 DEF Units
<1> QED
  BY <1>1, <1>2, FunctionIsSeq DEF Units

LEMMA BytesAre ==
  ASSUME NEW k \in Nat
  PROVE  BytesOf(k) \in Seq(Nat) /\ Len(BytesOf(k)) = 2 * k /\ \A i \in 1..2 * k : BytesOf(k)[i] = i
<1>1. BytesOf(k) \in [1..2 * k -> Nat]
  BY DEF BytesOf
<1> QED
  BY <1>1, FunctionIsSeq DEF BytesOf

LEMMA SentAre ==
  ASSUME NEW m \in Nat
  PROVE  Sent(m) \in Seq(Nat) /\ Len(Sent(m)) = m /\ \A i \in 1..m : Sent(m)[i] = i - 1
<1>1. Sent(m) \in [1..m -> Nat]
  BY DEF Sent
<1> QED
  BY <1>1, FunctionIsSeq DEF Sent

\* Units of the flight are pulled, or the next record; one more record is sent.
LEMMA UnitsPulled ==
  ASSUME NEW n \in Nat, NEW k \in 0..n, NEW z \in Nat, NEW j \in 0..z
  PROVE  T!From(Units(z, k, n), j) = Units(z - j, k, n)
<1> DEFINE l == T!From(Units(z, k, n), j)  r == Units(z - j, k, n)
<1>1. Units(z, k, n) \in Seq(Nat) /\ j \in 0..Len(Units(z, k, n)) /\ j \in Nat /\ z - j \in Nat
      /\ Len(Units(z, k, n)) = z + n - k
  BY UnitsAre
<1>2. l \in Seq(Nat) /\ Len(l) = z + n - k - j /\ \A i \in 1..z + n - k - j : l[i] = Units(z, k, n)[j + i]
  <2>1. PICK u \in Seq(Nat) : u = Units(z, k, n)
    BY <1>1
  <2>2. j \in 0..Len(u) /\ Len(u) = z + n - k
    BY <1>1, <2>1
  <2>3. /\ T!From(u, j) \in Seq(Nat) /\ Len(T!From(u, j)) = Len(u) - j
        /\ \A i \in 1..Len(u) - j : T!From(u, j)[i] = u[j + i]
    BY <2>2, FromProperties
  <2> QED
    BY <2>1, <2>2, <2>3
<1>3. r \in Seq(Nat) /\ Len(r) = z - j + n - k /\ \A i \in 1..z - j + n - k : r[i] = IF i <= z - j THEN 0 ELSE k + i - (z - j)
  BY <1>1, UnitsAre
<1> HIDE DEF l, r
<1>4. z - j + n - k = z + n - k - j
  BY <1>1
<1>5. ASSUME NEW i \in 1..z + n - k - j PROVE l[i] = r[i]
  <2>1. j + i \in 1..z + n - k /\ i \in 1..z - j + n - k
    BY <1>1
  <2>2. Units(z, k, n)[j + i] = IF j + i <= z THEN 0 ELSE k + (j + i) - z
    BY <2>1, UnitsAre
  <2>3. (j + i <= z <=> i <= z - j) /\ k + (j + i) - z = k + i - (z - j)
    BY <1>1
  <2> QED
    BY <1>2, <1>3, <2>1, <2>2, <2>3
<1>6. l = r
  BY <1>2, <1>3, <1>4, <1>5, SeqEqual
<1> QED
  BY <1>6 DEF l, r

LEMMA RecordPulled ==
  ASSUME NEW n \in Nat, NEW k \in 0..n - 1
  PROVE  /\ Units(0, k, n) # <<>> /\ Head(Units(0, k, n)) = k + 1
         /\ T!From(Units(0, k, n), 1) = Units(0, k + 1, n)
<1> DEFINE u == Units(0, k, n)  l == T!From(u, 1)  r == Units(0, k + 1, n)
<1>1. k \in 0..n /\ k + 1 \in 0..n /\ 0 \in Nat
  OBVIOUS
<1>2. u \in Seq(Nat) /\ Len(u) = 0 + n - k /\ \A i \in 1..0 + n - k : u[i] = IF i <= 0 THEN 0 ELSE k + i - 0
  BY <1>1, UnitsAre
<1>3. r \in Seq(Nat) /\ Len(r) = 0 + n - (k + 1)
      /\ \A i \in 1..0 + n - (k + 1) : r[i] = IF i <= 0 THEN 0 ELSE k + 1 + i - 0
  BY <1>1, UnitsAre
<1> HIDE DEF u, r
<1>4. u # <<>> /\ Head(u) = k + 1
  BY <1>2
<1>5. 1 \in 0..Len(u)
  BY <1>2
<1>6. l \in Seq(Nat) /\ Len(l) = Len(u) - 1 /\ \A i \in 1..Len(u) - 1 : l[i] = u[1 + i]
  BY <1>2, <1>5, FromProperties
<1> HIDE DEF l
<1>7. Len(l) = Len(r) /\ \A i \in 1..Len(l) : l[i] = r[i]
  <2>1. Len(l) = Len(r) /\ Len(l) = n - (k + 1) /\ Len(u) = n - k
    BY <1>2, <1>3, <1>6
  <2>2. ASSUME NEW i \in 1..n - (k + 1) PROVE l[i] = r[i]
    <3>1. i \in 1..Len(u) - 1 /\ 1 + i \in 1..0 + n - k /\ i \in 1..0 + n - (k + 1)
      BY <2>1
    <3>2. u[1 + i] = k + (1 + i)
      BY <1>2, <3>1
    <3>3. r[i] = k + 1 + i
      BY <1>3, <3>1
    <3> QED
      BY <1>6, <3>1, <3>2, <3>3
  <2> QED
    BY <2>1, <2>2
<1>8. l = r
  BY <1>3, <1>6, <1>7, SeqEqual
<1> QED
  BY <1>4, <1>8 DEF u, l, r

LEMMA RecordAdded ==
  ASSUME NEW n \in Nat, NEW k \in 0..n, NEW z \in Nat
  PROVE  Units(z, k, n) \o <<n + 1>> = Units(z, k, n + 1)
<1> DEFINE u == Units(z, k, n)  l == Append(u, n + 1)  r == Units(z, k, n + 1)
<1>1. u \in Seq(Nat) /\ Len(u) = z + n - k /\ \A i \in 1..z + n - k : u[i] = IF i <= z THEN 0 ELSE k + i - z
  BY UnitsAre
<1>2. r \in Seq(Nat) /\ Len(r) = z + (n + 1) - k
      /\ \A i \in 1..z + (n + 1) - k : r[i] = IF i <= z THEN 0 ELSE k + i - z
  BY UnitsAre
<1> HIDE DEF u, r
<1>3. l \in Seq(Nat) /\ Len(l) = Len(u) + 1 /\ (\A i \in 1..Len(u) : l[i] = u[i]) /\ l[Len(u) + 1] = n + 1
  BY <1>1, AppendProperties
<1>4. l = u \o <<n + 1>>
  BY <1>1, AppendIsConcat
<1> HIDE DEF l
<1>5. Len(l) = Len(r) /\ \A i \in 1..Len(l) : l[i] = r[i]
  <2>1. Len(l) = Len(r) /\ Len(l) = z + n - k + 1
    BY <1>1, <1>2, <1>3
  <2>2. ASSUME NEW i \in 1..z + n - k + 1 PROVE l[i] = r[i]
    <3>1. CASE i \in 1..z + n - k
      <4>1. i \in 1..z + (n + 1) - k
        BY <3>1
      <4> QED
        BY <1>1, <1>2, <1>3, <3>1, <4>1
    <3>2. CASE i = z + n - k + 1
      <4>1. i \in 1..z + (n + 1) - k /\ ~(i <= z) /\ k + i - z = n + 1
        BY <3>2
      <4> QED
        BY <1>1, <1>2, <1>3, <3>2, <4>1
    <3> QED
      BY <3>1, <3>2
  <2> QED
    BY <2>1, <2>2
<1>6. l = r
  BY <1>2, <1>3, <1>5, SeqEqual
<1> QED
  BY <1>4, <1>6 DEF u, r

LEMMA RecordRead ==
  ASSUME NEW k \in Nat
  PROVE  BytesOf(k) \o <<2 * (k + 1) - 1, 2 * (k + 1)>> = BytesOf(k + 1)
<1> DEFINE b == BytesOf(k)  two == <<2 * (k + 1) - 1, 2 * (k + 1)>>  l == b \o two  r == BytesOf(k + 1)
<1>1. b \in Seq(Nat) /\ Len(b) = 2 * k /\ \A i \in 1..2 * k : b[i] = i
  BY BytesAre
<1>2. r \in Seq(Nat) /\ Len(r) = 2 * (k + 1) /\ \A i \in 1..2 * (k + 1) : r[i] = i
  BY BytesAre
<1>3. two \in Seq(Nat) /\ Len(two) = 2 /\ two[1] = 2 * k + 1 /\ two[2] = 2 * k + 2
  <2>1. 2 * (k + 1) - 1 = 2 * k + 1 /\ 2 * (k + 1) = 2 * k + 2 /\ 2 * k + 1 \in Nat /\ 2 * k + 2 \in Nat
    OBVIOUS
  <2> QED
    BY <2>1
<1> HIDE DEF b, r, two
<1>4. l \in Seq(Nat) /\ Len(l) = 2 * k + 2
      /\ \A i \in 1..2 * k + 2 : l[i] = IF i <= 2 * k THEN b[i] ELSE two[i - 2 * k]
  <2>1. b \in Seq(Nat) /\ two \in Seq(Nat) /\ Len(b) + Len(two) = 2 * k + 2 /\ Len(b) = 2 * k
    BY <1>1, <1>3
  <2>2. /\ l \in Seq(Nat) /\ Len(l) = Len(b) + Len(two)
        /\ \A i \in 1..Len(b) + Len(two) : l[i] = IF i <= Len(b) THEN b[i] ELSE two[i - Len(b)]
    BY <2>1, ConcatProperties
  <2> QED
    BY <2>1, <2>2
<1> HIDE DEF l
<1>5. \A i \in 1..2 * k + 2 : l[i] = r[i]
  <2> SUFFICES ASSUME NEW i \in 1..2 * k + 2 PROVE l[i] = r[i]
    OBVIOUS
  <2>1. i \in 1..2 * (k + 1) /\ r[i] = i
    BY <1>2
  <2>2. CASE i <= 2 * k
    BY <1>1, <1>4, <2>1, <2>2
  <2>3. CASE i = 2 * k + 1 \/ i = 2 * k + 2
    <3>1. ~(i <= 2 * k) /\ (i = 2 * k + 1 => i - 2 * k = 1) /\ (i = 2 * k + 2 => i - 2 * k = 2)
      BY <2>3
    <3> QED
      BY <1>3, <1>4, <2>1, <2>3, <3>1
  <2>4. i <= 2 * k \/ i = 2 * k + 1 \/ i = 2 * k + 2
    OBVIOUS
  <2> QED
    BY <2>2, <2>3, <2>4
<1>6. l = r
  <2>1. 2 * (k + 1) = 2 * k + 2
    OBVIOUS
  <2> QED
    BY <1>2, <1>4, <1>5, <2>1, SeqEqual
<1> QED
  BY <1>6 DEF l, b, r, two

LEMMA OneSent == ASSUME NEW m \in Nat PROVE Sent(m) \o <<m>> = Sent(m + 1)
<1> DEFINE u == Sent(m)  l == Append(u, m)  r == Sent(m + 1)
<1>1. u \in Seq(Nat) /\ Len(u) = m /\ \A i \in 1..m : u[i] = i - 1
  BY SentAre
<1>2. r \in Seq(Nat) /\ Len(r) = m + 1 /\ \A i \in 1..m + 1 : r[i] = i - 1
  BY SentAre
<1> HIDE DEF u, r
<1>3. l \in Seq(Nat) /\ Len(l) = m + 1 /\ (\A i \in 1..m : l[i] = u[i]) /\ l[m + 1] = m
  BY <1>1, AppendProperties
<1>4. l = u \o <<m>>
  BY <1>1, AppendIsConcat
<1> HIDE DEF l
<1>5. l = r
  BY <1>1, <1>2, <1>3, SeqEqual
<1> QED
  BY <1>4, <1>5 DEF u, r

-----------------------------------------------------------------------------
\* A session in which nothing is lost: k of the server's n records have been
\* decrypted, g and what is pending are their bytes, and z units of its flight are to
\* come; the client's units are those of its handshake and of its w records.
Sessions == [state : {"handshaking", "connected"}, in : Streams, out : Streams, flights : 0..Flight,
             pending : Seq(Nat), arriving : Seq(Nat), sent : Seq(Nat), bye : BOOLEAN]

ToCome(s)  == T!Unread(s.in) \o s.arriving
HasGone(s) == s.sent \o T!Unread(s.out)

IsSession(s) ==
  /\ s \in Sessions /\ IsStream(s.in) /\ IsStream(s.out) /\ Len(s.pending) <= 1
  /\ s.state = "handshaking" => ~T!Done(s) /\ ~s.bye

Flow(s, g, n) ==
  \E k \in 0..n, z \in 0..Flight :
    /\ g \o s.pending = BytesOf(k) /\ ToCome(s) = Units(z, k, n)
    /\ z = Flight - s.flights \/ (z = 0 /\ s.flights = 0 /\ n = k)
    /\ ~T!Done(s) => k = 0

Goes(s, w) ==
  /\ HasGone(s) = (IF T!Done(s) THEN Sent(w + 2) ELSE << 0 >>) \o (IF s.bye THEN <<Bye>> ELSE <<>>)
  /\ ~T!Done(s) => w = 0

Good(s, g, n, w) == IsSession(s) /\ Flow(s, g, n) /\ Goes(s, w)

LEMMA TlsConstants == Flight \in Nat \ {0} /\ Room \in Nat \ {0} /\ {MaxRecords, Reserved, Slack, Bye} \subseteq Nat
BY ServerAssumption DEF T!TlsAssumption

\* What moves bytes only is no matter.
LEMMA MovedGood ==
  ASSUME NEW s, NEW t, NEW g, NEW n, NEW w, Good(s, g, n, w),
         t \in Sessions, IsStream(t.in), IsStream(t.out),
         t.state = s.state, t.flights = s.flights, t.pending = s.pending, t.bye = s.bye,
         ToCome(t) = ToCome(s), HasGone(t) = HasGone(s)
  PROVE  Good(t, g, n, w)
<1>1. T!Done(t) <=> T!Done(s)
  BY DEF T!Done
<1>2. IsSession(t)
  BY <1>1 DEF Good, IsSession
<1>3. Flow(t, g, n)
  BY <1>1 DEF Good, Flow
<1>4. Goes(t, w)
  BY <1>1 DEF Good, Goes
<1> QED
  BY <1>2, <1>3, <1>4 DEF Good

LEMMA Regrouped ==
  ASSUME NEW u \in Seq(Nat), NEW v \in Seq(Nat), NEW w \in Seq(Nat)
  PROVE  (u \o v) \o w = u \o (v \o w)
BY ConcatAssociative

LEMMA TakenGood ==
  ASSUME NEW s, NEW g, NEW n, NEW w, Good(s, g, n, w)
  PROVE  Good(T!Taken(s), g, n, w)
<1> DEFINE b == T!WithRoom(s.in)
<1>1. s \in Sessions /\ IsStream(s.in) /\ IsStream(s.out)
  BY DEF Good, IsSession
<1>2. IsStream(b) /\ T!Unread(b) = T!Unread(s.in) /\ T!Space(b) \in Nat
  BY <1>1, RoomUnread
<1> HIDE DEF b
<1>3. PICK a \in Seq(Nat) : a = s.arriving
  BY <1>1 DEF Sessions
<1> DEFINE m == IF T!Space(b) < Len(a) THEN T!Space(b) ELSE Len(a)
           first == SubSeq(a, 1, m)
           rest == T!From(a, m)
           c == T!AddedToTail(b, first)
<1>4. m \in 0..Len(a)
  BY <1>2
<1>5. T!Taken(s) = [s EXCEPT !.in = c, !.arriving = rest]
  BY <1>1, <1>3 DEF T!Taken, T!From, Sessions, b
<1> HIDE DEF m
<1>6. rest \in Seq(Nat) /\ first \in Seq(Nat) /\ first \o rest = a
  BY <1>4, FromProperties
<1> HIDE DEF rest, first
<1>7. b.bytes \o first \in Seq(Nat)
  <2>1. b.bytes \in Seq(Nat)
    BY <1>2 DEF IsStream, Streams
  <2> QED
    BY <1>6, <2>1, ConcatProperties
<1>8. c \in Streams /\ c.bytes = b.bytes \o first /\ c.offset = b.offset
  BY <1>2, <1>7 DEF IsStream, Streams, T!AddedToTail
<1> HIDE DEF c
<1>9. IsStream(c) /\ T!Unread(c) = T!Unread(s.in) \o first
  BY <1>2, <1>6, <1>8, AddUnread
<1>10. T!Unread(c) \o rest = T!Unread(s.in) \o a
  <2>1. PICK u \in Seq(Nat) : u = T!Unread(s.in)
    BY <1>1, UnreadIs
  <2>2. (u \o first) \o rest = u \o (first \o rest)
    BY <1>6, <2>1, Regrouped
  <2> QED
    BY <1>6, <1>9, <2>1, <2>2
<1> DEFINE t == T!Taken(s)
<1>11. /\ t \in Sessions /\ t.in = c /\ t.arriving = rest /\ t.out = s.out /\ t.sent = s.sent
       /\ t.state = s.state /\ t.flights = s.flights /\ t.pending = s.pending /\ t.bye = s.bye
  BY <1>1, <1>5, <1>6, <1>8 DEF Sessions
<1> HIDE DEF t
<1>12. ToCome(t) = ToCome(s) /\ HasGone(t) = HasGone(s) /\ IsStream(t.in) /\ IsStream(t.out)
  BY <1>1, <1>3, <1>9, <1>10, <1>11 DEF ToCome, HasGone
<1>13. Good(t, g, n, w)
  BY <1>11, <1>12, MovedGood
<1> QED
  BY <1>13 DEF t

\* A unit is pushed behind all that has gone out.
LEMMA Pushed ==
  ASSUME NEW s \in Sessions, IsStream(s.out), NEW u \in Nat
  PROVE  /\ T!Push(s, u) \in Sessions /\ IsStream(T!Push(s, u).out)
         /\ T!Push(s, u) = [s EXCEPT !.out = T!BufferWrite(s.out, <<u>>)]
         /\ HasGone(T!Push(s, u)) = HasGone(s) \o <<u>>
<1> DEFINE c == T!BufferWrite(s.out, <<u>>)
<1>1. <<u>> \in Seq(Nat)
  OBVIOUS
<1>2. IsStream(c) /\ T!Unread(c) = T!Unread(s.out) \o <<u>>
  BY <1>1, WriteUnread
<1>3. T!Push(s, u) = [s EXCEPT !.out = c]
  BY DEF T!Push, Sessions
<1> HIDE DEF c
<1> DEFINE t == T!Push(s, u)
<1>4. t \in Sessions /\ t.out = c /\ t.sent = s.sent
  BY <1>2, <1>3 DEF Sessions, IsStream
<1> HIDE DEF t
<1>5. PICK x \in Seq(Nat), y \in Seq(Nat) : x = s.sent /\ y = T!Unread(s.out)
  BY UnreadIs DEF Sessions
<1>6. (x \o y) \o <<u>> = x \o (y \o <<u>>)
  BY <1>1, ConcatAssociative
<1>7. HasGone(t) = HasGone(s) \o <<u>> /\ IsStream(t.out)
  BY <1>2, <1>4, <1>5, <1>6 DEF HasGone
<1> QED
  BY <1>3, <1>4, <1>7 DEF t, c

\* The handshake takes no more than is left of the flight, and ends with the client's.
LEMMA ShakenGood ==
  ASSUME NEW s, NEW g, NEW n \in Nat, NEW w, Good(s, g, n, w)
  PROVE  Good(T!Shaken(s), g, n, w)
<1>1. CASE T!Unread(s.in) = <<>> \/ s.state # "handshaking"
  BY <1>1 DEF T!Shaken
<1>2. CASE T!Unread(s.in) # <<>> /\ s.state = "handshaking"
  <2>1. s \in Sessions /\ IsStream(s.in) /\ IsStream(s.out) /\ Len(s.pending) <= 1 /\ ~T!Done(s) /\ ~s.bye
    BY <1>2 DEF Good, IsSession
  <2>2. PICK f \in 0..Flight : f = s.flights /\ f # Flight
    BY <2>1 DEF Sessions, T!Done
  <2>3. PICK u \in Seq(Nat), a \in Seq(Nat) : u = T!Unread(s.in) /\ a = s.arriving /\ u # <<>>
    BY <1>2, <2>1, UnreadIs DEF Sessions
  <2>4. PICK k \in 0..n, z \in 0..Flight :
          /\ g \o s.pending = BytesOf(k) /\ u \o a = Units(z, k, n)
          /\ z = Flight - f \/ (z = 0 /\ f = 0 /\ n = k)
          /\ k = 0
    BY <2>1, <2>2, <2>3 DEF Good, Flow, ToCome
  <2>5. Len(u) > 0 /\ Len(u \o a) = Len(u) + Len(a) /\ Len(u) \in Nat /\ Len(a) \in Nat
    BY <2>3, ConcatProperties
  <2>6. Flight \in Nat /\ Len(Units(z, k, n)) = z + n - k
    BY TlsConstants, UnitsAre
  <2>7. z = Flight - f
    BY <2>4, <2>5, <2>6
  <2> DEFINE j == IF Flight - f < Len(u) THEN Flight - f ELSE Len(u)
             x == T!Advance(s.in, j)
             to == [s EXCEPT !.in = x, !.flights = f + j]
  <2>8. j \in 0..z /\ j \in 0..Len(u) /\ j \in Nat /\ f + j \in 0..Flight /\ z - j \in 0..Flight /\ z - j = Flight - (f + j)
    BY <2>5, <2>6, <2>7
  <2>9. T!Handshake(s) = IF T!Done(to) THEN T!Push(to, 1) ELSE to
    BY <2>1, <2>2, <2>3 DEF T!Handshake, Sessions
  <2> HIDE DEF j
  <2>10. IsStream(x) /\ T!Unread(x) = T!From(u, j)
    BY <2>1, <2>3, <2>8, AdvanceUnread
  <2> HIDE DEF x
  <2>11. T!From(u, j) \o a = Units(z - j, k, n)
    <3>1. T!From(u \o a, j) = T!From(u, j) \o a
      BY <2>8, FromConcat
    <3>2. T!From(Units(z, k, n), j) = Units(z - j, k, n)
      BY <2>8, UnitsPulled
    <3> QED
      BY <2>4, <3>1, <3>2
  <2>12. /\ to \in Sessions /\ to.in = x /\ to.flights = f + j /\ to.out = s.out /\ to.sent = s.sent
         /\ to.pending = s.pending /\ to.arriving = a /\ to.bye = s.bye /\ to.state = s.state
    BY <2>1, <2>2, <2>3, <2>8, <2>10 DEF Sessions, IsStream
  <2> HIDE DEF to
  <2> DEFINE over == T!Done(to)
             h == T!Handshake(s)
             r == [h EXCEPT !.state = IF T!Done(h) THEN "connected" ELSE "handshaking"]
  <2>13. T!Shaken(s) = r
    BY <1>2 DEF T!Shaken
  <2>14. HasGone(s) = << 0 >> \o <<>> /\ w = 0
    BY <2>1 DEF Good, Goes
  <2>15. HasGone(s) = << 0 >>
    BY <2>14
  <2>16. HasGone(to) = HasGone(s)
    BY <2>12 DEF HasGone
  <2>17. /\ h \in Sessions /\ h.in = x /\ h.flights = f + j /\ IsStream(h.out)
         /\ h.pending = s.pending /\ h.arriving = a /\ h.bye = s.bye
         /\ HasGone(h) = IF over THEN << 0 >> \o << 1 >> ELSE << 0 >>
    <3>1. CASE over
      <4>1. IsStream(to.out) /\ 1 \in Nat
        BY <2>1, <2>12
      <4>2. /\ T!Push(to, 1) \in Sessions /\ IsStream(T!Push(to, 1).out)
            /\ T!Push(to, 1) = [to EXCEPT !.out = T!BufferWrite(to.out, << 1 >>)]
            /\ HasGone(T!Push(to, 1)) = HasGone(to) \o << 1 >>
        BY <2>12, <4>1, Pushed
      <4>3. h = T!Push(to, 1)
        BY <2>9, <3>1
      <4>4. h.in = to.in /\ h.flights = to.flights /\ h.pending = to.pending /\ h.arriving = to.arriving /\ h.bye = to.bye
        BY <2>12, <4>2, <4>3 DEF Sessions
      <4> QED
        BY <2>12, <2>15, <2>16, <3>1, <4>2, <4>3, <4>4
    <3>2. CASE ~over
      BY <2>1, <2>9, <2>12, <2>15, <2>16, <3>2
    <3> QED
      BY <3>1, <3>2
  <2>18. T!Done(h) <=> over
    BY <2>12, <2>17 DEF T!Done
  <2> HIDE DEF h, over
  <2>19. /\ r \in Sessions /\ r.in = x /\ r.flights = f + j /\ r.out = h.out /\ r.sent = h.sent
         /\ r.pending = s.pending /\ r.arriving = a /\ r.bye = s.bye
         /\ r.state = IF over THEN "connected" ELSE "handshaking"
    BY <2>17, <2>18 DEF Sessions
  <2> HIDE DEF r
  <2>20. (T!Done(r) <=> over) /\ HasGone(r) = HasGone(h)
    BY <2>17, <2>18, <2>19 DEF T!Done, HasGone
  <2>21. IsSession(r)
    BY <2>1, <2>10, <2>17, <2>19, <2>20 DEF IsSession
  <2>22. Flow(r, g, n)
    <3>1. ToCome(r) = Units(z - j, k, n)
      BY <2>10, <2>11, <2>19 DEF ToCome
    <3> QED
      BY <2>4, <2>8, <2>19, <3>1 DEF Flow
  <2>23. Goes(r, w)
    <3>1. Sent(w + 2) = << 0 >> \o << 1 >> /\ Sent(w + 2) \in Seq(Nat)
      <4>1. Sent(1) = << 0 >>
        <5>1. Sent(1) \in Seq(Nat) /\ Len(Sent(1)) = 1 /\ \A i \in 1..1 : Sent(1)[i] = i - 1
          BY SentAre
        <5>2. Sent(1)[1] = 0
          BY <5>1
        <5> QED
          BY <5>1, <5>2
      <4>2. Sent(1) \o << 1 >> = Sent(1 + 1)
        BY OneSent
      <4>3. 1 + 1 = w + 2 /\ w + 2 \in Nat
        BY <2>14
      <4> QED
        BY <4>1, <4>2, <4>3, SentAre
    <3>2. HasGone(r) = IF over THEN Sent(w + 2) ELSE << 0 >>
      BY <2>17, <2>20, <3>1
    <3>3. (IF over THEN Sent(w + 2) ELSE << 0 >>) \in Seq(Nat)
      BY <3>1
    <3>4. (IF over THEN Sent(w + 2) ELSE << 0 >>) \o <<>> = IF over THEN Sent(w + 2) ELSE << 0 >>
      BY <3>3, ConcatEmptySeq
    <3> QED
      BY <2>1, <2>14, <2>19, <2>20, <3>2, <3>4 DEF Goes
  <2> QED
    BY <2>13, <2>21, <2>22, <2>23 DEF Good
<1> QED
  BY <1>1, <1>2

\* What the network takes of outbuffer has gone.
LEMMA PumpWriteGood ==
  ASSUME NEW s, NEW g, NEW n, NEW w, Good(s, g, n, w), NEW t \in T!PumpWrite(s)
  PROVE  t = T!NoSession \/ (Good(t, g, n, w) /\ t.state = s.state /\ t.flights = s.flights)
<1>1. s \in Sessions /\ IsStream(s.in) /\ IsStream(s.out)
  BY DEF Good, IsSession
<1>2. CASE t = s
  BY <1>2
<1>3. CASE t = T!NoSession
  BY <1>3
<1>4. ASSUME NEW m \in 1..Len(T!Unread(s.out)),
             t = [s EXCEPT !.out = T!Advance(s.out, m), !.sent = s.sent \o SubSeq(T!Unread(s.out), 1, m)]
      PROVE  Good(t, g, n, w) /\ t.state = s.state /\ t.flights = s.flights
  <2>1. PICK u \in Seq(Nat), x \in Seq(Nat) : u = T!Unread(s.out) /\ x = s.sent
    BY <1>1, UnreadIs DEF Sessions
  <2>2. u \in Seq(Nat) /\ m \in 0..Len(u)
    BY <2>1
  <2> DEFINE c == T!Advance(s.out, m)  first == SubSeq(u, 1, m)  rest == T!From(u, m)
  <2>3. IsStream(c) /\ T!Unread(c) = rest
    <3>1. m \in 0..Len(T!Unread(s.out))
      BY <2>1, <2>2
    <3> QED
      BY <1>1, <2>1, <3>1, AdvanceUnread
  <2>4. first \in Seq(Nat) /\ rest \in Seq(Nat) /\ first \o rest = u
    BY <2>2, FromProperties
  <2>5. t = [s EXCEPT !.out = c, !.sent = x \o first]
    BY <1>4, <2>1
  <2> HIDE DEF c, first, rest
  <2>6. x \o first \in Seq(Nat) /\ (x \o first) \o rest = x \o u
    <3>1. x \o first \in Seq(Nat)
      BY <2>1, <2>4, ConcatProperties
    <3>2. (x \o first) \o rest = x \o (first \o rest)
      BY <2>1, <2>4, Regrouped
    <3> QED
      BY <2>4, <3>1, <3>2
  <2>7. /\ t \in Sessions /\ t.in = s.in /\ t.arriving = s.arriving /\ t.out = c /\ t.sent = x \o first
        /\ t.state = s.state /\ t.flights = s.flights /\ t.pending = s.pending /\ t.bye = s.bye
    BY <1>1, <2>3, <2>5, <2>6 DEF Sessions, IsStream
  <2>8. ToCome(t) = ToCome(s) /\ HasGone(t) = HasGone(s) /\ IsStream(t.in) /\ IsStream(t.out)
    BY <1>1, <2>1, <2>3, <2>6, <2>7 DEF ToCome, HasGone
  <2> QED
    BY <2>7, <2>8, MovedGood
<1> QED
  BY <1>2, <1>3, <1>4 DEF T!PumpWrite

LEMMA PumpReadGood ==
  ASSUME NEW s, NEW g, NEW n \in Nat, NEW w, Good(s, g, n, w), NEW r \in T!PumpRead(s)
  PROVE  r.to = T!NoSession \/ Good(r.to, g, n, w)
<1>1. s.state # "none"
  BY DEF Good, IsSession, Sessions
<1>2. r.to = T!NoSession \/ r.to = T!Shaken(T!Taken(s))
  BY <1>1 DEF T!PumpRead
<1>3. Good(T!Shaken(T!Taken(s)), g, n, w)
  BY TakenGood, ShakenGood
<1> QED
  BY <1>2, <1>3

\* The library gives what is left of a record, or the next one.
LEMMA ReceivedGood ==
  ASSUME NEW s, NEW g \in Seq(Nat), NEW n \in Nat, NEW w, Good(s, g, n, w), T!Done(s), NEW maxlen \in 1..2
  PROVE  LET r == T!Received(s, maxlen)
         IN  r.bytes \in Seq(Nat) /\ Good(r.to, g \o r.bytes, n, w)
<1>1. s \in Sessions /\ IsStream(s.in) /\ IsStream(s.out) /\ Len(s.pending) <= 1 /\ s.flights = Flight
  BY DEF Good, IsSession, T!Done
<1>2. PICK u \in Seq(Nat), a \in Seq(Nat), p \in Seq(Nat) : u = T!Unread(s.in) /\ a = s.arriving /\ p = s.pending
  BY <1>1, UnreadIs DEF Sessions
<1>3. PICK k \in 0..n, z \in 0..Flight :
        /\ g \o p = BytesOf(k) /\ u \o a = Units(z, k, n)
        /\ z = Flight - s.flights \/ (z = 0 /\ s.flights = 0 /\ n = k)
  BY <1>2 DEF Good, Flow, ToCome
<1>4. z = 0 /\ k \in Nat /\ u \o a = Units(0, k, n)
  BY <1>1, <1>3, TlsConstants
<1> DEFINE plain == IF p # <<>> THEN p ELSE IF u = <<>> THEN <<>> ELSE <<2 * Head(u) - 1, 2 * Head(u)>>
           in == IF p # <<>> THEN s.in ELSE T!Advance(s.in, 1)
           late == IF p # <<>> \/ u = <<>> THEN k ELSE k + 1
\* The bytes that come next, the records behind them, and what is left in inbuffer.
<1>5. /\ plain \in Seq(Nat) /\ Len(plain) <= 2 /\ late \in 0..n /\ g \o plain = BytesOf(late)
      /\ IsStream(in) /\ T!Unread(in) \o a = Units(0, late, n)
  <2>1. CASE p # <<>>
    <3>1. plain = p /\ in = s.in /\ late = k
      BY <2>1
    <3> HIDE DEF plain, in, late
    <3>2. plain \in Seq(Nat) /\ Len(plain) <= 2 /\ late \in 0..n /\ g \o plain = BytesOf(late)
      BY <1>1, <1>2, <1>3, <3>1
    <3> QED
      BY <1>1, <1>2, <1>4, <3>1, <3>2
  <2>2. CASE p = <<>> /\ u = <<>>
    <3>1. T!Advance(s.in, 1) = s.in
      <4>1. PICK v \in Seq(Nat), o \in Nat : v = s.in.bytes /\ o = s.in.offset /\ o \in 0..Len(v)
        BY <1>1 DEF IsStream, Streams
      <4>2. v \in Seq(Nat) /\ o \in 0..Len(v)
        BY <4>1
      <4>3. Len(T!From(v, o)) = Len(v) - o
        BY <4>2, FromProperties
      <4>4. Len(v) - o = 0
        <5>1. T!From(v, o) = <<>>
          BY <1>2, <2>2, <4>1 DEF T!Unread
        <5> QED
          BY <4>3, <5>1
      <4>5. o + T!Least(1, Len(v) - o) = o
        BY <4>1, <4>4 DEF T!Least
      <4> QED
        BY <1>1, <4>1, <4>5 DEF T!Advance, IsStream, Streams
    <3>2. plain = <<>> /\ in = s.in /\ late = k
      BY <2>2, <3>1
    <3> HIDE DEF plain, in, late
    <3>3. g \o plain = BytesOf(k)
      BY <1>3, <2>2, <3>2
    <3>4. plain \in Seq(Nat) /\ Len(plain) <= 2
      BY <3>2
    <3> QED
      BY <1>1, <1>2, <1>4, <3>2, <3>3, <3>4
  <2>3. CASE p = <<>> /\ u # <<>>
    <3>1. Len(u) > 0 /\ Len(u \o a) = Len(u) + Len(a) /\ Len(u) \in Nat /\ Len(a) \in Nat /\ (u \o a)[1] = u[1]
      BY <2>3, ConcatProperties
    <3>2. Len(Units(0, k, n)) = 0 + n - k /\ Units(0, k, n) \in Seq(Nat)
      BY UnitsAre
    <3>3. k \in 0..n - 1 /\ k + 1 \in 0..n
      BY <1>4, <3>1, <3>2
    <3>4. Head(Units(0, k, n)) = k + 1 /\ T!From(Units(0, k, n), 1) = Units(0, k + 1, n)
      BY <3>3, RecordPulled
    <3>5. Head(u) = k + 1
      <4>1. Head(u) = u[1] /\ Head(Units(0, k, n)) = Units(0, k, n)[1]
        BY <2>3, <3>2
      <4> QED
        BY <1>4, <3>1, <3>4, <4>1
    <3>6. plain = <<2 * (k + 1) - 1, 2 * (k + 1)>> /\ in = T!Advance(s.in, 1) /\ late = k + 1
      BY <2>3, <3>5
    <3>7. plain \in Seq(Nat) /\ Len(plain) = 2
      <4>1. 2 * (k + 1) - 1 \in Nat /\ 2 * (k + 1) \in Nat
        BY <1>4
      <4> QED
        BY <3>6, <4>1
    <3>8. g \o plain = BytesOf(k + 1)
      <4>1. g \o <<>> = g
        BY ConcatEmptySeq
      <4>2. g = BytesOf(k)
        BY <1>3, <2>3, <4>1
      <4> QED
        BY <1>4, <3>6, <4>2, RecordRead
    <3>9. 1 \in 0..Len(u)
      BY <3>1
    <3>10. IsStream(in) /\ T!Unread(in) = T!From(u, 1)
      BY <1>1, <1>2, <3>6, <3>9, AdvanceUnread
    <3>11. T!From(u \o a, 1) = T!From(u, 1) \o a
      BY <3>9, FromConcat
    <3> HIDE DEF plain, in, late
    <3>12. T!Unread(in) \o a = Units(0, k + 1, n)
      BY <1>4, <3>4, <3>10, <3>11
    <3>13. late = k + 1 /\ late \in 0..n /\ plain \in Seq(Nat) /\ Len(plain) <= 2
      BY <3>3, <3>6, <3>7
    <3>14. g \o plain = BytesOf(late) /\ T!Unread(in) \o a = Units(0, late, n)
      BY <3>8, <3>12, <3>13
    <3> QED
      BY <3>10, <3>13, <3>14
  <2> QED
    BY <2>1, <2>2, <2>3
<1> DEFINE m == IF maxlen < Len(plain) THEN maxlen ELSE Len(plain)
           first == SubSeq(plain, 1, m)
           rest == SubSeq(plain, m + 1, Len(plain))
           r == T!Received(s, maxlen)
<1>6. r = [bytes |-> first, to |-> [s EXCEPT !.pending = rest, !.in = in]]
  BY <1>1, <1>2 DEF T!Received, Sessions
<1> HIDE DEF plain, in, late, r
<1>7. m \in 0..Len(plain) /\ Len(plain) - m <= 1
  BY <1>5
<1>8. first \in Seq(Nat) /\ rest \in Seq(Nat) /\ Len(rest) <= 1 /\ first \o rest = plain
  <2>1. PICK q \in Seq(Nat) : q = plain
    BY <1>5
  <2>2. m \in 0..Len(q)
    BY <1>7, <2>1
  <2>3. /\ T!From(q, m) \in Seq(Nat) /\ Len(T!From(q, m)) = Len(q) - m
        /\ SubSeq(q, 1, m) \in Seq(Nat) /\ SubSeq(q, 1, m) \o T!From(q, m) = q
    BY <2>2, FromProperties
  <2> QED
    BY <1>7, <2>1, <2>3 DEF T!From
<1> HIDE DEF m, first, rest
<1> DEFINE t == r.to
<1>9. /\ t \in Sessions /\ t.in = in /\ t.pending = rest /\ t.out = s.out /\ t.sent = s.sent /\ t.arriving = s.arriving
      /\ t.state = s.state /\ t.flights = s.flights /\ t.bye = s.bye /\ r.bytes = first
  BY <1>1, <1>5, <1>6, <1>8 DEF Sessions, IsStream
<1> HIDE DEF t
<1>10. T!Done(t) /\ HasGone(t) = HasGone(s)
  BY <1>1, <1>9 DEF T!Done, HasGone
<1>11. IsSession(t)
  BY <1>1, <1>5, <1>8, <1>9, <1>10 DEF Good, IsSession
<1>12. Flow(t, g \o first, n)
  <2>1. (g \o first) \o rest = BytesOf(late)
    BY <1>5, <1>8, Regrouped
  <2>2. ToCome(t) = Units(0, late, n)
    BY <1>2, <1>5, <1>9 DEF ToCome
  <2>3. 0 \in 0..Flight /\ 0 = Flight - t.flights
    BY <1>1, <1>9, TlsConstants
  <2> QED
    BY <1>5, <1>9, <1>10, <2>1, <2>2, <2>3 DEF Flow
<1>13. Goes(t, w)
  BY <1>9, <1>10 DEF Good, Goes
<1> QED
  BY <1>8, <1>9, <1>11, <1>12, <1>13 DEF Good, t, r

-----------------------------------------------------------------------------
\* There is no session, or a good one.
TlsInv ==
  /\ served \in 0..MaxRecords /\ wrote \in 0..MaxRecords /\ got \in Seq(Nat)
  /\ tls = T!NoSession \/ Good(tls, got, served, wrote)

\* A unit is pushed: what it makes of a good session.
LEMMA PushedGood ==
  ASSUME NEW s, NEW g, NEW n, NEW w, NEW v, Good(s, g, n, w), NEW u \in Nat, NEW t \in Sessions,
         t.in = s.in, t.arriving = s.arriving, t.out = s.out, t.sent = s.sent, t.flights = s.flights,
         t.pending = s.pending, t.state = "connected",
         HasGone(s) \o <<u>> = (IF T!Done(t) THEN Sent(v + 2) ELSE << 0 >>) \o (IF t.bye THEN <<Bye>> ELSE <<>>),
         ~T!Done(t) => v = 0
  PROVE  Good(T!Push(t, u), g, n, v)
<1> DEFINE r == T!Push(t, u)
<1>1. IsStream(s.in) /\ IsStream(t.out) /\ Len(s.pending) <= 1
  BY DEF Good, IsSession
<1>2. /\ r \in Sessions /\ IsStream(r.out) /\ r = [t EXCEPT !.out = T!BufferWrite(t.out, <<u>>)]
      /\ HasGone(r) = HasGone(t) \o <<u>>
  BY <1>1, Pushed
<1> HIDE DEF r
<1>3. /\ r.in = s.in /\ r.arriving = s.arriving /\ r.flights = t.flights /\ r.flights = s.flights
      /\ r.pending = s.pending /\ r.state = "connected" /\ r.bye = t.bye
  BY <1>2 DEF Sessions
<1>4. (T!Done(r) <=> T!Done(t)) /\ (T!Done(r) <=> T!Done(s)) /\ ToCome(r) = ToCome(s) /\ HasGone(t) = HasGone(s)
  BY <1>3 DEF T!Done, ToCome, HasGone
<1>5. IsSession(r)
  BY <1>1, <1>2, <1>3 DEF IsSession
<1>6. Flow(r, g, n)
  BY <1>3, <1>4 DEF Good, Flow
<1>7. Goes(r, v)
  BY <1>2, <1>3, <1>4 DEF Goes
<1>8. Good(r, g, n, v)
  BY <1>5, <1>6, <1>7 DEF Good
<1> QED
  BY <1>8 DEF r

LEMMA TlsInit == ASSUME T!Init PROVE TlsInv
<1>1. served = 0 /\ wrote = 0 /\ got = <<>> /\ 0 \in 0..MaxRecords /\ 0 \in 0..Flight /\ 0 \in Nat /\ Flight # 0 /\ Reserved \in Nat
  BY TlsConstants DEF T!Init
<1>2. CASE tls = T!NoSession
  BY <1>1, <1>2 DEF TlsInv
<1>3. CASE tls = T!Opened
  <2> DEFINE b == T!NewBuffer(Reserved)  c == T!BufferWrite(b, << 0 >>)
  <2>1. IsStream(b) /\ T!Unread(b) = <<>>
    BY <1>1 DEF IsStream, Streams, T!NewBuffer, T!Unread, T!From
  <2> HIDE DEF b
  <2>2. IsStream(c) /\ T!Unread(c) = <<>> \o << 0 >>
    <3>1. << 0 >> \in Seq(Nat)
      OBVIOUS
    <3> QED
      BY <2>1, <3>1, WriteUnread
  <2>3. <<>> \o << 0 >> = << 0 >> /\ <<>> \o <<>> = <<>>
    OBVIOUS
  <2>4. T!Opened = [T!NoSession EXCEPT !.state = "handshaking", !.in = b, !.out = c]
    BY DEF T!Opened, b
  <2> HIDE DEF c
  <2> DEFINE s == T!Opened
  <2>5. /\ s.state = "handshaking" /\ s.in = b /\ s.out = c /\ s.flights = 0 /\ s.pending = <<>>
        /\ s.arriving = <<>> /\ s.sent = <<>> /\ s.bye = FALSE
    BY <2>4 DEF T!NoSession
  <2>6. s \in Sessions
    <3>1. <<>> \in Seq(Nat) /\ b \in Streams /\ c \in Streams /\ FALSE \in BOOLEAN
      BY <2>1, <2>2 DEF IsStream
    <3> QED
      BY <1>1, <2>4, <3>1 DEF Sessions, T!NoSession
  <2> HIDE DEF s
  <2>7. ~T!Done(s)
    BY <1>1, <2>5 DEF T!Done
  <2>8. IsSession(s)
    BY <2>1, <2>2, <2>5, <2>6, <2>7 DEF IsSession
  <2>9. Flow(s, <<>>, 0)
    <3>1. BytesOf(0) = <<>>
      <4>1. BytesOf(0) \in Seq(Nat) /\ Len(BytesOf(0)) = 0
        BY BytesAre
      <4> QED
        BY <4>1
    <3>2. Units(0, 0, 0) = <<>>
      <4>1. 0 \in 0..0
        OBVIOUS
      <4>2. Units(0, 0, 0) \in Seq(Nat) /\ Len(Units(0, 0, 0)) = 0
        BY <4>1, UnitsAre
      <4> QED
        BY <4>2
    <3>3. ToCome(s) = <<>>
      BY <2>1, <2>3, <2>5 DEF ToCome
    <3>4. 0 \in 0..0 /\ <<>> \o s.pending = <<>>
      BY <2>3, <2>5
    <3> QED
      BY <1>1, <2>5, <3>1, <3>2, <3>3, <3>4 DEF Flow
  <2>10. Goes(s, 0)
    <3>1. HasGone(s) = << 0 >> /\ << 0 >> \o <<>> = << 0 >>
      BY <2>2, <2>3, <2>5 DEF HasGone
    <3> QED
      BY <2>5, <2>7, <3>1 DEF Goes
  <2>11. Good(tls, got, served, wrote)
    BY <1>1, <1>3, <2>8, <2>9, <2>10 DEF Good, s
  <2> QED
    BY <1>1, <2>11 DEF TlsInv
<1> QED
  BY <1>2, <1>3 DEF T!Init

\* The socket's calls, which pump the session.
LEMMA TlsPolled == ASSUME TlsInv, T!Socket PROVE TlsInv'
<1>1. /\ served \in Nat /\ got \in Seq(Nat) /\ served' = served /\ wrote' = wrote
      /\ served \in 0..MaxRecords /\ wrote \in 0..MaxRecords
  BY TlsConstants DEF TlsInv, T!Socket, T!TLSHandshake, T!ReadNonblock
<1>2. T!NoSession.state = "none"
  BY DEF T!NoSession
<1>3. Good(tls, got, served, wrote)
  BY <1>2 DEF TlsInv, T!Socket, T!TLSHandshake, T!ReadNonblock
<1>4. ASSUME NEW r \in T!PumpRead(tls), NEW to \in T!PumpWrite(r.to)
      PROVE  to = T!NoSession \/ Good(to, got, served, wrote)
  <2>1. r.to = T!NoSession \/ Good(r.to, got, served, wrote)
    BY <1>1, <1>3, PumpReadGood
  <2>2. CASE r.to = T!NoSession
    BY <1>2, <2>2 DEF T!PumpWrite
  <2>3. CASE Good(r.to, got, served, wrote)
    BY <2>3, PumpWriteGood
  <2> QED
    BY <2>1, <2>2, <2>3
<1>5. CASE T!TLSHandshake
  <2>1. got' = got
    BY <1>5 DEF T!TLSHandshake
  <2>2. tls' = T!NoSession \/ Good(tls', got, served, wrote)
    BY <1>4, <1>5 DEF T!TLSHandshake
  <2> QED
    BY <1>1, <2>1, <2>2 DEF TlsInv
<1>6. ASSUME NEW maxlen \in 1..2, T!ReadNonblock(maxlen) PROVE TlsInv'
  <2>1. PICK r \in T!PumpRead(tls) : \E to \in T!PumpWrite(r.to) :
          \E result \in (IF r.pumped THEN T!Read(to, maxlen) ELSE {[to |-> to, bytes |-> <<>>]}) :
            tls' = result.to /\ got' = got \o result.bytes
    BY <1>6 DEF T!ReadNonblock
  <2>2. PICK to \in T!PumpWrite(r.to) :
          \E result \in (IF r.pumped THEN T!Read(to, maxlen) ELSE {[to |-> to, bytes |-> <<>>]}) :
            tls' = result.to /\ got' = got \o result.bytes
    BY <2>1
  <2>3. PICK result \in (IF r.pumped THEN T!Read(to, maxlen) ELSE {[to |-> to, bytes |-> <<>>]}) :
            tls' = result.to /\ got' = got \o result.bytes
    BY <2>2
  <2>4. to = T!NoSession \/ Good(to, got, served, wrote)
    BY <1>4, <2>1, <2>2
  <2>5. CASE result.bytes = <<>> /\ (result.to = to \/ result.to = T!NoSession)
    <3>1. got' = got
      <4>1. got \o <<>> = got
        BY <1>1, ConcatEmptySeq
      <4> QED
        BY <2>3, <2>5, <4>1
    <3> QED
      BY <1>1, <2>3, <2>4, <2>5, <3>1 DEF TlsInv
  <2>6. CASE T!Done(to) /\ to.state = "connected" /\ result = T!Received(to, maxlen)
    <3>1. Good(to, got, served, wrote)
      BY <1>2, <2>4, <2>6
    <3>2. result.bytes \in Seq(Nat) /\ Good(result.to, got \o result.bytes, served, wrote)
      BY <1>1, <2>6, <3>1, ReceivedGood
    <3>3. got \o result.bytes \in Seq(Nat)
      BY <1>1, <3>2, ConcatProperties
    <3> QED
      BY <1>1, <2>3, <3>2, <3>3 DEF TlsInv
  <2> QED
    BY <2>3, <2>5, <2>6 DEF T!Read
<1> QED
  BY <1>5, <1>6 DEF T!Socket

\* What the application writes and the alert follow what has gone out before.
LEMMA TlsWritten == ASSUME TlsInv, T!WriteRecord PROVE TlsInv'
<1>1. /\ served' = served /\ got' = got /\ wrote' = wrote + 1 /\ wrote + 1 \in 0..MaxRecords
      /\ served \in 0..MaxRecords /\ got \in Seq(Nat) /\ wrote \in Nat /\ wrote + 2 \in Nat
  BY TlsConstants DEF TlsInv, T!WriteRecord
<1>2. Good(tls, got, served, wrote) /\ tls \in Sessions
  BY DEF TlsInv, T!WriteRecord, T!NoSession, Good, IsSession
<1>3. T!Done(tls) /\ ~tls.bye /\ tls.state = "connected"
  BY DEF T!WriteRecord
<1>4. HasGone(tls) \o <<wrote + 2>> = Sent(wrote + 1 + 2) \o <<>>
  <2>1. Sent(wrote + 2) \in Seq(Nat) /\ Sent(wrote + 2) \o <<wrote + 2>> = Sent(wrote + 2 + 1) /\ wrote + 2 + 1 = wrote + 1 + 2
    <3>1. PICK m \in Nat : m = wrote + 2
      BY <1>1
    <3>2. Sent(m) \in Seq(Nat)
      BY SentAre
    <3>3. Sent(m) \o <<m>> = Sent(m + 1)
      BY OneSent
    <3> QED
      BY <1>1, <3>1, <3>2, <3>3
  <2>2. HasGone(tls) = Sent(wrote + 2) \o <<>>
    BY <1>2, <1>3 DEF Good, Goes
  <2>3. Sent(wrote + 2) \o <<>> = Sent(wrote + 2)
    BY <2>1, ConcatEmptySeq
  <2>4. Sent(wrote + 1 + 2) \in Seq(Nat)
    <3>1. wrote + 1 + 2 \in Nat
      BY <1>1
    <3> QED
      BY <3>1, SentAre
  <2>5. Sent(wrote + 1 + 2) \o <<>> = Sent(wrote + 1 + 2)
    BY <2>4, ConcatEmptySeq
  <2> QED
    BY <2>1, <2>2, <2>3, <2>5
<1>5. Good(T!Push(tls, wrote + 2), got, served, wrote + 1)
  BY <1>1, <1>2, <1>3, <1>4, PushedGood
<1>6. tls' = T!NoSession \/ Good(tls', got, served, wrote + 1)
  BY <1>5, PumpWriteGood DEF T!WriteRecord
<1> QED
  BY <1>1, <1>6 DEF TlsInv

LEMMA TlsShutDown == ASSUME TlsInv, T!Shutdown PROVE TlsInv'
<1>1. /\ served' = served /\ got' = got /\ wrote' = wrote
      /\ served \in 0..MaxRecords /\ got \in Seq(Nat) /\ wrote \in 0..MaxRecords /\ wrote + 2 \in Nat /\ Bye \in Nat
  BY TlsConstants DEF TlsInv, T!Shutdown
<1>2. Good(tls, got, served, wrote) /\ tls \in Sessions /\ ~tls.bye
  BY DEF TlsInv, T!Shutdown, T!NoSession, Good, IsSession
<1> DEFINE t == [tls EXCEPT !.state = "connected", !.bye = TRUE]
<1>3. /\ t \in Sessions /\ t.in = tls.in /\ t.arriving = tls.arriving /\ t.out = tls.out /\ t.sent = tls.sent
      /\ t.flights = tls.flights /\ t.pending = tls.pending /\ t.state = "connected" /\ t.bye = TRUE
  BY <1>2 DEF Sessions
<1>4. tls' \in T!PumpWrite(T!Push(t, Bye))
  BY DEF T!Shutdown
<1> HIDE DEF t
<1>5. T!Done(t) <=> T!Done(tls)
  BY <1>3 DEF T!Done
<1>6. HasGone(tls) \o <<Bye>> = (IF T!Done(t) THEN Sent(wrote + 2) ELSE << 0 >>) \o <<Bye>>
  <2> DEFINE x == IF T!Done(t) THEN Sent(wrote + 2) ELSE << 0 >>
  <2>1. x \in Seq(Nat)
    BY <1>1, SentAre
  <2>2. HasGone(tls) = x \o <<>>
    BY <1>2, <1>5 DEF Good, Goes
  <2> HIDE DEF x
  <2>3. x \o <<>> = x
    BY <2>1, ConcatEmptySeq
  <2>4. HasGone(tls) \o <<Bye>> = x \o <<Bye>>
    BY <2>2, <2>3
  <2> QED
    BY <2>4 DEF x
<1>7. ~T!Done(t) => wrote = 0
  BY <1>2, <1>5 DEF Good, Goes
<1>8. Good(T!Push(t, Bye), got, served, wrote)
  BY <1>1, <1>2, <1>3, <1>6, <1>7, PushedGood
<1>9. tls' = T!NoSession \/ Good(tls', got, served, wrote)
  BY <1>4, <1>8, PumpWriteGood
<1> QED
  BY <1>1, <1>9 DEF TlsInv

\* The server's units follow what it has sent before.
LEMMA TlsFlies == ASSUME TlsInv, T!ServerFlight PROVE TlsInv'
<1>1. /\ served' = served /\ got' = got /\ wrote' = wrote
      /\ served \in 0..MaxRecords /\ served \in Nat /\ got \in Seq(Nat) /\ wrote \in 0..MaxRecords
  BY TlsConstants DEF TlsInv, T!ServerFlight
<1>2. Good(tls, got, served, wrote)
  BY DEF TlsInv, T!ServerFlight, T!NoSession
<1>3. tls \in Sessions /\ IsStream(tls.in) /\ IsStream(tls.out) /\ tls.flights = 0
      /\ T!Unread(tls.in) = <<>> /\ tls.arriving = <<>>
  BY <1>2 DEF Good, IsSession, T!ServerFlight
<1> DEFINE flown == [i \in 1..Flight |-> 0]
<1>4. flown \in Seq(Nat) /\ Len(flown) = Flight /\ \A i \in 1..Flight : flown[i] = 0
  <2>1. flown \in [1..Flight -> Nat]
    OBVIOUS
  <2> QED
    BY <2>1, TlsConstants, FunctionIsSeq
<1>5. tls' = [tls EXCEPT !.arriving = flown]
  BY DEF T!ServerFlight
<1> HIDE DEF flown
<1> DEFINE t == tls'
<1>6. /\ t \in Sessions /\ t.in = tls.in /\ t.arriving = flown /\ t.out = tls.out /\ t.sent = tls.sent
      /\ t.flights = tls.flights /\ t.pending = tls.pending /\ t.state = tls.state /\ t.bye = tls.bye
  BY <1>3, <1>4, <1>5 DEF Sessions
<1> HIDE DEF t
<1>7. (T!Done(t) <=> T!Done(tls)) /\ HasGone(t) = HasGone(tls) /\ ~T!Done(tls)
  BY <1>3, <1>6, TlsConstants DEF T!Done, HasGone
<1>8. IsSession(t)
  BY <1>2, <1>6, <1>7 DEF Good, IsSession
<1>9. Flow(t, got, served)
  <2>1. PICK k \in 0..served, z \in 0..Flight :
          got \o tls.pending = BytesOf(k) /\ ToCome(tls) = Units(z, k, served) /\ k = 0
    BY <1>2, <1>7 DEF Good, Flow
  <2>2. ToCome(tls) = <<>>
    BY <1>3 DEF ToCome
  <2>3. Len(Units(z, k, served)) = z + served - k
    BY <1>1, UnitsAre
  <2>4. k = served
    BY <1>1, <2>1, <2>2, <2>3, TlsConstants
  <2> DEFINE u == Units(Flight, k, served)
  <2>5. u \in Seq(Nat) /\ Len(u) = Flight + served - k
        /\ \A i \in 1..Flight + served - k : u[i] = IF i <= Flight THEN 0 ELSE k + i - Flight
    BY <1>1, TlsConstants, UnitsAre
  <2> HIDE DEF u
  <2>6. Flight + served - k = Flight
    BY <1>1, <2>4, TlsConstants
  <2>7. Len(u) = Len(flown) /\ \A i \in 1..Len(u) : u[i] = flown[i]
    BY <1>4, <2>5, <2>6, TlsConstants
  <2>8. flown = u
    BY <1>4, <2>5, <2>7, SeqEqual
  <2>9. ToCome(t) = u
    <3>1. <<>> \o flown = flown
      BY <1>4, ConcatEmptySeq
    <3> QED
      BY <1>3, <1>6, <2>8, <3>1 DEF ToCome
  <2>10. Flight \in 0..Flight /\ Flight = Flight - t.flights
    BY <1>3, <1>6, TlsConstants
  <2> QED
    BY <1>6, <2>1, <2>9, <2>10 DEF Flow, u
<1>10. Goes(t, wrote)
  BY <1>2, <1>6, <1>7 DEF Good, Goes
<1>11. Good(tls', got, served, wrote)
  BY <1>8, <1>9, <1>10 DEF Good, t
<1> QED
  BY <1>1, <1>11 DEF TlsInv

LEMMA TlsServed == ASSUME TlsInv, T!ServerRecord PROVE TlsInv'
<1>1. /\ served' = served + 1 /\ got' = got /\ wrote' = wrote /\ served + 1 \in 0..MaxRecords
      /\ served \in Nat /\ got \in Seq(Nat) /\ wrote \in 0..MaxRecords
  BY TlsConstants DEF TlsInv, T!ServerRecord
<1>2. Good(tls, got, served, wrote)
  BY DEF TlsInv, T!ServerRecord, T!NoSession
<1>3. tls \in Sessions /\ IsStream(tls.in) /\ IsStream(tls.out)
  BY <1>2 DEF Good, IsSession
<1>4. PICK a \in Seq(Nat), u \in Seq(Nat) : a = tls.arriving /\ u = T!Unread(tls.in)
  BY <1>3, UnreadIs DEF Sessions
<1> DEFINE more == Append(a, served + 1)
<1>5. more \in Seq(Nat) /\ more = a \o <<served + 1>>
  <2>1. served + 1 \in Nat
    BY <1>1
  <2> QED
    BY <1>4, <2>1, AppendProperties, AppendIsConcat
<1>6. tls' = [tls EXCEPT !.arriving = more]
  BY <1>4 DEF T!ServerRecord
<1> HIDE DEF more
<1> DEFINE t == tls'
<1>7. /\ t \in Sessions /\ t.in = tls.in /\ t.arriving = more /\ t.out = tls.out /\ t.sent = tls.sent
      /\ t.flights = tls.flights /\ t.pending = tls.pending /\ t.state = tls.state /\ t.bye = tls.bye
  BY <1>3, <1>5, <1>6 DEF Sessions
<1>0. T!Done(tls) \/ Len(u) + Len(a) + tls.flights >= Flight
  BY <1>4 DEF T!ServerRecord
<1> HIDE DEF t
<1>8. (T!Done(t) <=> T!Done(tls)) /\ HasGone(t) = HasGone(tls)
  BY <1>7 DEF T!Done, HasGone
<1>9. IsSession(t)
  BY <1>2, <1>7, <1>8 DEF Good, IsSession
<1>10. Flow(t, got, served + 1)
  <2>1. PICK k \in 0..served, z \in 0..Flight :
          /\ got \o tls.pending = BytesOf(k) /\ ToCome(tls) = Units(z, k, served)
          /\ z = Flight - tls.flights \/ (z = 0 /\ tls.flights = 0 /\ served = k)
          /\ ~T!Done(tls) => k = 0
    BY <1>2 DEF Good, Flow
  <2>2. z = Flight - tls.flights
    <3>1. Len(Units(z, k, served)) = z + served - k
      BY <1>1, UnitsAre
    <3>2. Len(u \o a) = Len(u) + Len(a) /\ Len(u) \in Nat /\ Len(a) \in Nat
      BY <1>4, ConcatProperties
    <3>3. Len(u) + Len(a) = z + served - k
      BY <1>4, <2>1, <3>1, <3>2 DEF ToCome
    <3> QED
      BY <1>0, <1>1, <2>1, <3>2, <3>3, TlsConstants DEF T!Done
  <2>3. ToCome(t) = Units(z, k, served + 1)
    <3>1. <<served + 1>> \in Seq(Nat)
      BY <1>1
    <3>2. (u \o a) \o <<served + 1>> = u \o (a \o <<served + 1>>)
      BY <1>4, <3>1, Regrouped
    <3>3. Units(z, k, served) \o <<served + 1>> = Units(z, k, served + 1)
      <4>1. served \in Nat /\ k \in 0..served /\ z \in Nat
        BY <1>1, <2>1
      <4> QED
        BY <4>1, RecordAdded
    <3> QED
      BY <1>4, <1>5, <1>7, <2>1, <3>2, <3>3 DEF ToCome
  <2>4. k \in 0..served + 1
    BY <1>1
  <2> QED
    BY <1>7, <1>8, <2>1, <2>2, <2>3, <2>4 DEF Flow
<1>11. Goes(t, wrote)
  BY <1>2, <1>7, <1>8 DEF Good, Goes
<1>12. Good(tls', got, served + 1, wrote)
  BY <1>9, <1>10, <1>11 DEF Good, t
<1> QED
  BY <1>1, <1>12 DEF TlsInv

LEMMA TlsStep == ASSUME TlsInv, [T!Next]_(T!tlsVars) PROVE TlsInv'
<1>1. CASE T!Deinit
  BY <1>1 DEF T!Deinit, TlsInv
<1>2. CASE UNCHANGED T!tlsVars
  BY <1>2 DEF T!tlsVars, TlsInv
<1> QED
  BY <1>1, <1>2, TlsPolled, TlsWritten, TlsShutDown, TlsFlies, TlsServed DEF T!Next

LEMMA TlsConcludes == ASSUME TlsInv PROVE T!TypeOK /\ T!StreamsIntact
<1>1. CASE tls = T!NoSession
  <2>1. tls.state = "none"
    BY <1>1 DEF T!NoSession
  <2>2. T!TypeOK
    <3>1. Len(<<>>) = 0 /\ 0 \in 0..0 /\ 0 \in 0..1 /\ 0 \in 0..Flight /\ FALSE \in BOOLEAN
      BY TlsConstants
    <3>2. /\ tls.in.offset = 0 /\ tls.in.bytes = <<>> /\ tls.out.offset = 0 /\ tls.out.bytes = <<>>
          /\ tls.flights = 0 /\ tls.pending = <<>> /\ tls.bye = FALSE
      BY <1>1 DEF T!NoSession, T!NewBuffer
    <3> QED
      BY <2>1, <3>1, <3>2 DEF TlsInv, T!TypeOK
  <2> QED
    BY <2>1, <2>2 DEF T!StreamsIntact
<1>2. CASE Good(tls, got, served, wrote)
  <2>1. tls \in Sessions /\ IsStream(tls.in) /\ IsStream(tls.out) /\ Len(tls.pending) <= 1
    BY <1>2 DEF Good, IsSession
  <2>2. T!TypeOK
    <3>1. Len(tls.pending) \in 0..1
      <4>1. PICK p \in Seq(Nat) : p = tls.pending
        BY <2>1 DEF Sessions
      <4>2. Len(p) \in Nat /\ Len(p) <= 1
        BY <2>1, <4>1
      <4>3. ASSUME NEW l \in Nat, l <= 1 PROVE l \in 0..1
        BY <4>3
      <4> QED
        BY <4>1, <4>2, <4>3
    <3> QED
      BY <2>1, <3>1 DEF TlsInv, T!TypeOK, Sessions, IsStream
  <2>3. served \in Nat /\ got \in Seq(Nat) /\ Flight \in Nat /\ wrote \in Nat
    BY TlsConstants DEF TlsInv
  <2>4. PICK f \in 0..Flight : f = tls.flights
    BY <2>1 DEF Sessions
  <2>5. PICK k \in 0..served, z \in 0..Flight :
          /\ got \o tls.pending = BytesOf(k) /\ ToCome(tls) = Units(z, k, served)
          /\ z = Flight - f \/ (z = 0 /\ f = 0 /\ served = k)
    BY <1>2, <2>4 DEF Good, Flow
  <2>6. T!Records = k
    <3>1. Len(BytesOf(k)) = 2 * k /\ k \in Nat
      BY <2>3, BytesAre
    <3>2. (2 * k) \div 2 = k
      BY <3>1
    <3> QED
      BY <2>5, <3>1, <3>2 DEF T!Records, T!Came
  <2>7. T!Zeros = z
    <3>1. Len(Units(z, k, served)) = z + served - k /\ Units(z, k, served) \in Seq(Nat)
      <4>1. served \in Nat /\ k \in 0..served /\ z \in Nat
        BY <2>3, <2>5
      <4> QED
        BY <4>1, UnitsAre
    <3>2. T!Coming = Units(z, k, served)
      BY <2>5 DEF T!Coming, ToCome
    <3>3. CASE T!Coming = <<>>
      BY <2>3, <3>1, <3>2, <3>3 DEF T!Zeros
    <3>4. CASE T!Coming # <<>>
      <4>1. z + served - k # 0
        BY <3>1, <3>2, <3>4
      <4> QED
        BY <2>3, <2>4, <2>5, <3>4, <4>1 DEF T!Zeros
    <3> QED
      BY <3>3, <3>4
  <2>8. T!BytesInTurn
    <3>1. T!Came = [i \in 1..2 * k |-> i]
      BY <2>5 DEF T!Came, BytesOf
    <3>2. T!Coming = [i \in 1..z + served - k |-> IF i <= z THEN 0 ELSE k + i - z]
      BY <2>5 DEF T!Coming, ToCome, Units
    <3> QED
      BY <2>6, <2>7, <3>1, <3>2 DEF T!BytesInTurn
  <2>9. T!AllGoesOut
    BY <1>2 DEF Good, Goes, HasGone, Sent, T!AllGoesOut
  <2> QED
    BY <2>2, <2>8, <2>9 DEF T!StreamsIntact
<1> QED
  BY <1>1, <1>2 DEF TlsInv

-----------------------------------------------------------------------------
(* Sequences of messages.                                                  *)

\* A message of one of these kinds is in the sequence.
Has(s, kinds) == \E i \in DOMAIN s : s[i].kind \in kinds

\* The messages of these kinds say v, but for those that are followed by one of the
\* renewing kinds.
Latest(s, kinds, renewing, v) ==
  \A i \in DOMAIN s :
    s[i].kind \in kinds /\ (\A j \in DOMAIN s : j > i => s[j].kind \notin renewing) => s[i].value = v

LEMMA HasAppend ==
  ASSUME NEW M, NEW s \in Seq(M), NEW m \in M, NEW kinds
  PROVE  Has(Append(s, m), kinds) <=> Has(s, kinds) \/ m.kind \in kinds
<1>1. /\ DOMAIN Append(s, m) = DOMAIN s \cup {Len(s) + 1}
      /\ \A i \in DOMAIN s : Append(s, m)[i] = s[i]
      /\ Append(s, m)[Len(s) + 1] = m
  OBVIOUS
<1> QED
  BY <1>1 DEF Has

LEMMA HasTail ==
  ASSUME NEW M, NEW s \in Seq(M), s # <<>>, NEW kinds
  PROVE  Has(s, kinds) <=> Head(s).kind \in kinds \/ Has(Tail(s), kinds)
<1>1. /\ Len(s) \in Nat \ {0} /\ DOMAIN s = 1..Len(s) /\ Head(s) = s[1]
      /\ DOMAIN Tail(s) = 1..Len(s) - 1
      /\ \A i \in DOMAIN Tail(s) : Tail(s)[i] = s[i + 1]
  OBVIOUS
<1>2. ASSUME Has(s, kinds), Head(s).kind \notin kinds PROVE Has(Tail(s), kinds)
  <2>1. PICK i \in DOMAIN s : s[i].kind \in kinds
    BY <1>2 DEF Has
  <2>2. i - 1 \in DOMAIN Tail(s) /\ Tail(s)[i - 1] = s[i]
    BY <1>1, <1>2, <2>1
  <2> QED
    BY <2>1, <2>2 DEF Has
<1>3. ASSUME Has(Tail(s), kinds) PROVE Has(s, kinds)
  <2>1. PICK i \in DOMAIN Tail(s) : Tail(s)[i].kind \in kinds
    BY <1>3 DEF Has
  <2>2. i + 1 \in DOMAIN s /\ Tail(s)[i] = s[i + 1]
    BY <1>1, <2>1
  <2> QED
    BY <2>1, <2>2 DEF Has
<1>4. Head(s).kind \in kinds => Has(s, kinds)
  BY <1>1 DEF Has
<1> QED
  BY <1>2, <1>3, <1>4

\* A message that is added renews the others, or says what they say.
LEMMA LatestAppend ==
  ASSUME NEW M, NEW s \in Seq(M), NEW m \in M, NEW kinds, NEW renewing, NEW v,
         m.kind \in renewing \/ Latest(s, kinds, renewing, v),
         m.kind \in kinds => m.value = v
  PROVE  Latest(Append(s, m), kinds, renewing, v)
<1>1. /\ Len(s) \in Nat /\ DOMAIN s = 1..Len(s) /\ DOMAIN Append(s, m) = 1..Len(s) + 1
      /\ \A i \in DOMAIN s : Append(s, m)[i] = s[i]
      /\ Append(s, m)[Len(s) + 1] = m
  OBVIOUS
<1> SUFFICES ASSUME NEW i \in DOMAIN Append(s, m), Append(s, m)[i].kind \in kinds,
                    \A j \in DOMAIN Append(s, m) : j > i => Append(s, m)[j].kind \notin renewing
             PROVE  Append(s, m)[i].value = v
  BY DEF Latest
<1>2. CASE i = Len(s) + 1
  BY <1>1, <1>2
<1>3. CASE i # Len(s) + 1
  <2>1. i \in DOMAIN s /\ Len(s) + 1 > i /\ Len(s) + 1 \in DOMAIN Append(s, m)
    BY <1>1, <1>3
  <2>2. m.kind \notin renewing
    BY <1>1, <2>1
  <2>3. \A j \in DOMAIN s : j > i => s[j].kind \notin renewing
    BY <1>1
  <2> QED
    BY <1>1, <2>1, <2>2, <2>3 DEF Latest
<1> QED
  BY <1>2, <1>3

LEMMA LatestTail ==
  ASSUME NEW M, NEW s \in Seq(M), s # <<>>, NEW kinds, NEW renewing, NEW v,
         Latest(s, kinds, renewing, v)
  PROVE  /\ Latest(Tail(s), kinds, renewing, v)
         /\ Head(s).kind \in kinds /\ ~Has(Tail(s), renewing) => Head(s).value = v
<1>1. /\ Len(s) \in Nat \ {0} /\ DOMAIN s = 1..Len(s) /\ Head(s) = s[1]
      /\ DOMAIN Tail(s) = 1..Len(s) - 1
      /\ \A i \in DOMAIN Tail(s) : Tail(s)[i] = s[i + 1]
      /\ \A i \in DOMAIN s : i > 1 => i - 1 \in DOMAIN Tail(s) /\ s[i] = Tail(s)[i - 1]
  OBVIOUS
<1>2. ASSUME NEW i \in DOMAIN Tail(s), Tail(s)[i].kind \in kinds,
             \A j \in DOMAIN Tail(s) : j > i => Tail(s)[j].kind \notin renewing
      PROVE  Tail(s)[i].value = v
  <2>1. i + 1 \in DOMAIN s /\ Tail(s)[i] = s[i + 1]
    BY <1>1
  <2>2. ASSUME NEW j \in DOMAIN s, j > i + 1 PROVE s[j].kind \notin renewing
    <3>1. j - 1 \in DOMAIN Tail(s) /\ s[j] = Tail(s)[j - 1] /\ j - 1 > i
      BY <1>1, <2>2
    <3> QED
      BY <1>2, <3>1
  <2> QED
    BY <1>2, <2>1, <2>2 DEF Latest
<1>3. ASSUME Head(s).kind \in kinds, ~Has(Tail(s), renewing) PROVE Head(s).value = v
  <2>1. \A j \in DOMAIN s : j > 1 => s[j].kind \notin renewing
    BY <1>1, <1>3 DEF Has
  <2> QED
    BY <1>1, <1>3, <2>1 DEF Latest
<1> QED
  BY <1>2, <1>3 DEF Latest

-----------------------------------------------------------------------------
(* OBS.                                                                    *)

\* Of these handlers, what is left of one is such a step; and it is not late.
Awaits(w, steps) == \E h \in Handlers : w[h].step \in steps
Timely(w, steps) == \E h \in Handlers : w[h].step \in steps /\ w[h].when = "timely"

\* What is left of them is to be done with v, unless it is late.
Means(w, steps, v) == \A h \in Handlers : w[h].step \in steps /\ w[h].when = "timely" => w[h].value = v

\* What a handler that is suspended adds to the others.
LEMMA ObsSuspends ==
  ASSUME NEW w \in [Handlers -> O!Lefts], NEW left \in O!Lefts, O!Waits(w, left)
  PROVE  /\ waiting' \in [Handlers -> O!Lefts] /\ UNCHANGED inbox
         /\ \A steps : "none" \notin steps =>
              /\ Awaits(waiting', steps) <=> Awaits(w, steps) \/ left.step \in steps
              /\ Timely(waiting', steps) <=> Timely(w, steps) \/ (left.step \in steps /\ left.when = "timely")
         /\ \A steps, v : Means(w, steps, v) /\ (left.step \in steps /\ left.when = "timely" => left.value = v) =>
              Means(waiting', steps, v)
<1>1. PICK h \in Handlers : w[h] = O!Done /\ waiting' = [w EXCEPT ![h] = left]
  BY DEF O!Waits
<1>2. waiting'[h] = left /\ \A g \in Handlers \ {h} : waiting'[g] = w[g]
  BY <1>1
<1>3. w[h].step = "none"
  BY <1>1 DEF O!Done, O!Left
<1>4. ASSUME NEW steps, "none" \notin steps
      PROVE  /\ Awaits(waiting', steps) <=> Awaits(w, steps) \/ left.step \in steps
             /\ Timely(waiting', steps) <=> Timely(w, steps) \/ (left.step \in steps /\ left.when = "timely")
  BY <1>2, <1>3, <1>4 DEF Awaits, Timely
<1>5. ASSUME NEW steps, NEW v, Means(w, steps, v), left.step \in steps /\ left.when = "timely" => left.value = v
      PROVE  Means(waiting', steps, v)
  BY <1>2, <1>5 DEF Means
<1>6. waiting' \in [Handlers -> O!Lefts] /\ UNCHANGED inbox
  BY <1>1 DEF O!Waits
<1> QED
  BY <1>4, <1>5, <1>6

\* What is left of the others when a callback returns.
LEMMA ObsWithout ==
  ASSUME waiting \in [Handlers -> O!Lefts], NEW h \in Handlers
  PROVE  /\ O!Without(h) \in [Handlers -> O!Lefts]
         /\ \A steps : "none" \notin steps =>
              /\ Awaits(waiting, steps) <=> Awaits(O!Without(h), steps) \/ waiting[h].step \in steps
              /\ Timely(waiting, steps) <=>
                   Timely(O!Without(h), steps) \/ (waiting[h].step \in steps /\ waiting[h].when = "timely")
         /\ \A steps, v : "none" \notin steps /\ Means(waiting, steps, v) => Means(O!Without(h), steps, v)
<1>1. O!Done \in O!Lefts /\ O!Done.step = "none"
  BY DEF O!Done, O!Left, O!Lefts, O!Whens
<1>2. O!Without(h)[h] = O!Done /\ \A g \in Handlers \ {h} : O!Without(h)[g] = waiting[g]
  BY DEF O!Without
<1>3. O!Without(h) \in [Handlers -> O!Lefts]
  BY <1>1 DEF O!Without
<1>4. ASSUME NEW steps, "none" \notin steps
      PROVE  /\ Awaits(waiting, steps) <=> Awaits(O!Without(h), steps) \/ waiting[h].step \in steps
             /\ Timely(waiting, steps) <=>
                  Timely(O!Without(h), steps) \/ (waiting[h].step \in steps /\ waiting[h].when = "timely")
  BY <1>1, <1>2, <1>4 DEF Awaits, Timely
<1>5. ASSUME NEW steps, NEW v, "none" \notin steps, Means(waiting, steps, v)
      PROVE  Means(O!Without(h), steps, v)
  BY <1>1, <1>2, <1>5 DEF Means
<1> QED
  BY <1>3, <1>4, <1>5

\* Of the handlers that are overtaken, none is timely; the others are as they were.
LEMMA ObsOvertakes ==
  ASSUME waiting \in [Handlers -> O!Lefts], NEW late \in SUBSET {"scene", "items", "active"}
  PROVE  /\ O!Overtaken(late) \in [Handlers -> O!Lefts]
         /\ ~Timely(O!Overtaken(late), late)
         /\ \A steps : Awaits(O!Overtaken(late), steps) <=> Awaits(waiting, steps)
         /\ \A steps, v : Means(waiting, steps, v) => Means(O!Overtaken(late), steps, v)
         /\ \A v : Means(O!Overtaken(late), late, v)
<1> DEFINE w == O!Overtaken(late)
<1>1. ASSUME NEW h \in Handlers
      PROVE  /\ w[h] \in O!Lefts /\ w[h].step = waiting[h].step
             /\ w[h].step \in late => w[h].when = "late"
             /\ w[h].when = "timely" => w[h] = waiting[h]
  <2>1. waiting[h] \in O!Lefts
    OBVIOUS
  <2>2. CASE waiting[h].step \in late
    <3>1. \/ waiting[h] \in [step : {"scene", "items"}, value : Scenes, when : O!Whens]
          \/ waiting[h] \in [step : {"active"}, value : BOOLEAN, when : O!Whens]
      BY <2>1, <2>2 DEF O!Lefts, O!Whens, O!Done, O!Left
    <3>2. w[h] = [waiting[h] EXCEPT !.when = "late"]
      BY <2>2 DEF O!Overtaken
    <3> QED
      BY <3>1, <3>2 DEF O!Lefts, O!Whens
  <2>3. CASE waiting[h].step \notin late
    <3>1. w[h] = waiting[h]
      BY <2>3 DEF O!Overtaken
    <3> QED
      BY <2>1, <2>3, <3>1
  <2> QED
    BY <2>2, <2>3
<1>2. w \in [Handlers -> O!Lefts]
  <2>1. w = [h \in Handlers |-> w[h]]
    BY DEF O!Overtaken
  <2> QED
    BY <1>1, <2>1
<1> HIDE DEF w
<1>3. /\ ~Timely(w, late)
      /\ \A steps : Awaits(w, steps) <=> Awaits(waiting, steps)
      /\ \A v : Means(w, late, v)
  BY <1>1 DEF Timely, Awaits, Means
<1>4. \A steps, v : Means(waiting, steps, v) => Means(w, steps, v)
  BY <1>1 DEF Means
<1> QED
  BY <1>2, <1>3, <1>4 DEF w

\* Nothing is under way without a connection, and OBS sends nothing but a hello
\* before it was asked to identify us; handlers that are suspended since are late.
Greeting ==
  /\ link # "up" => inbox = <<>> /\ wire = <<>> /\ ~greeted
  /\ ~greeted => /\ ~Has(wire, {"identified", "stream", "streaming", "scenes", "switched", "items", "failed"})
                 /\ ~Timely(waiting, {"scene", "items", "active"})
  /\ link = "up" /\ ~greeted => obsTold # "connected" /\ ~learnt

\* What is on the way agrees with OBS, or an event is behind it.
InOrder ==
  /\ Latest(wire, {"stream", "streaming"}, {"streaming"}, obs.streaming)
  /\ Latest(wire, {"scenes", "switched"}, {"switched"}, obs.scene)

\* Nothing is on the way that tells the scene.
SceneSettled  == ~Has(inbox, {"scenes"}) /\ ~Has(wire, {"scenes", "switched"})
StreamSettled ==
  ~Has(inbox, {"stream"}) /\ ~Has(wire, {"stream", "streaming"}) /\ ~Awaits(waiting, {"stream"})

\* The items that were asked for last are those of the scene that is shown.
ItemsFollow ==
  /\ Latest(inbox, {"items"}, {"items"}, obs.scene)
  /\ ~Has(inbox, {"items"}) => Latest(wire, {"items"}, {"items"}, obs.scene)
  /\ ~Has(inbox, {"items"}) /\ ~Has(wire, {"items"}) => copy.items = obs.scene

\* A handler that is to set StreamActive will set it to what OBS does, or another one
\* has set it, or an event is behind.
ActiveFollows ==
  /\ learnt => copy.active # Nothing
  /\ link = "up" /\ ~Has(wire, {"streaming"}) =>
       /\ learnt => copy.active = obs.streaming
       /\ copy.active = Nothing => Means(waiting, {"active"}, obs.streaming)

Connected == obsPc # "ended" /\ obsTold = "connected"

StreamFollows ==
  Connected /\ StreamSettled =>
    copy.status = obs.streaming /\ (~Awaits(waiting, {"active"}) => copy.active # Nothing)

\* The handler of the newest message is to set the scene, or was the last to do so, or
\* another one did after it.
SceneFollows ==
  Connected /\ SceneSettled =>
    /\ Means(waiting, {"scene", "items"}, obs.scene)
    /\ setter.scene = "timely" => Timely(waiting, {"scene"}) \/ copy.scene = obs.scene
    /\ setter.items = "timely" => Timely(waiting, {"scene", "items"}) \/ ItemsFollow

Follows == ActiveFollows /\ StreamFollows /\ SceneFollows

ObsInv == O!TypeOK /\ O!ConnectedIsUp /\ Greeting /\ InOrder /\ Follows

LEMMA HasNone == ASSUME NEW kinds PROVE ~Has(<<>>, kinds)
BY DEF Has

LEMMA LatestNone == ASSUME NEW kinds, NEW renewing, NEW v PROVE Latest(<<>>, kinds, renewing, v)
BY DEF Latest

LEMMA ObsInit == ASSUME Init PROVE ObsInv
<1>1. O!Init
  BY DEF Init
<1>2. O!TypeOK
  <2>1. (CHOOSE s \in Scenes : TRUE) \in Scenes
    BY ScriptAssumption DEF O!ObsAssumption
  <2>2. obs \in [streaming : BOOLEAN, scene : Scenes]
    BY <1>1, <2>1 DEF O!Init
  <2>3. copy \in [active : BOOLEAN \cup {Nothing}, status : BOOLEAN \cup {Nothing},
                  scene : Scenes \cup {Nothing}, items : Scenes \cup {Nothing}]
    BY <1>1 DEF O!Init
  <2>4. 0 \in 0..MaxShows /\ 0 \in 0..MaxConnections
    BY ScriptAssumption DEF O!ObsAssumption
  <2>5. inbox \in Seq(O!Requests) /\ wire \in Seq(O!Responses)
    BY <1>1 DEF O!Init
  <2>6. /\ obsPc \in {"inputs", "socket", "outputs", "ended"} /\ enabled \in BOOLEAN /\ socketEnabled \in BOOLEAN
        /\ link \in {"down", "trying", "up", "closing"} /\ handshaking \in {Nothing} \cup 0..Limit + 1
    BY <1>1 DEF O!Init
  <2>7. shows \in 0..MaxShows /\ obsConnections \in 0..MaxConnections
    BY <1>1, <2>4 DEF O!Init
  <2>8. greeted \in BOOLEAN /\ obsTold \in {"nothing", "failed", "connected", "disconnected"} /\ learnt \in BOOLEAN
    BY <1>1, <2>4 DEF O!Init
  <2>9. waiting \in [Handlers -> O!Lefts] /\ setter \in [scene : O!Whens, items : O!Whens]
    BY <1>1 DEF O!Init, O!Lefts, O!Whens
  <2> QED
    BY <2>2, <2>3, <2>5, <2>6, <2>7, <2>8, <2>9 DEF O!TypeOK
<1>3. ~Timely(waiting, {"scene", "items", "active"})
  BY <1>1 DEF O!Init, O!Done, O!Left, Timely
<1> QED
  BY <1>1, <1>2, <1>3, HasNone, LatestNone
  DEF ObsInv, O!Init, O!ConnectedIsUp, Greeting, InOrder, Follows, ActiveFollows, StreamFollows, SceneFollows,
      Connected

LEMMA ObsStays ==
  ASSUME ObsInv, UNCHANGED <<inbox, wire, obs, copy, greeted, learnt, waiting, setter>>,
         link' = "up" <=> link = "up", obsTold' \in {obsTold, "failed"}, obsPc = "ended" => obsPc' = "ended"
  PROVE  Greeting' /\ InOrder' /\ Follows'
BY DEF ObsInv, Greeting, InOrder, Follows, ActiveFollows, StreamFollows, SceneFollows, Connected, SceneSettled,
       StreamSettled, ItemsFollow, Has, Latest, Awaits, Timely, Means

LEMMA ObsLoses ==
  ASSUME ObsInv, O!Lost, link' # "up", obsPc' = "ended" \/ obsTold' # "connected", UNCHANGED <<copy, learnt>>
  PROVE  /\ Greeting' /\ InOrder' /\ Follows'
         /\ waiting' \in [Handlers -> O!Lefts] /\ greeted' \in BOOLEAN
         /\ inbox' \in Seq(O!Requests) /\ wire' \in Seq(O!Responses)
         /\ UNCHANGED <<obs, shows, obsConnections, setter>>
<1>1. /\ wire' = <<>> /\ inbox' = <<>> /\ greeted' = FALSE
      /\ UNCHANGED <<obs, shows, obsConnections, setter>>
  BY DEF O!Lost
<1>2. /\ ~Has(wire', {"identified", "stream", "streaming", "scenes", "switched", "items", "failed"})
      /\ ~Timely(waiting', {"scene", "items", "active"}) /\ waiting' \in [Handlers -> O!Lefts]
  BY <1>1, HasNone, ObsOvertakes DEF O!Lost, ObsInv, O!TypeOK
<1>3. InOrder'
  BY <1>1, LatestNone DEF InOrder
<1>4. Follows'
  BY DEF ObsInv, Follows, ActiveFollows, StreamFollows, SceneFollows, Connected
<1>5. inbox' \in Seq(O!Requests) /\ wire' \in Seq(O!Responses)
  BY <1>1
<1>6. Greeting'
  BY <1>1, <1>2 DEF Greeting
<1> QED
  BY <1>1, <1>2, <1>3, <1>4, <1>5, <1>6

LEMMA ObsTicks ==
  ASSUME ObsInv, O!Tick \/ O!SetEnabled \/ O!Shutdown
  PROVE  ObsInv'
<1>1. CASE O!TickInputs
  <2>1. O!TypeOK' /\ O!ConnectedIsUp'
    BY <1>1 DEF ObsInv, O!TypeOK, O!ConnectedIsUp, O!TickInputs, O!serverVars, O!handlerVars
  <2> QED
    BY <1>1, <2>1, ObsStays DEF ObsInv, O!TickInputs, O!serverVars, O!handlerVars
<1>2. CASE O!SetEnabled
  <2>1. O!TypeOK' /\ O!ConnectedIsUp'
    BY <1>2 DEF ObsInv, O!TypeOK, O!ConnectedIsUp, O!SetEnabled, O!serverVars, O!handlerVars
  <2> QED
    BY <1>2, <2>1, ObsStays DEF ObsInv, O!SetEnabled, O!serverVars, O!handlerVars
<1>3. CASE O!Watch
  <2>1. CASE O!TimedOut
    <3>1. O!TypeOK'
      BY <1>3, <2>1 DEF ObsInv, O!TypeOK, O!Watch, O!GiveUp, O!serverVars, O!handlerVars
    <3>2. O!ConnectedIsUp'
      BY <1>3, <2>1 DEF ObsInv, O!ConnectedIsUp, O!Watch, O!GiveUp
    <3> QED
      BY <1>3, <3>1, <3>2, ObsStays DEF ObsInv, O!Watch, O!GiveUp, O!serverVars, O!handlerVars
  <2>2. CASE ~O!TimedOut
    <3>1. O!TypeOK'
      BY <1>3, <2>2 DEF ObsInv, O!TypeOK, O!Watch, O!serverVars, O!handlerVars
    <3>2. O!ConnectedIsUp'
      BY <1>3, <2>2 DEF ObsInv, O!ConnectedIsUp, O!Watch
    <3> QED
      BY <1>3, <2>2, <3>1, <3>2, ObsStays DEF ObsInv, O!Watch, O!serverVars, O!handlerVars
  <2> QED
    BY <2>1, <2>2
<1>4. CASE O!TickOutputs /\ link = "up" /\ ~socketEnabled
  <2>1. O!ConnectedIsUp'
    BY <1>4 DEF O!ConnectedIsUp, O!TickOutputs, O!Lk!Disabled
  <2>2. /\ Greeting' /\ InOrder' /\ Follows'
        /\ waiting' \in [Handlers -> O!Lefts] /\ greeted' \in BOOLEAN
        /\ inbox' \in Seq(O!Requests) /\ wire' \in Seq(O!Responses)
        /\ UNCHANGED <<obs, shows, obsConnections, setter>>
    BY <1>4, ObsLoses DEF O!TickOutputs, O!Lk!Disabled
  <2>3. O!TypeOK'
    BY <1>4, <2>2 DEF ObsInv, O!TypeOK, O!TickOutputs, O!Lk!Disabled
  <2> QED
    BY <2>1, <2>2, <2>3 DEF ObsInv
<1>5. CASE O!TickOutputs /\ ~(link = "up" /\ ~socketEnabled)
  <2>1. O!Older \in {Nothing} \cup 0..Limit + 1 /\ (O!Older = Nothing <=> handshaking = Nothing)
    BY ScriptAssumption DEF ObsInv, O!TypeOK, O!Older, O!ObsAssumption
  <2>2. O!TypeOK' /\ O!ConnectedIsUp'
    BY <1>5, <2>1 DEF ObsInv, O!TypeOK, O!ConnectedIsUp, O!TickOutputs, O!serverVars, O!handlerVars
  <2> QED
    BY <1>5, <2>2, ObsStays DEF ObsInv, O!TickOutputs, O!serverVars, O!handlerVars
<1>6. CASE O!Shutdown
  <2>1. O!ConnectedIsUp'
    BY <1>6 DEF O!ConnectedIsUp, O!Shutdown, O!Lk!Stopped
  <2>2. /\ Greeting' /\ InOrder' /\ Follows'
        /\ waiting' \in [Handlers -> O!Lefts] /\ greeted' \in BOOLEAN
        /\ inbox' \in Seq(O!Requests) /\ wire' \in Seq(O!Responses)
        /\ UNCHANGED <<obs, shows, obsConnections, setter>>
    BY <1>6, ObsLoses DEF O!Shutdown, O!Lk!Stopped
  <2>3. O!TypeOK'
    <3>1. /\ obsPc' = "ended" /\ UNCHANGED <<enabled, handshaking, copy, obsTold, learnt>>
          /\ link' \in {"down", "trying", "up", "closing"} /\ socketEnabled' \in BOOLEAN
      BY <1>6 DEF ObsInv, O!TypeOK, O!Shutdown, O!Lk!Stopped
    <3> QED
      BY <2>2, <3>1 DEF ObsInv, O!TypeOK
  <2> QED
    BY <2>1, <2>2, <2>3 DEF ObsInv
<1> QED
  BY <1>1, <1>2, <1>3, <1>4, <1>5, <1>6 DEF O!Tick

LEMMA ObsLinks ==
  ASSUME ObsInv, O!Try \/ O!Refused \/ O!OnConnectFailed \/ O!OnConnect \/ O!OnDisconnect \/ O!Closed
  PROVE  ObsInv'
<1>1. CASE O!Try
  <2>1. O!TypeOK' /\ O!ConnectedIsUp'
    BY <1>1 DEF ObsInv, O!TypeOK, O!ConnectedIsUp, O!Try, O!Lk!Try, O!serverVars, O!handlerVars
  <2> QED
    BY <1>1, <2>1, ObsStays DEF ObsInv, O!Try, O!Lk!Try, O!serverVars, O!handlerVars
<1>2. CASE O!OnConnectFailed
  <2>1. O!TypeOK' /\ O!ConnectedIsUp'
    BY <1>2 DEF ObsInv, O!TypeOK, O!ConnectedIsUp, O!OnConnectFailed, O!Lk!OnConnectFailed, O!serverVars, O!handlerVars
  <2> QED
    BY <1>2, <2>1, ObsStays DEF ObsInv, O!OnConnectFailed, O!Lk!OnConnectFailed, O!serverVars, O!handlerVars
<1>3. CASE O!OnConnect
  <2>1. O!TypeOK' /\ O!ConnectedIsUp'
    <3>1. <<O!Say("hello", Nothing)>> \in Seq(O!Responses)
      BY DEF O!Say, O!Responses
    <3>2. 0 \in 0..Limit + 1 /\ obsConnections' \in 0..MaxConnections
      BY <1>3, ScriptAssumption DEF ObsInv, O!TypeOK, O!OnConnect, O!ObsAssumption
    <3>3. CASE handshaking' = 0 /\ obsTold' = "nothing" /\ UNCHANGED socketEnabled
      BY <1>3, <3>1, <3>2, <3>3 DEF ObsInv, O!TypeOK, O!ConnectedIsUp, O!OnConnect, O!Lk!OnConnect, O!handlerVars
    <3>4. CASE socketEnabled' = FALSE /\ obsTold' = "failed" /\ UNCHANGED handshaking
      BY <1>3, <3>1, <3>2, <3>4 DEF ObsInv, O!TypeOK, O!ConnectedIsUp, O!OnConnect, O!Lk!OnConnect, O!handlerVars
    <3> QED
      BY <1>3, <3>3, <3>4 DEF O!OnConnect
  <2>2. /\ inbox' = <<>> /\ ~greeted' /\ link' = "up" /\ ~learnt' /\ obsTold' # "connected"
        /\ wire' = <<O!Say("hello", Nothing)>> /\ UNCHANGED <<waiting, copy>>
        /\ ~Timely(waiting, {"scene", "items", "active"})
    BY <1>3 DEF ObsInv, Greeting, O!OnConnect, O!Lk!OnConnect, O!handlerVars
  <2>3. ASSUME NEW kinds, "hello" \notin kinds PROVE ~Has(wire', kinds)
    BY <2>2, <2>3 DEF Has, O!Say
  <2>4. Greeting' /\ Follows'
    <3>1. ~Timely(waiting', {"scene", "items", "active"})
      BY <2>2
    <3>2. Means(waiting', {"active"}, obs'.streaming)
      BY <3>1 DEF Timely, Means
    <3> QED
      BY <2>2, <2>3, <3>1, <3>2
      DEF Greeting, Follows, ActiveFollows, StreamFollows, SceneFollows, Connected
  <2>5. InOrder'
    BY <2>2 DEF InOrder, Latest, O!Say
  <2> QED
    BY <2>1, <2>4, <2>5 DEF ObsInv
<1>4. CASE O!OnDisconnect
  <2>1. O!ConnectedIsUp'
    BY <1>4 DEF O!ConnectedIsUp, O!OnDisconnect, O!Lk!OnDisconnect
  <2>2. /\ Greeting' /\ InOrder' /\ Follows'
        /\ waiting' \in [Handlers -> O!Lefts] /\ greeted' \in BOOLEAN
        /\ inbox' \in Seq(O!Requests) /\ wire' \in Seq(O!Responses)
        /\ UNCHANGED <<obs, shows, obsConnections, setter>>
    BY <1>4, ObsLoses DEF O!OnDisconnect, O!Lk!OnDisconnect
  <2>3. O!TypeOK'
    BY <1>4, <2>2 DEF ObsInv, O!TypeOK, O!OnDisconnect, O!Lk!OnDisconnect
  <2> QED
    BY <2>1, <2>2, <2>3 DEF ObsInv
<1>5. CASE O!Closed
  <2>1. O!TypeOK' /\ O!ConnectedIsUp'
    BY <1>5 DEF ObsInv, O!TypeOK, O!ConnectedIsUp, O!Closed, O!Lk!Closed, O!serverVars, O!handlerVars
  <2> QED
    BY <1>5, <2>1, ObsStays DEF ObsInv, O!Closed, O!Lk!Closed, O!serverVars, O!handlerVars
<1>6. CASE O!Refused
  <2>1. O!TypeOK'
    BY <1>6 DEF ObsInv, O!TypeOK, O!Refused, O!Lk!Refused, O!serverVars, O!handlerVars
  <2>2. O!ConnectedIsUp'
    BY <1>6 DEF ObsInv, O!ConnectedIsUp, O!Refused, O!Lk!Refused
  <2> QED
    BY <1>6, <2>1, <2>2, ObsStays DEF ObsInv, O!Refused, O!Lk!Refused, O!serverVars, O!handlerVars
<1> QED
  BY <1>1, <1>2, <1>3, <1>4, <1>5, <1>6

\* The answer says what OBS does when it answers.
LEMMA ObsAnswer ==
  ASSUME ObsInv, inbox # <<>>, NEW reply \in O!Answers(Head(inbox))
  PROVE  /\ reply \in O!Responses /\ reply.kind \in {"identified", "stream", "scenes", "items", "failed"}
         /\ reply.kind = "stream" => reply.value = obs.streaming
         /\ reply.kind = "scenes" => reply.value = obs.scene
         /\ reply.kind = "items"  => Head(inbox).kind = "items" /\ reply.value = Head(inbox).value
         /\ Head(inbox).kind = "stream" => reply.kind = "stream"
         /\ Head(inbox).kind = "scenes" => reply.kind = "scenes"
         /\ Head(inbox).kind = "items" /\ Head(inbox).value = obs.scene => reply.kind = "items"
         /\ Head(inbox).kind \in {"identify", "stream", "scenes", "items"}
<1>1. Head(inbox) \in O!Requests /\ obs.streaming \in BOOLEAN /\ obs.scene \in Scenes
  BY DEF ObsInv, O!TypeOK
<1>2. Head(inbox).kind \in {"identify", "stream", "scenes", "items"}
  BY <1>1 DEF O!Requests
<1>3. CASE Head(inbox).kind = "identify"
  BY <1>3 DEF O!Answers, O!Say, O!Responses
<1>4. CASE Head(inbox).kind = "stream"
  BY <1>1, <1>4 DEF O!Answers, O!Say, O!Responses
<1>5. CASE Head(inbox).kind = "scenes"
  BY <1>1, <1>5 DEF O!Answers, O!Say, O!Responses
<1>6. CASE Head(inbox).kind = "items"
  <2>1. Head(inbox).value \in Scenes
    BY <1>1, <1>6 DEF O!Requests
  <2>2. \/ reply = O!Say("items", Head(inbox).value)
        \/ reply = O!Say("failed", Nothing) /\ Head(inbox).value # obs.scene
    BY <1>6 DEF O!Answers
  <2> QED
    BY <1>6, <2>1, <2>2 DEF O!Say, O!Responses
<1> QED
  BY <1>2, <1>3, <1>4, <1>5, <1>6

LEMMA ObsAnswers ==
  ASSUME ObsInv, O!Answer
  PROVE  ObsInv'
<1>1. /\ link = "up" /\ inbox # <<>> /\ inbox' = Tail(inbox)
      /\ greeted' = (greeted \/ Head(inbox).kind = "identify")
      /\ UNCHANGED <<obsPc, enabled, socketEnabled, link, handshaking, copy, obs, shows, obsConnections, obsTold,
                    learnt, waiting, setter>>
  BY DEF O!Answer, O!handlerVars
<1>2. inbox \in Seq(O!Requests) /\ wire \in Seq(O!Responses) /\ inbox' \in Seq(O!Requests)
  BY <1>1 DEF ObsInv, O!TypeOK
<1>3. CASE ~greeted'
  <2>1. wire' = wire /\ ~greeted
    BY <1>1, <1>3 DEF O!Answer
  <2>2. O!TypeOK' /\ O!ConnectedIsUp'
    BY <1>1, <1>2, <2>1 DEF ObsInv, O!TypeOK, O!ConnectedIsUp
  <2>3. InOrder'
    BY <1>1, <2>1 DEF ObsInv, InOrder, Latest
  <2>4. Greeting'
    BY <1>1, <1>3, <2>1 DEF ObsInv, Greeting, Has, Timely
  <2>5. Follows'
    <3>1. ActiveFollows'
      BY <1>1, <2>1 DEF ObsInv, Follows, ActiveFollows, Has, Means
    <3> QED
      BY <1>1, <2>1, <3>1 DEF ObsInv, Greeting, Follows, StreamFollows, SceneFollows, Connected
  <2> QED
    BY <2>2, <2>3, <2>4, <2>5 DEF ObsInv
<1>4. CASE greeted'
  <2>1. PICK reply \in O!Answers(Head(inbox)) : wire' = Append(wire, reply)
    BY <1>4 DEF O!Answer
  <2>2. reply \in O!Responses
    BY <1>1, <2>1, ObsAnswer
  <2>3. ASSUME NEW kinds
        PROVE  /\ Has(wire', kinds) <=> Has(wire, kinds) \/ reply.kind \in kinds
               /\ Has(inbox, kinds) <=> Head(inbox).kind \in kinds \/ Has(inbox', kinds)
    BY <1>1, <1>2, <2>1, <2>2, HasAppend, HasTail
  <2>4. O!TypeOK' /\ O!ConnectedIsUp'
    <3>1. wire' \in Seq(O!Responses)
      BY <1>2, <2>1, <2>2
    <3> QED
      BY <1>1, <1>2, <3>1 DEF ObsInv, O!TypeOK, O!ConnectedIsUp
  <2>5. Greeting'
    BY <1>1, <1>4 DEF Greeting
  <2>6. InOrder'
    BY <1>1, <1>2, <2>1, <2>2, ObsAnswer, LatestAppend DEF ObsInv, InOrder
  <2>7. ASSUME ItemsFollow PROVE ItemsFollow'
    <3>1. /\ Latest(inbox', {"items"}, {"items"}, obs'.scene)
          /\ Head(inbox).kind = "items" /\ ~Has(inbox', {"items"}) => Head(inbox).value = obs.scene
      BY <1>1, <1>2, <2>7, LatestTail DEF ItemsFollow
    <3>2. ~Has(inbox', {"items"}) => Latest(wire', {"items"}, {"items"}, obs'.scene)
      <4>1. CASE Head(inbox).kind = "items"
        BY <1>1, <1>2, <2>1, <2>2, <3>1, <4>1, ObsAnswer, LatestAppend
      <4>2. CASE Head(inbox).kind # "items"
        BY <1>1, <1>2, <2>1, <2>2, <2>3, <2>7, <4>2, ObsAnswer, LatestAppend DEF ItemsFollow
      <4> QED
        BY <4>1, <4>2
    <3>3. ~Has(inbox', {"items"}) /\ ~Has(wire', {"items"}) => copy'.items = obs'.scene
      BY <1>1, <2>1, <2>3, <2>7, <3>1, ObsAnswer DEF ItemsFollow
    <3> QED
      BY <3>1, <3>2, <3>3 DEF ItemsFollow
  <2>8. StreamSettled' => StreamSettled
    BY <1>1, <2>1, <2>3, ObsAnswer DEF StreamSettled, Awaits
  <2>9. SceneSettled' => SceneSettled
    BY <1>1, <2>1, <2>3, ObsAnswer DEF SceneSettled
  <2>10. ActiveFollows'
    BY <1>1, <2>3 DEF ObsInv, Follows, ActiveFollows, Means
  <2>11. StreamFollows'
    BY <1>1, <2>8 DEF ObsInv, Follows, StreamFollows, Connected, Awaits
  <2>12. SceneFollows'
    BY <1>1, <2>7, <2>9 DEF ObsInv, Follows, SceneFollows, Connected, Timely, Means
  <2> QED
    BY <2>4, <2>5, <2>6, <2>10, <2>11, <2>12 DEF ObsInv, Follows
<1> QED
  BY <1>3, <1>4

LEMMA ObsChanges ==
  ASSUME ObsInv, O!Change
  PROVE  ObsInv'
<1>1. /\ shows < MaxShows /\ shows' = shows + 1
      /\ UNCHANGED <<obsPc, enabled, socketEnabled, link, handshaking, copy, inbox, greeted, obsConnections, obsTold,
                    learnt, waiting, setter>>
  BY DEF O!Change, O!handlerVars
<1>2. PICK event \in O!Responses :
        /\ wire' = IF greeted /\ link = "up" THEN Append(wire, event) ELSE wire
        /\ \/ obs' = [obs EXCEPT !.streaming = ~@] /\ event = O!Say("streaming", ~obs.streaming)
           \/ \E s \in Scenes : obs' = [obs EXCEPT !.scene = s] /\ event = O!Say("switched", s)
  <2>1. obs.streaming \in BOOLEAN
    BY DEF ObsInv, O!TypeOK
  <2>2. O!Say("streaming", ~obs.streaming) \in O!Responses
    BY <2>1 DEF O!Say, O!Responses
  <2>3. \A s \in Scenes : O!Say("switched", s) \in O!Responses
    BY DEF O!Say, O!Responses
  <2> QED
    BY <2>2, <2>3 DEF O!Change, O!Event
<1>3. obs \in [streaming : BOOLEAN, scene : Scenes] /\ wire \in Seq(O!Responses) /\ shows \in 0..MaxShows
  BY DEF ObsInv, O!TypeOK
<1>4. \/ event.kind = "streaming" /\ obs'.streaming = event.value /\ obs'.scene = obs.scene
      \/ event.kind = "switched" /\ obs'.scene = event.value /\ obs'.streaming = obs.streaming
  BY <1>2, <1>3 DEF O!Say
<1>5. O!TypeOK' /\ O!ConnectedIsUp'
  <2>1. obs' \in [streaming : BOOLEAN, scene : Scenes]
    BY <1>2, <1>3
  <2>2. wire' \in Seq(O!Responses)
    BY <1>2, <1>3
  <2>3. shows' \in 0..MaxShows
    BY <1>1, <1>3, ScriptAssumption DEF O!ObsAssumption
  <2> QED
    BY <1>1, <2>1, <2>2, <2>3 DEF ObsInv, O!TypeOK, O!ConnectedIsUp
<1>6. CASE ~(greeted /\ link = "up")
  <2>1. wire' = wire /\ ~greeted /\ ~Timely(waiting, {"scene", "items", "active"})
    BY <1>2, <1>6 DEF ObsInv, Greeting
  <2>2. InOrder'
    BY <2>1 DEF ObsInv, Greeting, InOrder, Latest, Has
  <2>3. ActiveFollows'
    <3>1. Means(waiting', {"active"}, obs'.streaming)
      BY <1>1, <2>1 DEF Timely, Means
    <3> QED
      BY <1>1, <2>1, <3>1 DEF ObsInv, Greeting, Follows, ActiveFollows
  <2>4. Follows'
    BY <1>1, <2>1, <2>3 DEF ObsInv, O!ConnectedIsUp, Greeting, Follows, StreamFollows, SceneFollows, Connected
  <2>5. Greeting'
    BY <1>1, <2>1 DEF ObsInv, Greeting, Timely
  <2> QED
    BY <1>5, <2>2, <2>4, <2>5 DEF ObsInv
<1>7. CASE greeted /\ link = "up"
  <2>1. wire' = Append(wire, event)
    BY <1>2, <1>7
  <2>2. ASSUME NEW kinds PROVE Has(wire', kinds) <=> Has(wire, kinds) \/ event.kind \in kinds
    BY <1>3, <2>1, HasAppend
  <2>3. Greeting'
    BY <1>1, <1>7 DEF Greeting
  <2>4. InOrder'
    BY <1>3, <1>4, <2>1, LatestAppend DEF ObsInv, InOrder
  <2>5. CASE event.kind = "streaming"
    <3>1. obs'.scene = obs.scene
      BY <1>4, <2>5
    <3>2. ItemsFollow => ItemsFollow'
      <4>1. Latest(wire, {"items"}, {"items"}, obs.scene) => Latest(wire', {"items"}, {"items"}, obs.scene)
        BY <1>3, <2>1, <2>5, LatestAppend
      <4> QED
        BY <1>1, <2>2, <3>1, <4>1 DEF ItemsFollow
    <3>3. Has(wire', {"streaming"}) /\ Has(wire', {"stream", "streaming"})
      BY <2>2, <2>5
    <3>4. SceneSettled' => SceneSettled
      BY <1>1, <2>2 DEF SceneSettled
    <3>5. ActiveFollows' /\ StreamFollows'
      BY <1>1, <3>3 DEF ObsInv, Follows, ActiveFollows, StreamFollows, StreamSettled
    <3>6. SceneFollows'
      BY <1>1, <3>1, <3>2, <3>4 DEF ObsInv, Follows, SceneFollows, Connected, Timely, Means
    <3> QED
      BY <1>5, <2>3, <2>4, <3>5, <3>6 DEF ObsInv, Follows
  <2>6. CASE event.kind = "switched"
    <3>1. obs'.streaming = obs.streaming /\ Has(wire', {"scenes", "switched"})
      BY <1>4, <2>2, <2>6
    <3>2. ~SceneSettled'
      BY <3>1 DEF SceneSettled
    <3>3. StreamSettled' => StreamSettled
      BY <1>1, <2>2 DEF StreamSettled, Awaits
    <3>4. ActiveFollows'
      BY <1>1, <2>2, <3>1 DEF ObsInv, Follows, ActiveFollows, Means
    <3>5. StreamFollows'
      BY <1>1, <3>1, <3>3 DEF ObsInv, Follows, StreamFollows, Connected, Awaits
    <3> QED
      BY <1>5, <2>3, <2>4, <3>2, <3>4, <3>5 DEF ObsInv, Follows, SceneFollows
  <2> QED
    BY <1>4, <2>5, <2>6
<1> QED
  BY <1>6, <1>7

\* Requests arrive if there is a connection.
LEMMA ObsSends ==
  ASSUME ObsInv, NEW asked \in Seq(O!Requests), O!Send(asked)
  PROVE  /\ inbox \in Seq(O!Requests) /\ inbox' \in Seq(O!Requests)
         /\ link = "up" => inbox' = inbox \o asked
         /\ link # "up" => inbox' = <<>>
<1>1. inbox \in Seq(O!Requests) /\ (link # "up" => inbox = <<>>)
  BY DEF ObsInv, O!TypeOK, Greeting
<1> QED
  BY <1>1 DEF O!Send

\* What it does to what is on the way that a message is read.
LEMMA ObsReads ==
  ASSUME ObsInv, NEW what, O!Handle(what)
  PROVE  /\ Head(wire) \in O!Responses /\ Head(wire).kind = what /\ link = "up" /\ obsPc = "socket"
         /\ UNCHANGED <<obsPc, enabled, socketEnabled, link, obs, greeted, shows, obsConnections>>
         /\ wire' \in Seq(O!Responses)
         /\ \A kinds : Has(wire, kinds) <=> what \in kinds \/ Has(wire', kinds)
         /\ InOrder'
         /\ what # "hello" => greeted /\ Greeting'
         /\ Latest(wire, {"items"}, {"items"}, obs.scene) =>
              /\ Latest(wire', {"items"}, {"items"}, obs.scene)
              /\ what = "items" /\ ~Has(wire', {"items"}) => O!Value = obs.scene
         /\ what \in {"stream", "streaming"} /\ ~Has(wire', {"streaming"}) => O!Value = obs.streaming
         /\ what \in {"scenes", "switched"} /\ ~Has(wire', {"switched"}) => O!Value = obs.scene
<1>1. /\ wire \in Seq(O!Responses) /\ wire # <<>> /\ wire' = Tail(wire)
      /\ obs' = obs /\ link' = "up" /\ link = "up" /\ greeted' = greeted
      /\ Head(wire).kind = what /\ obsPc = "socket"
  BY DEF ObsInv, O!TypeOK, O!Handle
<1>2. Head(wire) \in O!Responses /\ wire' \in Seq(O!Responses)
  BY <1>1
<1>3. \A kinds : Has(wire, kinds) <=> what \in kinds \/ Has(wire', kinds)
  BY <1>1, HasTail
<1>4. InOrder'
  BY <1>1, LatestTail DEF ObsInv, InOrder
<1>5. what # "hello" => greeted /\ Greeting'
  <2>1. what \in {"hello", "identified", "failed", "stream", "streaming", "scenes", "items", "switched"}
    BY <1>1, <1>2 DEF O!Responses
  <2>2. what # "hello" =>
          Has(wire, {"identified", "stream", "streaming", "scenes", "switched", "items", "failed"})
    BY <1>3, <2>1
  <2>3. what # "hello" => greeted /\ greeted'
    BY <1>1, <2>2 DEF ObsInv, Greeting
  <2> QED
    BY <1>1, <2>3 DEF Greeting
<1>6. Latest(wire, {"items"}, {"items"}, obs.scene) =>
        /\ Latest(wire', {"items"}, {"items"}, obs.scene)
        /\ what = "items" /\ ~Has(wire', {"items"}) => O!Value = obs.scene
  BY <1>1, LatestTail DEF O!Value
<1>7. what \in {"stream", "streaming"} /\ ~Has(wire', {"streaming"}) => O!Value = obs.streaming
  BY <1>1, LatestTail DEF ObsInv, InOrder, O!Value
<1>8. what \in {"scenes", "switched"} /\ ~Has(wire', {"switched"}) => O!Value = obs.scene
  BY <1>1, LatestTail DEF ObsInv, InOrder, O!Value
<1> QED
  BY <1>1, <1>2, <1>3, <1>4, <1>5, <1>6, <1>7, <1>8 DEF O!Handle

LEMMA ObsHello == ASSUME ObsInv, O!Hello PROVE ObsInv'
<1>1. PICK asked \in {<<>>, <<O!Say("identify", Nothing)>>} : O!Ends(waiting, asked)
  BY DEF O!Hello
<1>2. asked \in Seq(O!Requests)
  <2>1. O!Say("identify", Nothing) \in O!Requests
    BY DEF O!Say, O!Requests
  <2>2. <<O!Say("identify", Nothing)>> \in Seq(O!Requests)
    BY <2>1
  <2>3. <<>> \in Seq(O!Requests)
    OBVIOUS
  <2> QED
    BY <1>1, <2>2, <2>3
<1>3. O!Handle("hello") /\ O!Send(asked) /\ UNCHANGED <<handshaking, copy, obsTold, learnt, waiting, setter>>
  BY <1>1 DEF O!Hello, O!Ends
<1>4. /\ wire' \in Seq(O!Responses)
      /\ UNCHANGED <<obsPc, enabled, socketEnabled, link, obs, greeted, shows, obsConnections>>
      /\ link = "up" /\ InOrder'
      /\ \A kinds : Has(wire, kinds) <=> "hello" \in kinds \/ Has(wire', kinds)
      /\ Latest(wire, {"items"}, {"items"}, obs.scene) => Latest(wire', {"items"}, {"items"}, obs.scene)
  BY <1>3, ObsReads
<1>5. inbox \in Seq(O!Requests) /\ inbox' \in Seq(O!Requests) /\ inbox' = inbox \o asked
  BY <1>2, <1>3, <1>4, ObsSends
<1>6. O!TypeOK' /\ O!ConnectedIsUp'
  BY <1>3, <1>4, <1>5 DEF ObsInv, O!TypeOK, O!ConnectedIsUp
<1>7. /\ \A kinds : "identify" \notin kinds => (Has(inbox', kinds) <=> Has(inbox, kinds))
      /\ Latest(inbox, {"items"}, {"items"}, obs.scene) => Latest(inbox', {"items"}, {"items"}, obs.scene)
  <2>1. CASE asked = <<>>
    BY <1>5, <2>1
  <2>2. CASE asked = <<O!Say("identify", Nothing)>>
    <3>1. inbox' = Append(inbox, O!Say("identify", Nothing)) /\ O!Say("identify", Nothing) \in O!Requests
      BY <1>5, <2>2 DEF O!Requests, O!Say
    <3>2. O!Say("identify", Nothing).kind = "identify"
      BY DEF O!Say
    <3>3. \A kinds : "identify" \notin kinds => (Has(inbox', kinds) <=> Has(inbox, kinds))
      BY <1>5, <3>1, <3>2, HasAppend
    <3> QED
      BY <1>5, <3>1, <3>2, <3>3, LatestAppend
  <2> QED
    BY <1>1, <2>1, <2>2
<1>8. Greeting'
  BY <1>3, <1>4 DEF ObsInv, Greeting, Timely
<1>9. ActiveFollows'
  BY <1>3, <1>4 DEF ObsInv, Follows, ActiveFollows, Means
<1>10. StreamFollows'
  BY <1>3, <1>4, <1>7 DEF ObsInv, Follows, StreamFollows, Connected, StreamSettled, Awaits
<1>11. SceneFollows'
  <2>1. (SceneSettled' => SceneSettled) /\ (ItemsFollow => ItemsFollow')
    BY <1>3, <1>4, <1>7 DEF SceneSettled, ItemsFollow
  <2> QED
    BY <1>3, <1>4, <2>1 DEF ObsInv, Follows, SceneFollows, Connected, Timely, Means
<1> QED
  BY <1>4, <1>6, <1>8, <1>9, <1>10, <1>11 DEF ObsInv, Follows

LEMMA ObsIdentified == ASSUME ObsInv, O!Identified PROVE ObsInv'
<1> DEFINE stream == O!Say("stream", Nothing)  scenes == O!Say("scenes", Nothing)
<1>1. /\ stream \in O!Requests /\ scenes \in O!Requests /\ stream.kind = "stream" /\ scenes.kind = "scenes"
      /\ <<stream, scenes>> \in Seq(O!Requests)
  BY DEF O!Say, O!Requests
<1>2. /\ O!Handle("identified") /\ O!Send(<<stream, scenes>>)
      /\ handshaking' = Nothing /\ obsTold' = "connected" /\ UNCHANGED <<copy, learnt, waiting, setter>>
  BY DEF O!Identified, O!Ends
<1> HIDE DEF stream, scenes
<1>3. /\ wire' \in Seq(O!Responses)
      /\ UNCHANGED <<obsPc, enabled, socketEnabled, link, obs, greeted, shows, obsConnections>>
      /\ link = "up" /\ InOrder' /\ Greeting'
      /\ \A kinds : Has(wire, kinds) <=> "identified" \in kinds \/ Has(wire', kinds)
  BY <1>2, ObsReads
<1>4. /\ inbox' \in Seq(O!Requests) /\ inbox \in Seq(O!Requests)
      /\ inbox' = Append(Append(inbox, stream), scenes)
  <2>1. inbox' \in Seq(O!Requests) /\ inbox \in Seq(O!Requests) /\ inbox' = inbox \o <<stream, scenes>>
    BY <1>1, <1>2, <1>3, ObsSends
  <2> QED
    BY <1>1, <2>1
<1>5. Has(inbox', {"stream"}) /\ Has(inbox', {"scenes"})
  <2>1. Append(inbox, stream) \in Seq(O!Requests)
    BY <1>1, <1>4
  <2>2. Has(Append(inbox, stream), {"stream"})
    BY <1>1, <1>4, HasAppend
  <2>3. Has(inbox', {"scenes"})
    BY <1>1, <1>4, <2>1, HasAppend
  <2> QED
    BY <1>1, <1>4, <2>1, <2>2, <2>3, HasAppend
<1>6. O!TypeOK' /\ O!ConnectedIsUp'
  BY <1>2, <1>3, <1>4 DEF ObsInv, O!TypeOK, O!ConnectedIsUp
<1>7. ActiveFollows'
  BY <1>2, <1>3 DEF ObsInv, Follows, ActiveFollows, Means
<1>8. StreamFollows' /\ SceneFollows'
  BY <1>5 DEF StreamFollows, SceneFollows, SceneSettled, StreamSettled
<1> QED
  BY <1>3, <1>6, <1>7, <1>8 DEF ObsInv, Follows

\* What a request that is not for items adds to what is under way.
LEMMA ObsAsks ==
  ASSUME ObsInv, NEW m \in O!Requests, m.kind # "items", link = "up", O!Send(<<m>>)
  PROVE  /\ inbox' \in Seq(O!Requests)
         /\ \A kinds : Has(inbox', kinds) <=> Has(inbox, kinds) \/ m.kind \in kinds
         /\ Latest(inbox, {"items"}, {"items"}, obs.scene) => Latest(inbox', {"items"}, {"items"}, obs.scene)
<1>1. PICK asked \in Seq(O!Requests) : asked = <<m>>
  <2>1. <<m>> \in Seq(O!Requests)
    OBVIOUS
  <2> QED
    BY <2>1
<1>2. inbox' \in Seq(O!Requests) /\ inbox \in Seq(O!Requests) /\ inbox' = inbox \o asked
  BY <1>1, ObsSends
<1>3. inbox' = Append(inbox, m)
  BY <1>1, <1>2
<1> QED
  BY <1>2, <1>3, HasAppend, LatestAppend

\* What a message about the stream leaves as it was of the scene.
LEMMA ObsLeavesScene ==
  ASSUME ObsInv, UNCHANGED <<obsPc, obsTold, obs, setter>>, copy'.scene = copy.scene, copy'.items = copy.items,
         Has(inbox, {"scenes"}) <=> Has(inbox', {"scenes"}), Has(inbox, {"items"}) <=> Has(inbox', {"items"}),
         Latest(inbox, {"items"}, {"items"}, obs.scene) => Latest(inbox', {"items"}, {"items"}, obs.scene),
         Has(wire, {"scenes", "switched"}) <=> Has(wire', {"scenes", "switched"}),
         Has(wire, {"items"}) <=> Has(wire', {"items"}),
         Latest(wire, {"items"}, {"items"}, obs.scene) => Latest(wire', {"items"}, {"items"}, obs.scene),
         Means(waiting, {"scene", "items"}, obs.scene) => Means(waiting', {"scene", "items"}, obs.scene),
         Timely(waiting', {"scene"}) <=> Timely(waiting, {"scene"}),
         Timely(waiting', {"scene", "items"}) <=> Timely(waiting, {"scene", "items"})
  PROVE  SceneFollows'
<1>1. (SceneSettled' => SceneSettled) /\ (ItemsFollow => ItemsFollow')
  BY DEF SceneSettled, ItemsFollow
<1> QED
  BY <1>1 DEF ObsInv, Follows, SceneFollows, Connected

LEMMA CopyParts ==
  ASSUME ObsInv
  PROVE  copy \in [active : BOOLEAN \cup {Nothing}, status : BOOLEAN \cup {Nothing},
                   scene : Scenes \cup {Nothing}, items : Scenes \cup {Nothing}]
BY DEF ObsInv, O!TypeOK

LEMMA ObsStreaming == ASSUME ObsInv, O!StreamStateChanged PROVE ObsInv'
<1> DEFINE stream == O!Say("stream", Nothing)  left == O!Left("stream", Nothing, "timely")
<1>1. /\ stream \in O!Requests /\ stream.kind = "stream"
      /\ left \in O!Lefts /\ left.step = "stream"
  BY DEF O!Say, O!Requests, O!Lefts, O!Whens, O!Left
<1> HIDE DEF stream, left
<1>2. /\ O!Handle("streaming") /\ UNCHANGED <<handshaking, obsTold, setter>>
      /\ copy' = [copy EXCEPT !.active = O!Value] /\ learnt' = TRUE
      /\ O!Ends(waiting, <<stream>>) \/ O!Waits(waiting, left)
  BY DEF O!StreamStateChanged, stream, left
<1>3. /\ Head(wire) \in O!Responses /\ Head(wire).kind = "streaming" /\ wire' \in Seq(O!Responses)
      /\ UNCHANGED <<obsPc, enabled, socketEnabled, link, obs, greeted, shows, obsConnections>>
      /\ link = "up" /\ InOrder' /\ Greeting'
      /\ \A kinds : Has(wire, kinds) <=> "streaming" \in kinds \/ Has(wire', kinds)
      /\ Latest(wire, {"items"}, {"items"}, obs.scene) => Latest(wire', {"items"}, {"items"}, obs.scene)
      /\ ~Has(wire', {"streaming"}) => O!Value = obs.streaming
  BY <1>2, ObsReads
<1>4. O!Value \in BOOLEAN
  BY <1>3 DEF O!Value, O!Responses
<1>5. /\ copy' \in [active : BOOLEAN \cup {Nothing}, status : BOOLEAN \cup {Nothing},
                    scene : Scenes \cup {Nothing}, items : Scenes \cup {Nothing}]
      /\ copy'.active = O!Value /\ copy'.active # Nothing /\ copy'.scene = copy.scene /\ copy'.items = copy.items
  BY <1>2, <1>4, CopyParts, ScriptAssumption DEF O!ObsAssumption
<1>6. waiting \in [Handlers -> O!Lefts] /\ inbox \in Seq(O!Requests)
  BY DEF ObsInv, O!TypeOK
<1>7. /\ waiting' \in [Handlers -> O!Lefts] /\ inbox' \in Seq(O!Requests)
      /\ Has(inbox', {"stream"}) \/ Awaits(waiting', {"stream"})
      /\ \A steps : steps \in {{"scene"}, {"scene", "items"}} => (Timely(waiting', steps) <=> Timely(waiting, steps))
      /\ Means(waiting, {"scene", "items"}, obs.scene) => Means(waiting', {"scene", "items"}, obs.scene)
      /\ Has(inbox, {"scenes"}) <=> Has(inbox', {"scenes"})
      /\ Has(inbox, {"items"}) <=> Has(inbox', {"items"})
      /\ Latest(inbox, {"items"}, {"items"}, obs.scene) => Latest(inbox', {"items"}, {"items"}, obs.scene)
  <2>1. CASE O!Ends(waiting, <<stream>>)
    <3>1. waiting' = waiting /\ O!Send(<<stream>>)
      BY <2>1 DEF O!Ends
    <3> QED
      BY <1>1, <1>3, <1>6, <3>1, ObsAsks DEF Timely, Means
  <2>2. CASE O!Waits(waiting, left)
    BY <1>1, <1>6, <2>2, ObsSuspends
  <2> QED
    BY <1>2, <2>1, <2>2
<1>8. O!TypeOK' /\ O!ConnectedIsUp'
  BY <1>2, <1>3, <1>5, <1>7 DEF ObsInv, O!TypeOK, O!ConnectedIsUp
<1>9. ActiveFollows'
  BY <1>2, <1>3, <1>5 DEF ActiveFollows
<1>10. StreamFollows'
  BY <1>7 DEF StreamFollows, StreamSettled
<1>11. SceneFollows'
  BY <1>2, <1>3, <1>5, <1>7, ObsLeavesScene
<1> QED
  BY <1>3, <1>8, <1>9, <1>10, <1>11 DEF ObsInv, Follows

LEMMA ObsStatus == ASSUME ObsInv, O!StreamStatus PROVE ObsInv'
<1> DEFINE left == O!Left("active", O!Value, "timely")
<1>1. O!Handle("stream") /\ UNCHANGED <<handshaking, obsTold, setter>>
  BY DEF O!StreamStatus
<1>2. /\ Head(wire) \in O!Responses /\ Head(wire).kind = "stream" /\ wire' \in Seq(O!Responses)
      /\ UNCHANGED <<obsPc, enabled, socketEnabled, link, obs, greeted, shows, obsConnections>>
      /\ link = "up" /\ InOrder' /\ Greeting'
      /\ \A kinds : Has(wire, kinds) <=> "stream" \in kinds \/ Has(wire', kinds)
      /\ Latest(wire, {"items"}, {"items"}, obs.scene) => Latest(wire', {"items"}, {"items"}, obs.scene)
      /\ ~Has(wire', {"streaming"}) => O!Value = obs.streaming
  BY <1>1, ObsReads
<1>3. O!Value \in BOOLEAN /\ O!Value # Nothing
  BY <1>2, ScriptAssumption DEF O!Value, O!Responses, O!ObsAssumption
<1>4. left \in O!Lefts /\ left.step = "active" /\ left.value = O!Value
  BY <1>3 DEF O!Lefts, O!Whens, O!Left
<1> HIDE DEF left
<1>5. waiting \in [Handlers -> O!Lefts] /\ inbox \in Seq(O!Requests) /\ learnt \in BOOLEAN
  BY DEF ObsInv, O!TypeOK
<1>6. \/ /\ copy' = [copy EXCEPT !.status = O!Value, !.active = IF @ = Nothing THEN O!Value ELSE @]
         /\ learnt' = (learnt \/ copy.active = Nothing) /\ UNCHANGED <<waiting, inbox>>
      \/ /\ copy.active = Nothing /\ O!Waits(waiting, left)
         /\ copy' = [copy EXCEPT !.status = O!Value] /\ UNCHANGED learnt
  <2>1. O!Send(<<>>) => UNCHANGED inbox
    BY <1>5 DEF O!Send
  <2> QED
    BY <2>1 DEF O!StreamStatus, O!Ends, left
<1>7. /\ waiting' \in [Handlers -> O!Lefts] /\ UNCHANGED inbox
      /\ Awaits(waiting', {"stream"}) <=> Awaits(waiting, {"stream"})
      /\ \A steps : steps \in {{"scene"}, {"scene", "items"}} => (Timely(waiting', steps) <=> Timely(waiting, steps))
      /\ Means(waiting, {"scene", "items"}, obs.scene) => Means(waiting', {"scene", "items"}, obs.scene)
      /\ Means(waiting, {"active"}, obs.streaming) /\ O!Value = obs.streaming =>
           Means(waiting', {"active"}, obs.streaming)
  <2>1. CASE UNCHANGED <<waiting, inbox>>
    BY <1>5, <2>1 DEF Timely, Means, Awaits
  <2>2. CASE O!Waits(waiting, left)
    BY <1>4, <1>5, <2>2, ObsSuspends
  <2> QED
    BY <1>6, <2>1, <2>2
<1>8. /\ copy' \in [active : BOOLEAN \cup {Nothing}, status : BOOLEAN \cup {Nothing},
                    scene : Scenes \cup {Nothing}, items : Scenes \cup {Nothing}]
      /\ copy'.status = O!Value /\ copy'.scene = copy.scene /\ copy'.items = copy.items
  BY <1>3, <1>6, CopyParts
<1>9. /\ copy.active # Nothing => copy'.active = copy.active /\ learnt' = learnt
      /\ copy.active = Nothing => \/ copy'.active = O!Value
                                  \/ /\ copy'.active = Nothing /\ learnt' = learnt
                                     /\ Awaits(waiting', {"active"})
  <2>1. CASE copy' = [copy EXCEPT !.status = O!Value, !.active = IF @ = Nothing THEN O!Value ELSE @]
             /\ learnt' = (learnt \/ copy.active = Nothing)
    BY <1>5, <2>1, CopyParts
  <2>2. CASE /\ copy.active = Nothing /\ O!Waits(waiting, left)
             /\ copy' = [copy EXCEPT !.status = O!Value] /\ UNCHANGED learnt
    <3>1. copy'.active = Nothing
      BY <2>2, CopyParts
    <3>2. Awaits(waiting', {"active"})
      BY <1>4, <1>5, <2>2, ObsSuspends
    <3> QED
      BY <2>2, <3>1, <3>2
  <2> QED
    BY <1>6, <2>1, <2>2
<1>10. O!TypeOK' /\ O!ConnectedIsUp'
  <2>1. learnt' \in BOOLEAN
    BY <1>5, <1>6
  <2> QED
    BY <1>1, <1>2, <1>5, <1>7, <1>8, <2>1 DEF ObsInv, O!TypeOK, O!ConnectedIsUp
<1>11. ActiveFollows'
  <2>1. Has(wire, {"streaming"}) <=> Has(wire', {"streaming"})
    BY <1>2
  <2>2. CASE copy.active # Nothing
    BY <1>2, <1>9, <2>1, <2>2 DEF ObsInv, Follows, ActiveFollows
  <2>3. CASE copy.active = Nothing /\ copy'.active = O!Value
    BY <1>2, <1>3, <2>3 DEF ActiveFollows
  <2>4. CASE copy.active = Nothing /\ copy'.active = Nothing /\ learnt' = learnt
    BY <1>2, <1>7, <2>1, <2>4 DEF ObsInv, Follows, ActiveFollows
  <2> QED
    BY <1>9, <2>2, <2>3, <2>4
<1>12. StreamFollows'
  <2> SUFFICES ASSUME StreamSettled'
               PROVE  copy'.status = obs'.streaming /\ (~Awaits(waiting', {"active"}) => copy'.active # Nothing)
    BY DEF StreamFollows
  <2>1. ~Has(wire', {"streaming"})
    BY DEF StreamSettled, Has
  <2> QED
    BY <1>2, <1>3, <1>8, <1>9, <2>1
<1>13. SceneFollows'
  BY <1>1, <1>2, <1>7, <1>8, ObsLeavesScene
<1> QED
  BY <1>2, <1>10, <1>11, <1>12, <1>13 DEF ObsInv, Follows

\* The items of the scene that OBS shows are asked for.
LEMMA ObsAsksItems ==
  ASSUME ObsInv, NEW s \in Scenes, link = "up", O!Send(<<O!Say("items", s)>>)
  PROVE  /\ inbox' \in Seq(O!Requests)
         /\ Has(inbox', {"items"})
         /\ \A kinds : "items" \notin kinds => (Has(inbox', kinds) <=> Has(inbox, kinds))
         /\ s = obs.scene => Latest(inbox', {"items"}, {"items"}, obs.scene)
<1> DEFINE m == O!Say("items", s)
<1>1. m \in O!Requests /\ m.kind = "items" /\ m.value = s
  BY DEF O!Say, O!Requests
<1> HIDE DEF m
<1>2. PICK asked \in Seq(O!Requests) : asked = <<m>>
  <2>1. <<m>> \in Seq(O!Requests)
    BY <1>1
  <2> QED
    BY <2>1
<1>3. O!Send(asked)
  BY <1>2 DEF m
<1>4. inbox' \in Seq(O!Requests) /\ inbox \in Seq(O!Requests) /\ inbox' = inbox \o asked
  BY <1>3, ObsSends
<1>5. inbox' = Append(inbox, m)
  BY <1>1, <1>2, <1>4
<1>6. \A kinds : Has(inbox', kinds) <=> Has(inbox, kinds) \/ m.kind \in kinds
  BY <1>1, <1>4, <1>5, HasAppend
<1>7. s = obs.scene => Latest(inbox', {"items"}, {"items"}, obs.scene)
  BY <1>1, <1>4, <1>5, LatestAppend
<1> QED
  BY <1>1, <1>4, <1>6, <1>7

\* A message about the scene: it is set and its items are asked for, unless the
\* handler is suspended before.
LEMMA ObsScene == ASSUME ObsInv, O!SceneChanged \/ O!SceneList PROVE ObsInv'
<1> DEFINE left(step) == O!Left(step, O!Value, "timely")
<1>1. PICK what \in {"switched", "scenes"} : O!Handle(what)
  BY DEF O!SceneChanged, O!SceneList
<1>2. UNCHANGED <<handshaking, obsTold, learnt>>
  BY DEF O!SceneChanged, O!SceneList
<1>3. /\ Head(wire) \in O!Responses /\ Head(wire).kind = what /\ wire' \in Seq(O!Responses)
      /\ UNCHANGED <<obsPc, enabled, socketEnabled, link, obs, greeted, shows, obsConnections>>
      /\ link = "up" /\ InOrder' /\ Greeting'
      /\ \A kinds : Has(wire, kinds) <=> what \in kinds \/ Has(wire', kinds)
      /\ ~Has(wire', {"switched"}) => O!Value = obs.scene
  BY <1>1, ObsReads
<1>4. O!Value \in Scenes
  BY <1>3 DEF O!Value, O!Responses
<1>5. \A step \in {"scene", "items"} :
        left(step) \in O!Lefts /\ left(step).step = step /\ left(step).value = O!Value /\ left(step).when = "timely"
  BY <1>4 DEF O!Lefts, O!Whens, O!Left
<1> HIDE DEF left
<1>6. PICK w \in [Handlers -> O!Lefts] : w = O!Overtaking
  BY ObsOvertakes DEF ObsInv, O!TypeOK, O!Overtaking
<1>7. /\ ~Timely(w, {"scene", "items"})
      /\ Awaits(w, {"stream"}) <=> Awaits(waiting, {"stream"})
      /\ Awaits(w, {"active"}) <=> Awaits(waiting, {"active"})
      /\ Means(waiting, {"active"}, obs.streaming) => Means(w, {"active"}, obs.streaming)
      /\ Means(w, {"scene", "items"}, obs.scene)
  BY <1>6, ObsOvertakes DEF ObsInv, O!TypeOK, O!Overtaking
<1>8. \/ /\ copy' = [copy EXCEPT !.scene = O!Value] /\ waiting' = w /\ O!Send(<<O!Say("items", O!Value)>>)
         /\ setter' = [scene |-> "timely", items |-> "timely"]
      \/ /\ copy' = [copy EXCEPT !.scene = O!Value] /\ O!Waits(w, left("items"))
         /\ setter' = [setter EXCEPT !.scene = "timely"]
      \/ UNCHANGED <<copy, setter>> /\ O!Waits(w, left("scene"))
  BY <1>6 DEF O!SceneChanged, O!SceneList, O!SetScene, O!AskItems, O!Ends, left
<1>9. /\ copy' \in [active : BOOLEAN \cup {Nothing}, status : BOOLEAN \cup {Nothing},
                    scene : Scenes \cup {Nothing}, items : Scenes \cup {Nothing}]
      /\ copy'.active = copy.active /\ copy'.status = copy.status
      /\ setter' \in [scene : O!Whens, items : O!Whens]
  <2>1. setter \in [scene : O!Whens, items : O!Whens]
    BY DEF ObsInv, O!TypeOK
  <2> QED
    BY <1>4, <1>8, <2>1, CopyParts DEF O!Whens
<1>10. /\ waiting' \in [Handlers -> O!Lefts] /\ inbox' \in Seq(O!Requests)
       /\ Awaits(waiting', {"stream"}) <=> Awaits(waiting, {"stream"})
       /\ Awaits(waiting', {"active"}) <=> Awaits(waiting, {"active"})
       /\ Means(waiting, {"active"}, obs.streaming) => Means(waiting', {"active"}, obs.streaming)
       /\ O!Value = obs.scene => Means(waiting', {"scene", "items"}, obs.scene)
       /\ Has(inbox', {"stream"}) <=> Has(inbox, {"stream"})
  <2>1. CASE waiting' = w /\ O!Send(<<O!Say("items", O!Value)>>)
    BY <1>3, <1>4, <1>7, <2>1, ObsAsksItems
  <2>2. ASSUME NEW step \in {"scene", "items"}, O!Waits(w, left(step)) PROVE <1>10
    <3>1. PICK l \in O!Lefts : l = left(step)
      BY <1>5
    <3>2. inbox' = inbox /\ inbox \in Seq(O!Requests)
      BY <2>2 DEF O!Waits, ObsInv, O!TypeOK
    <3>3. O!Waits(w, l) /\ l.step = step /\ l.value = O!Value /\ l.when = "timely"
      BY <1>5, <2>2, <3>1
    <3> QED
      BY <1>7, <3>2, <3>3, ObsSuspends
  <2> QED
    BY <1>8, <2>1, <2>2
<1>11. O!TypeOK' /\ O!ConnectedIsUp'
  BY <1>2, <1>3, <1>9, <1>10 DEF ObsInv, O!TypeOK, O!ConnectedIsUp
<1>12. Has(wire, {"streaming"}) <=> Has(wire', {"streaming"})
  BY <1>3
<1>13. ActiveFollows'
  BY <1>2, <1>3, <1>9, <1>10, <1>12 DEF ObsInv, Follows, ActiveFollows
<1>14. StreamFollows'
  <2>1. StreamSettled' => StreamSettled
    BY <1>3, <1>10 DEF StreamSettled
  <2> QED
    BY <1>2, <1>3, <1>9, <1>10, <2>1 DEF ObsInv, Follows, StreamFollows, Connected
<1>15. SceneFollows'
  <2> SUFFICES ASSUME SceneSettled'
               PROVE  /\ Means(waiting', {"scene", "items"}, obs'.scene)
                      /\ setter'.scene = "timely" => Timely(waiting', {"scene"}) \/ copy'.scene = obs'.scene
                      /\ setter'.items = "timely" => Timely(waiting', {"scene", "items"}) \/ ItemsFollow'
    BY DEF SceneFollows
  <2>1. O!Value = obs.scene
    <3>1. ~Has(wire', {"switched"})
      BY DEF SceneSettled, Has
    <3> QED
      BY <1>3, <3>1
  <2>2. Means(waiting', {"scene", "items"}, obs'.scene)
    BY <1>3, <1>10, <2>1
  <2>3. CASE /\ copy' = [copy EXCEPT !.scene = O!Value] /\ waiting' = w
             /\ O!Send(<<O!Say("items", O!Value)>>)
    <3>1. copy'.scene = obs'.scene
      BY <1>3, <2>1, <2>3, CopyParts
    <3>2. Has(inbox', {"items"}) /\ Latest(inbox', {"items"}, {"items"}, obs'.scene)
      BY <1>3, <1>4, <2>1, <2>3, ObsAsksItems
    <3> QED
      BY <2>2, <3>1, <3>2 DEF ItemsFollow
  <2>4. CASE copy' = [copy EXCEPT !.scene = O!Value] /\ O!Waits(w, left("items"))
    <3>1. copy'.scene = obs'.scene
      BY <1>3, <2>1, <2>4, CopyParts
    <3>2. Timely(waiting', {"scene", "items"})
      BY <1>5, <2>4, ObsSuspends
    <3> QED
      BY <2>2, <3>1, <3>2
  <2>5. CASE O!Waits(w, left("scene"))
    <3>1. Timely(waiting', {"scene"}) /\ Timely(waiting', {"scene", "items"})
      BY <1>5, <2>5, ObsSuspends
    <3> QED
      BY <2>2, <3>1
  <2> QED
    BY <1>8, <2>3, <2>4, <2>5
<1> QED
  BY <1>3, <1>11, <1>13, <1>14, <1>15 DEF ObsInv, Follows

\* The items, and the failure to get them.
LEMMA ObsItems == ASSUME ObsInv, O!SceneItemList \/ O!Failed PROVE ObsInv'
<1>1. PICK what \in {"items", "failed"} :
        /\ O!Handle(what) /\ O!Ends(waiting, <<>>) /\ UNCHANGED <<handshaking, obsTold, learnt, setter>>
        /\ copy' = IF what = "items" THEN [copy EXCEPT !.items = O!Value] ELSE copy
  BY DEF O!SceneItemList, O!Failed
<1>2. waiting' = waiting /\ inbox' = inbox /\ inbox \in Seq(O!Requests) /\ waiting \in [Handlers -> O!Lefts]
  <2>1. inbox \in Seq(O!Requests) /\ waiting \in [Handlers -> O!Lefts]
    BY DEF ObsInv, O!TypeOK
  <2> QED
    BY <1>1, <2>1 DEF O!Ends, O!Send
<1>3. /\ wire' \in Seq(O!Responses)
      /\ Head(wire) \in O!Responses /\ Head(wire).kind = what
      /\ UNCHANGED <<obsPc, enabled, socketEnabled, link, obs, greeted, shows, obsConnections>>
  BY <1>1, ObsReads
<1>4. link = "up" /\ InOrder' /\ Greeting'
  BY <1>1, ObsReads
<1>5. /\ \A kinds : Has(wire, kinds) <=> what \in kinds \/ Has(wire', kinds)
      /\ Latest(wire, {"items"}, {"items"}, obs.scene) =>
              /\ Latest(wire', {"items"}, {"items"}, obs.scene)
              /\ what = "items" /\ ~Has(wire', {"items"}) => O!Value = obs.scene
  BY <1>1, ObsReads
<1>6. /\ copy'.scene = copy.scene /\ copy'.active = copy.active /\ copy'.status = copy.status
      /\ copy'.items = IF what = "items" THEN O!Value ELSE copy.items
  BY <1>1, CopyParts
<1>7. O!TypeOK' /\ O!ConnectedIsUp'
  <2>1. what = "items" => O!Value \in Scenes
    BY <1>3 DEF O!Value, O!Responses
  <2>2. copy' \in [active : BOOLEAN \cup {Nothing}, status : BOOLEAN \cup {Nothing},
                   scene : Scenes \cup {Nothing}, items : Scenes \cup {Nothing}]
    BY <1>1, <2>1, CopyParts
  <2> QED
    BY <1>1, <1>2, <1>3, <2>2 DEF ObsInv, O!TypeOK, O!ConnectedIsUp
<1>8. ItemsFollow => ItemsFollow'
  BY <1>1, <1>2, <1>3, <1>5, <1>6 DEF ItemsFollow
<1>9. (SceneSettled' => SceneSettled) /\ (StreamSettled' => StreamSettled)
  BY <1>1, <1>2, <1>5 DEF SceneSettled, StreamSettled, Awaits
<1>10. Has(wire, {"streaming"}) <=> Has(wire', {"streaming"})
  BY <1>1, <1>5
<1>11. ActiveFollows'
  BY <1>1, <1>2, <1>3, <1>6, <1>10 DEF ObsInv, Follows, ActiveFollows, Means
<1>12. StreamFollows'
  BY <1>1, <1>2, <1>3, <1>6, <1>9 DEF ObsInv, Follows, StreamFollows, Connected, Awaits
<1>13. SceneFollows'
  BY <1>1, <1>2, <1>3, <1>6, <1>8, <1>9 DEF ObsInv, Follows, SceneFollows, Connected, Timely, Means
<1> QED
  BY <1>4, <1>7, <1>11, <1>12, <1>13 DEF ObsInv, Follows

\* What stays as it was when a callback returns.
LEMMA ObsReturns ==
  ASSUME ObsInv, NEW h \in Handlers, NEW step, O!Returns(h, step)
  PROVE  /\ waiting[h] \in O!Lefts /\ waiting[h].step = step /\ waiting \in [Handlers -> O!Lefts]
         /\ O!Without(h) \in [Handlers -> O!Lefts]
         /\ obsPc # "ended"
         /\ UNCHANGED <<obsPc, enabled, socketEnabled, link, handshaking, obs, wire, greeted, shows, obsConnections,
                        obsTold>>
         /\ InOrder' /\ O!ConnectedIsUp'
         /\ \A kinds : Has(wire', kinds) <=> Has(wire, kinds)
         /\ step \in {"scene", "items", "active"} /\ waiting[h].when = "timely" => greeted /\ link = "up"
<1>1. waiting \in [Handlers -> O!Lefts]
  BY DEF ObsInv, O!TypeOK
<1>2. /\ waiting[h].step = step /\ obsPc # "ended"
      /\ UNCHANGED <<obsPc, enabled, socketEnabled, link, handshaking, obs, wire, greeted, shows, obsConnections,
                     obsTold>>
  BY DEF O!Returns
<1>3. InOrder' /\ O!ConnectedIsUp' /\ \A kinds : Has(wire', kinds) <=> Has(wire, kinds)
  BY <1>2 DEF ObsInv, InOrder, Latest, Has, O!ConnectedIsUp
<1>4. step \in {"scene", "items", "active"} /\ waiting[h].when = "timely" => greeted /\ link = "up"
  BY <1>2 DEF ObsInv, Greeting, Timely
<1> QED
  BY <1>1, <1>2, <1>3, <1>4, ObsWithout

\* Without a connection nothing arrives, and the rest is not bound to anything.
LEMMA ObsReturnsDown ==
  ASSUME ObsInv, NEW h \in Handlers, NEW step, O!Returns(h, step), link # "up", inbox' = <<>>,
         ~Timely(waiting', {"scene", "items", "active"}), learnt => learnt', learnt' => copy'.active # Nothing
  PROVE  Greeting' /\ Follows'
<1>1. /\ link' # "up" /\ wire' = wire /\ greeted' = greeted /\ wire = <<>> /\ ~greeted
      /\ obsPc' # "ended" /\ obsTold' = obsTold /\ obsTold # "connected"
  BY ObsReturns DEF ObsInv, Greeting, O!ConnectedIsUp
<1>2. Greeting'
  BY <1>1, HasNone DEF Greeting
<1>3. Follows'
  BY <1>1 DEF Follows, ActiveFollows, StreamFollows, SceneFollows, Connected
<1> QED
  BY <1>2, <1>3

LEMMA ObsThenStream == ASSUME ObsInv, NEW h \in Handlers, O!ThenStream(h) PROVE ObsInv'
<1> DEFINE stream == O!Say("stream", Nothing)
<1>1. /\ stream \in O!Requests /\ stream.kind = "stream" /\ <<stream>> \in Seq(O!Requests)
  BY DEF O!Say, O!Requests
<1> HIDE DEF stream
<1>2. /\ O!Returns(h, "stream") /\ waiting' = O!Without(h) /\ O!Send(<<stream>>)
      /\ UNCHANGED <<copy, learnt, setter>>
  BY DEF O!ThenStream, O!Ends, stream
<1>3. /\ waiting[h].step = "stream" /\ waiting \in [Handlers -> O!Lefts]
      /\ waiting' \in [Handlers -> O!Lefts] /\ obsPc # "ended"
      /\ UNCHANGED <<obsPc, enabled, socketEnabled, link, handshaking, obs, wire, greeted, shows, obsConnections,
                     obsTold>>
      /\ InOrder' /\ O!ConnectedIsUp'
      /\ \A kinds : Has(wire', kinds) <=> Has(wire, kinds)
  BY <1>2, ObsReturns
<1>4. /\ Awaits(waiting', {"active"}) <=> Awaits(waiting, {"active"})
      /\ Timely(waiting', {"scene"}) <=> Timely(waiting, {"scene"})
      /\ Timely(waiting', {"scene", "items"}) <=> Timely(waiting, {"scene", "items"})
      /\ Timely(waiting', {"scene", "items", "active"}) <=> Timely(waiting, {"scene", "items", "active"})
      /\ Means(waiting, {"active"}, obs.streaming) => Means(waiting', {"active"}, obs.streaming)
      /\ Means(waiting, {"scene", "items"}, obs.scene) => Means(waiting', {"scene", "items"}, obs.scene)
  BY <1>2, <1>3, ObsWithout
<1>5. inbox' \in Seq(O!Requests) /\ (link # "up" => inbox' = <<>>)
  <2>1. PICK asked \in Seq(O!Requests) : asked = <<stream>>
    BY <1>1
  <2> QED
    BY <1>2, <2>1, ObsSends
<1>6. O!TypeOK'
  BY <1>2, <1>3, <1>5 DEF ObsInv, O!TypeOK
<1>7. CASE link # "up"
  <2>1. ~Timely(waiting', {"scene", "items", "active"}) /\ (learnt => copy.active # Nothing)
    BY <1>4, <1>7 DEF ObsInv, Greeting, Follows, ActiveFollows
  <2>2. Greeting' /\ Follows'
    BY <1>2, <1>5, <1>7, <2>1, ObsReturnsDown
  <2> QED
    BY <1>3, <1>6, <2>2 DEF ObsInv
<1>8. CASE link = "up"
  <2>1. /\ \A kinds : Has(inbox', kinds) <=> Has(inbox, kinds) \/ "stream" \in kinds
        /\ Latest(inbox, {"items"}, {"items"}, obs.scene) => Latest(inbox', {"items"}, {"items"}, obs.scene)
    BY <1>1, <1>2, <1>8, ObsAsks
  <2>2. Greeting'
    BY <1>2, <1>3, <1>4, <1>8 DEF ObsInv, Greeting
  <2>3. ActiveFollows'
    BY <1>2, <1>3, <1>4 DEF ObsInv, Follows, ActiveFollows
  <2>4. StreamFollows'
    BY <2>1 DEF StreamFollows, StreamSettled
  <2>5. SceneFollows'
    <3>1. UNCHANGED <<obsPc, obsTold, obs, setter, copy, wire>>
      BY <1>2, <1>3
    <3>2. Latest(wire, {"items"}, {"items"}, obs.scene) => Latest(wire', {"items"}, {"items"}, obs.scene)
      BY <3>1
    <3> QED
      BY <1>3, <1>4, <2>1, <3>1, <3>2, ObsLeavesScene
  <2> QED
    BY <1>3, <1>6, <2>2, <2>3, <2>4, <2>5 DEF ObsInv, Follows
<1> QED
  BY <1>7, <1>8

LEMMA ObsThenActive == ASSUME ObsInv, NEW h \in Handlers, O!ThenActive(h) PROVE ObsInv'
<1>1. /\ O!Returns(h, "active") /\ waiting' = O!Without(h) /\ O!Send(<<>>) /\ UNCHANGED setter
      /\ copy' = [copy EXCEPT !.active = IF @ = Nothing THEN waiting[h].value ELSE @]
      /\ learnt' = (learnt \/ (copy.active = Nothing /\ waiting[h].when = "timely"))
  BY DEF O!ThenActive, O!Ends
<1>2. /\ waiting[h] \in O!Lefts /\ waiting[h].step = "active" /\ waiting \in [Handlers -> O!Lefts]
      /\ waiting' \in [Handlers -> O!Lefts] /\ obsPc # "ended"
      /\ UNCHANGED <<obsPc, enabled, socketEnabled, link, handshaking, obs, wire, greeted, shows, obsConnections,
                     obsTold>>
      /\ InOrder' /\ O!ConnectedIsUp'
      /\ \A kinds : Has(wire', kinds) <=> Has(wire, kinds)
      /\ waiting[h].when = "timely" => greeted /\ link = "up"
  BY <1>1, ObsReturns
<1>3. waiting[h].value \in BOOLEAN /\ waiting[h].value # Nothing
  <2>1. waiting[h] \in [step : {"active"}, value : BOOLEAN, when : O!Whens]
    BY <1>2 DEF O!Lefts, O!Whens, O!Done, O!Left
  <2> QED
    BY <2>1, ScriptAssumption DEF O!ObsAssumption
<1>4. /\ copy' \in [active : BOOLEAN \cup {Nothing}, status : BOOLEAN \cup {Nothing},
                    scene : Scenes \cup {Nothing}, items : Scenes \cup {Nothing}]
      /\ copy'.active # Nothing /\ copy'.scene = copy.scene /\ copy'.items = copy.items
      /\ copy'.status = copy.status
      /\ copy'.active = IF copy.active = Nothing THEN waiting[h].value ELSE copy.active
  BY <1>1, <1>3, CopyParts
<1>5. /\ Awaits(waiting', {"stream"}) <=> Awaits(waiting, {"stream"})
      /\ Timely(waiting', {"scene"}) <=> Timely(waiting, {"scene"})
      /\ Timely(waiting', {"scene", "items"}) <=> Timely(waiting, {"scene", "items"})
      /\ Timely(waiting', {"scene", "items", "active"}) => Timely(waiting, {"scene", "items", "active"})
      /\ Means(waiting, {"scene", "items"}, obs.scene) => Means(waiting', {"scene", "items"}, obs.scene)
  BY <1>1, <1>2, ObsWithout
<1>6. inbox' = inbox /\ learnt' \in BOOLEAN
  <2>1. inbox \in Seq(O!Requests) /\ learnt \in BOOLEAN
    BY DEF ObsInv, O!TypeOK
  <2> QED
    BY <1>1, <2>1 DEF O!Send
<1>7. O!TypeOK'
  BY <1>1, <1>2, <1>4, <1>6 DEF ObsInv, O!TypeOK
<1>8. Greeting'
  <2>1. ~greeted => waiting[h].when # "timely"
    BY <1>2
  <2>2. ~greeted => learnt' = learnt
    BY <1>1, <2>1 DEF ObsInv, O!TypeOK
  <2> QED
    BY <1>2, <1>5, <1>6, <2>2 DEF ObsInv, Greeting
<1>9. ActiveFollows'
  <2>1. ASSUME link = "up", ~Has(wire, {"streaming"}), learnt' PROVE copy'.active = obs.streaming
    <3>1. CASE learnt
      BY <1>4, <2>1, <3>1 DEF ObsInv, Follows, ActiveFollows
    <3>2. CASE ~learnt
      <4>1. copy.active = Nothing /\ waiting[h].when = "timely"
        BY <1>1, <2>1, <3>2
      <4>2. waiting[h].value = obs.streaming
        BY <1>2, <2>1, <4>1 DEF ObsInv, Follows, ActiveFollows, Means
      <4> QED
        BY <1>4, <4>1, <4>2
    <3> QED
      BY <3>1, <3>2
  <2> QED
    BY <1>2, <1>4, <2>1 DEF ActiveFollows
<1>10. StreamFollows'
  <2>1. StreamSettled' => StreamSettled
    BY <1>2, <1>5, <1>6 DEF StreamSettled
  <2> QED
    BY <1>2, <1>4, <2>1 DEF ObsInv, Follows, StreamFollows, Connected
<1>11. SceneFollows'
  BY <1>1, <1>2, <1>4, <1>5, <1>6, ObsLeavesScene
<1> QED
  BY <1>2, <1>7, <1>8, <1>9, <1>10, <1>11 DEF ObsInv, Follows

\* The scene is set, and its items are asked for, by a handler that was suspended.
LEMMA ObsThenScene == ASSUME ObsInv, NEW h \in Handlers, O!ThenScene(h) \/ O!ThenItems(h) PROVE ObsInv'
<1> DEFINE s == waiting[h].value  when == waiting[h].when  left == O!Left("items", s, when)
           asked == <<O!Say("items", s)>>
<1>1. PICK step \in {"scene", "items"} :
        /\ O!Returns(h, step) /\ UNCHANGED learnt
        /\ \/ /\ waiting' = O!Without(h) /\ O!Send(asked)
              /\ setter' = IF step = "scene" THEN [scene |-> when, items |-> when]
                                             ELSE [setter EXCEPT !.items = when]
           \/ /\ step = "scene" /\ O!Waits(O!Without(h), left) /\ setter' = [setter EXCEPT !.scene = when]
        /\ copy' = IF step = "scene" THEN [copy EXCEPT !.scene = s] ELSE copy
  BY DEF O!ThenScene, O!ThenItems, O!SetScene, O!AskItems, O!Ends
<1>2. /\ waiting[h] \in O!Lefts /\ waiting[h].step = step /\ waiting \in [Handlers -> O!Lefts]
      /\ O!Without(h) \in [Handlers -> O!Lefts] /\ obsPc # "ended"
      /\ UNCHANGED <<obsPc, enabled, socketEnabled, link, handshaking, obs, wire, greeted, shows, obsConnections,
                     obsTold>>
      /\ InOrder' /\ O!ConnectedIsUp'
      /\ \A kinds : Has(wire', kinds) <=> Has(wire, kinds)
      /\ when = "timely" => greeted /\ link = "up"
  BY <1>1, ObsReturns
<1>3. s \in Scenes /\ when \in {"timely", "late"}
  <2>1. waiting[h] \in [step : {"scene", "items"}, value : Scenes, when : O!Whens]
    BY <1>2 DEF O!Lefts, O!Whens, O!Done, O!Left
  <2> QED
    BY <2>1 DEF O!Whens
<1>4. left \in O!Lefts /\ left.step = "items" /\ left.value = s /\ left.when = when
  BY <1>3 DEF O!Lefts, O!Whens, O!Left
<1>5. asked \in Seq(O!Requests)
  <2>1. O!Say("items", s) \in O!Requests
    BY <1>3 DEF O!Say, O!Requests
  <2> QED
    BY <2>1
<1> HIDE DEF left
<1>6. setter \in [scene : O!Whens, items : O!Whens] /\ inbox \in Seq(O!Requests)
  BY DEF ObsInv, O!TypeOK
<1>7. /\ copy' \in [active : BOOLEAN \cup {Nothing}, status : BOOLEAN \cup {Nothing},
                    scene : Scenes \cup {Nothing}, items : Scenes \cup {Nothing}]
      /\ copy'.active = copy.active /\ copy'.status = copy.status /\ copy'.items = copy.items
      /\ copy'.scene = IF step = "scene" THEN s ELSE copy.scene
      /\ setter' \in [scene : O!Whens, items : O!Whens]
  <2>1. copy' = [copy EXCEPT !.scene = s] \/ (copy' = copy /\ step = "items")
    BY <1>1
  <2>2. setter' \in [scene : O!Whens, items : O!Whens]
    BY <1>1, <1>3, <1>6 DEF O!Whens
  <2> QED
    BY <1>1, <1>3, <2>1, <2>2, CopyParts
<1>8. /\ waiting' \in [Handlers -> O!Lefts] /\ inbox' \in Seq(O!Requests) /\ (link # "up" => inbox' = <<>>)
      /\ \A kinds : "items" \notin kinds => (Has(inbox', kinds) <=> Has(inbox, kinds))
      /\ Awaits(waiting', {"stream"}) <=> Awaits(waiting, {"stream"})
      /\ Awaits(waiting', {"active"}) <=> Awaits(waiting, {"active"})
      /\ Timely(waiting', {"scene", "items", "active"}) => Timely(waiting, {"scene", "items", "active"})
      /\ when = "late" => /\ Timely(waiting', {"scene"}) <=> Timely(waiting, {"scene"})
                          /\ Timely(waiting', {"scene", "items"}) <=> Timely(waiting, {"scene", "items"})
      /\ Means(waiting, {"active"}, obs.streaming) => Means(waiting', {"active"}, obs.streaming)
      /\ Means(waiting, {"scene", "items"}, obs.scene) => Means(waiting', {"scene", "items"}, obs.scene)
  <2>1. CASE waiting' = O!Without(h) /\ O!Send(asked)
    <3>1. inbox' \in Seq(O!Requests) /\ (link # "up" => inbox' = <<>> /\ inbox = <<>>)
      BY <1>5, <2>1, ObsSends DEF ObsInv, Greeting
    <3>2. \A kinds : "items" \notin kinds => (Has(inbox', kinds) <=> Has(inbox, kinds))
      BY <1>3, <2>1, <3>1, ObsAsksItems
    <3> QED
      BY <1>2, <2>1, <3>1, <3>2, ObsWithout
  <2>2. CASE step = "scene" /\ O!Waits(O!Without(h), left)
    <3>1. inbox' = inbox /\ (link # "up" => inbox = <<>>)
      BY <2>2 DEF O!Waits, ObsInv, Greeting
    <3>2. /\ waiting' \in [Handlers -> O!Lefts]
          /\ Awaits(waiting', {"stream"}) <=> Awaits(O!Without(h), {"stream"})
          /\ Awaits(waiting', {"active"}) <=> Awaits(O!Without(h), {"active"})
          /\ Timely(waiting', {"scene", "items", "active"}) <=>
               Timely(O!Without(h), {"scene", "items", "active"}) \/ when = "timely"
          /\ Timely(waiting', {"scene"}) <=> Timely(O!Without(h), {"scene"})
          /\ Timely(waiting', {"scene", "items"}) <=> Timely(O!Without(h), {"scene", "items"}) \/ when = "timely"
          /\ Means(O!Without(h), {"active"}, obs.streaming) => Means(waiting', {"active"}, obs.streaming)
          /\ Means(O!Without(h), {"scene", "items"}, obs.scene) /\ (when = "timely" => s = obs.scene) =>
               Means(waiting', {"scene", "items"}, obs.scene)
      BY <1>2, <1>4, <2>2, ObsSuspends
    <3>3. Means(waiting, {"scene", "items"}, obs.scene) /\ when = "timely" => s = obs.scene
      BY <1>2 DEF Means
    <3>4. /\ Awaits(O!Without(h), {"stream"}) <=> Awaits(waiting, {"stream"})
          /\ Awaits(O!Without(h), {"active"}) <=> Awaits(waiting, {"active"})
          /\ Timely(waiting, {"scene", "items", "active"}) <=>
               Timely(O!Without(h), {"scene", "items", "active"}) \/ when = "timely"
          /\ Timely(waiting, {"scene"}) <=> Timely(O!Without(h), {"scene"}) \/ when = "timely"
          /\ Timely(waiting, {"scene", "items"}) <=> Timely(O!Without(h), {"scene", "items"}) \/ when = "timely"
          /\ Means(waiting, {"active"}, obs.streaming) => Means(O!Without(h), {"active"}, obs.streaming)
          /\ Means(waiting, {"scene", "items"}, obs.scene) => Means(O!Without(h), {"scene", "items"}, obs.scene)
      BY <1>2, <2>2, ObsWithout
    <3> QED
      BY <1>6, <3>1, <3>2, <3>3, <3>4
  <2> QED
    BY <1>1, <2>1, <2>2
<1>9. O!TypeOK'
  BY <1>1, <1>2, <1>7, <1>8 DEF ObsInv, O!TypeOK
<1>10. CASE link # "up"
  <2>1. ~Timely(waiting', {"scene", "items", "active"}) /\ (learnt => copy.active # Nothing)
    BY <1>8, <1>10 DEF ObsInv, Greeting, Follows, ActiveFollows
  <2>2. Greeting' /\ Follows'
    BY <1>1, <1>7, <1>8, <1>10, <2>1, ObsReturnsDown
  <2> QED
    BY <1>2, <1>9, <2>2 DEF ObsInv
<1>11. CASE link = "up"
  <2>1. Greeting'
    BY <1>1, <1>2, <1>8, <1>11 DEF ObsInv, Greeting
  <2>2. ActiveFollows'
    BY <1>1, <1>2, <1>7, <1>8 DEF ObsInv, Follows, ActiveFollows
  <2>3. StreamFollows'
    <3>1. StreamSettled' => StreamSettled
      BY <1>2, <1>8 DEF StreamSettled
    <3> QED
      BY <1>2, <1>7, <1>8, <3>1 DEF ObsInv, Follows, StreamFollows, Connected
  <2>4. SceneFollows'
    <3> SUFFICES ASSUME Connected', SceneSettled'
                 PROVE  /\ Means(waiting', {"scene", "items"}, obs'.scene)
                        /\ setter'.scene = "timely" => Timely(waiting', {"scene"}) \/ copy'.scene = obs'.scene
                        /\ setter'.items = "timely" => Timely(waiting', {"scene", "items"}) \/ ItemsFollow'
      BY DEF SceneFollows
    <3>1. Connected /\ SceneSettled
      BY <1>2, <1>8 DEF Connected, SceneSettled
    <3>2. /\ Means(waiting, {"scene", "items"}, obs.scene)
          /\ setter.scene = "timely" => Timely(waiting, {"scene"}) \/ copy.scene = obs.scene
          /\ setter.items = "timely" => Timely(waiting, {"scene", "items"}) \/ ItemsFollow
      BY <3>1 DEF ObsInv, Follows, SceneFollows
    <3>3. Means(waiting', {"scene", "items"}, obs'.scene)
      BY <1>2, <1>8, <3>2
    <3>4. CASE when = "late"
      <4>1. setter'.scene = "timely" => setter.scene = "timely" /\ step = "items"
        BY <1>1, <1>6, <3>4
      <4>2. setter'.items = "timely" => setter.items = "timely" /\ inbox' = inbox
        BY <1>1, <1>6, <3>4 DEF O!Waits
      <4>3. setter'.items = "timely" => Timely(waiting', {"scene", "items"}) \/ ItemsFollow'
        BY <1>2, <1>7, <1>8, <3>2, <3>4, <4>2 DEF ItemsFollow
      <4> QED
        BY <1>2, <1>7, <1>8, <3>2, <3>3, <3>4, <4>1, <4>3
    <3>5. CASE when = "timely" /\ waiting' = O!Without(h) /\ O!Send(asked)
      <4>1. s = obs.scene
        BY <1>2, <3>2, <3>5 DEF Means
      <4>2. ItemsFollow'
        <5>1. Has(inbox', {"items"}) /\ Latest(inbox', {"items"}, {"items"}, obs'.scene)
          BY <1>2, <1>3, <1>11, <3>5, <4>1, ObsAsksItems
        <5> QED
          BY <5>1 DEF ItemsFollow
      <4>3. setter'.scene = "timely" => Timely(waiting', {"scene"}) \/ copy'.scene = obs'.scene
        <5>1. CASE step = "scene"
          BY <1>2, <1>7, <4>1, <5>1
        <5>2. CASE step = "items"
          <6>1. setter'.scene = setter.scene
            BY <1>1, <1>6, <5>2
          <6>2. Timely(waiting, {"scene"}) => Timely(waiting', {"scene"})
            BY <1>2, <3>5, <5>2, ObsWithout
          <6> QED
            BY <1>2, <1>7, <3>2, <5>2, <6>1, <6>2
        <5> QED
          BY <5>1, <5>2
      <4> QED
        BY <3>3, <4>2, <4>3
    <3>6. CASE when = "timely" /\ step = "scene" /\ O!Waits(O!Without(h), left)
      <4>1. s = obs.scene
        BY <1>2, <3>2, <3>6 DEF Means
      <4>2. Timely(waiting', {"scene", "items"})
        BY <1>2, <1>4, <3>6, ObsSuspends
      <4> QED
        BY <1>2, <1>7, <3>3, <3>6, <4>1, <4>2
    <3> QED
      BY <1>1, <1>3, <3>4, <3>5, <3>6
  <2> QED
    BY <1>2, <1>9, <2>1, <2>2, <2>3, <2>4 DEF ObsInv, Follows
<1> QED
  BY <1>10, <1>11

LEMMA ObsStep == ASSUME ObsInv, [O!Next]_(O!vars) PROVE ObsInv'
<1>1. CASE UNCHANGED O!vars
  <2>1. O!TypeOK' /\ O!ConnectedIsUp'
    BY <1>1 DEF ObsInv, O!TypeOK, O!ConnectedIsUp, O!vars, O!serverVars, O!handlerVars
  <2> QED
    BY <1>1, <2>1, ObsStays DEF ObsInv, O!vars, O!serverVars, O!handlerVars
<1>2. CASE O!Socket
  BY <1>2, ObsLinks, ObsHello, ObsIdentified, ObsStreaming, ObsStatus, ObsScene, ObsItems
  DEF O!Socket, O!OnMessage
<1>3. ASSUME NEW h \in Handlers, O!Goes(h) PROVE ObsInv'
  BY <1>3, ObsThenStream, ObsThenActive, ObsThenScene DEF O!Goes
<1> QED
  BY <1>1, <1>2, <1>3, ObsTicks, ObsAnswers, ObsChanges DEF O!Next

LEMMA ObsConcludes == ASSUME ObsInv PROVE O!TypeOK /\ O!ObsHolds
<1>1. O!CopyAgrees
  <2> SUFFICES ASSUME O!Quiet
               PROVE  /\ copy.status = obs.streaming
                      /\ setter.scene = "timely" => copy.scene = obs.scene
                      /\ setter.items = "timely" => copy.items = obs.scene
                      /\ copy.active # Nothing /\ (learnt => copy.active = obs.streaming)
    BY DEF O!CopyAgrees
  <2>1. \A kinds : ~Has(inbox, kinds) /\ ~Has(wire, kinds)
    BY HasNone DEF O!Quiet
  <2>2. Connected /\ link = "up"
    BY DEF O!Quiet, ObsInv, O!ConnectedIsUp, Connected
  <2>3. \A steps : "none" \notin steps => ~Awaits(waiting, steps) /\ ~Timely(waiting, steps)
    BY DEF O!Quiet, O!Done, O!Left, Awaits, Timely
  <2>4. SceneSettled /\ StreamSettled
    BY <2>1, <2>3 DEF SceneSettled, StreamSettled
  <2>5. ItemsFollow => copy.items = obs.scene
    BY <2>1 DEF ItemsFollow
  <2>6. /\ setter.scene = "timely" => copy.scene = obs.scene
        /\ setter.items = "timely" => copy.items = obs.scene
    BY <2>2, <2>3, <2>4, <2>5 DEF ObsInv, Follows, SceneFollows
  <2>7. copy.status = obs.streaming /\ copy.active # Nothing
    BY <2>2, <2>3, <2>4 DEF ObsInv, Follows, StreamFollows
  <2>8. learnt => copy.active = obs.streaming
    BY <2>1, <2>2 DEF ObsInv, Follows, ActiveFollows
  <2> QED
    BY <2>6, <2>7, <2>8
<1> QED
  BY <1>1 DEF ObsInv, O!ObsHolds

-----------------------------------------------------------------------------
(* Secrets.                                                                *)

\* Secrets counts and selects as Selection does.
LEMMA SecretsSelect == \A s, places : S!Only(s, places) = Only(s, places)
<1>1. \A Z : S!Cardinality(Z) = Cardinality(Z)
  BY DEF S!Cardinality, Cardinality
<1>2. \A places, i : S!Rank(places, i) = Rank(places, i)
  BY <1>1 DEF S!Rank, Rank
<1>3. \A places, n : S!At(places, n) = At(places, n)
  BY <1>2 DEF S!At, At
<1> QED
  BY <1>1, <1>3 DEF S!Only, Only

\* What the sandbox's file holds, and that no key is set twice.
Setting == [key : SecretKeys, value : S!Texts]
Holds(lines, k, c) == \E i \in DOMAIN lines : lines[i].key = k /\ lines[i].value.core = c
Distinct(lines) == \A i, j \in DOMAIN lines : lines[i].key = lines[j].key => i = j
Same(f, g) == \A k \in SecretKeys, c \in Cores : Holds(f, k, c) <=> Holds(g, k, c)

\* Nothing is lost with lines that set nothing.
LEMMA Selected ==
  ASSUME NEW lines \in Seq(Setting), Distinct(lines), NEW places \in SUBSET (1..Len(lines)),
         \A i \in DOMAIN lines : lines[i].value.core \in Cores => i \in places
  PROVE  /\ S!Only(lines, places) \in Seq(Setting)
         /\ Distinct(S!Only(lines, places)) /\ Same(S!Only(lines, places), lines)
         /\ \A n \in DOMAIN S!Only(lines, places) : \E i \in places : S!Only(lines, places)[n] = lines[i]
<1> DEFINE o == S!Only(lines, places)
<1>1. /\ o \in Seq(Setting)
      /\ \A i \in places : \E n \in 1..Len(o) : o[n] = lines[i]
      /\ \E pos \in [1..Len(o) -> places] :
           /\ \A n \in 1..Len(o) : o[n] = lines[pos[n]]
           /\ \A m, n \in 1..Len(o) : pos[m] = pos[n] => m = n
  BY OnlyProperties, SecretsSelect
<1> HIDE DEF o
<1>2. PICK pos \in [1..Len(o) -> places] :
           /\ \A n \in 1..Len(o) : o[n] = lines[pos[n]]
           /\ \A m, n \in 1..Len(o) : pos[m] = pos[n] => m = n
  BY <1>1
<1>3. DOMAIN o = 1..Len(o) /\ DOMAIN lines = 1..Len(lines)
  BY <1>1
<1>4. \A n \in DOMAIN o : \E i \in places : o[n] = lines[i]
  BY <1>2, <1>3
<1>5. Distinct(o)
  <2> SUFFICES ASSUME NEW m \in DOMAIN o, NEW n \in DOMAIN o, o[m].key = o[n].key
               PROVE  m = n
    BY DEF Distinct
  <2>1. pos[m] \in DOMAIN lines /\ pos[n] \in DOMAIN lines /\ lines[pos[m]].key = lines[pos[n]].key
    BY <1>2, <1>3
  <2>2. pos[m] = pos[n]
    BY <2>1 DEF Distinct
  <2> QED
    BY <1>2, <1>3, <2>2
<1>6. Same(o, lines)
  <2> SUFFICES ASSUME NEW k \in SecretKeys, NEW c \in Cores
               PROVE  Holds(o, k, c) <=> Holds(lines, k, c)
    BY DEF Same
  <2>1. ASSUME Holds(o, k, c) PROVE Holds(lines, k, c)
    BY <1>3, <1>4, <2>1 DEF Holds
  <2>2. ASSUME Holds(lines, k, c) PROVE Holds(o, k, c)
    <3>1. PICK i \in DOMAIN lines : lines[i].key = k /\ lines[i].value.core = c
      BY <2>2 DEF Holds
    <3>2. i \in places
      BY <3>1
    <3> QED
      BY <1>1, <1>3, <3>1, <3>2 DEF Holds
  <2> QED
    BY <2>1, <2>2
<1> QED
  BY <1>1, <1>4, <1>5, <1>6 DEF o

\* A text that is trimmed is empty if and only if there is nothing in it.
LEMMA Trimmed ==
  ASSUME NEW v \in S!Texts
  PROVE  /\ S!Trim(v) \in S!Texts /\ S!Trim(v).core = v.core
         /\ v.core \in Cores => ~S!IsEmpty(v)
         /\ v.core \in Cores <=> ~S!IsEmpty(S!Trim(v))
<1>1. Nothing \notin Cores
  BY DataAssumption DEF S!SecretsAssumption
<1>2. /\ v.core \in Cores \cup {Nothing} /\ v.blank \in BOOLEAN
      /\ v = [core |-> v.core, blank |-> v.blank]
  BY DEF S!Texts
<1> DEFINE w == S!Trim(v)
<1>3. w = [core |-> v.core, blank |-> FALSE]
  <2> DEFINE f == FALSE
  <2>1. w = [v EXCEPT !.blank = f]
    BY DEF S!Trim
  <2> HIDE DEF f, w
  <2>2. w = [core |-> v.core, blank |-> f]
    BY <2>1 DEF S!Texts
  <2> QED
    BY <2>2 DEF f
<1>4. w \in S!Texts /\ w.core = v.core
  BY <1>2, <1>3 DEF S!Texts
<1>5. v.core \in Cores => ~S!IsEmpty(v) /\ ~S!IsEmpty(w)
  BY <1>1, <1>2, <1>4 DEF S!IsEmpty
<1>6. v.core \notin Cores => S!IsEmpty(w)
  BY <1>2, <1>3 DEF S!IsEmpty
<1> QED
  BY <1>4, <1>5, <1>6

LEMMA ParseKeeps ==
  ASSUME NEW lines \in Seq(Setting), Distinct(lines)
  PROVE  /\ S!ParseSettings(lines) \in Seq(Setting)
         /\ Distinct(S!ParseSettings(lines)) /\ Same(S!ParseSettings(lines), lines)
         /\ \A n \in DOMAIN S!ParseSettings(lines) : S!ParseSettings(lines)[n].value.core \in Cores
<1> DEFINE t == [i \in DOMAIN lines |-> [lines[i] EXCEPT !.value = S!Trim(@)]]
           places == {i \in DOMAIN lines : lines[i].key # Comment /\ ~S!IsEmpty(S!Trim(lines[i].value))}
<1>1. S!ParseSettings(lines) = S!Only(t, places)
  BY DEF S!ParseSettings
<1>2. ASSUME NEW i \in DOMAIN lines
      PROVE  /\ lines[i] \in Setting /\ t[i] \in Setting
             /\ t[i].key = lines[i].key /\ t[i].value.core = lines[i].value.core
             /\ i \in places <=> lines[i].value.core \in Cores
  <2>1. lines[i] \in Setting
    OBVIOUS
  <2>2. /\ lines[i].value \in S!Texts /\ lines[i].key \in SecretKeys
        /\ t[i] = [key |-> lines[i].key, value |-> S!Trim(lines[i].value)]
    BY <2>1 DEF Setting
  <2>3. lines[i].key # Comment
    BY <2>2, DataAssumption DEF S!SecretsAssumption
  <2>4. S!Trim(lines[i].value) \in S!Texts /\ S!Trim(lines[i].value).core = lines[i].value.core
    BY <2>2, Trimmed
  <2>5. i \in places <=> lines[i].value.core \in Cores
    BY <2>2, <2>3, Trimmed
  <2> HIDE DEF t, places
  <2> QED
    BY <2>1, <2>2, <2>4, <2>5 DEF Setting
<1>3. t \in Seq(Setting) /\ Len(t) = Len(lines) /\ DOMAIN t = DOMAIN lines
  <2>1. DOMAIN lines = 1..Len(lines) /\ Len(lines) \in Nat
    OBVIOUS
  <2>2. t \in [1..Len(lines) -> Setting]
    BY <1>2, <2>1
  <2> HIDE DEF t
  <2> QED
    BY <2>1, <2>2, FunctionIsSeq
<1>4. places \in SUBSET (1..Len(t))
  BY <1>3
<1> HIDE DEF t, places
<1>5. Distinct(t)
  BY <1>2, <1>3 DEF Distinct
<1>6. Same(t, lines)
  BY <1>2, <1>3 DEF Same, Holds
<1>7. \A i \in DOMAIN t : t[i].value.core \in Cores => i \in places
  BY <1>2, <1>3
<1>8. /\ S!Only(t, places) \in Seq(Setting)
      /\ Distinct(S!Only(t, places)) /\ Same(S!Only(t, places), t)
      /\ \A n \in DOMAIN S!Only(t, places) : \E i \in places : S!Only(t, places)[n] = t[i]
  BY <1>3, <1>4, <1>5, <1>7, Selected
<1>9. Same(S!Only(t, places), lines)
  BY <1>6, <1>8 DEF Same
<1>10. \A n \in DOMAIN S!Only(t, places) : S!Only(t, places)[n].value.core \in Cores
  <2>1. \A i \in places : t[i].value.core \in Cores
    BY <1>2, <1>3, <1>4
  <2> QED
    BY <1>8, <2>1
<1> QED
  BY <1>1, <1>8, <1>9, <1>10

LEMMA WrittenKeeps ==
  ASSUME NEW settings \in Seq(Setting), Distinct(settings)
  PROVE  /\ S!Written(settings) \in Seq(Setting)
         /\ Distinct(S!Written(settings)) /\ Same(S!Written(settings), settings)
<1> DEFINE places == {i \in DOMAIN settings : ~S!IsEmpty(settings[i].value)}
<1>1. S!Written(settings) = S!Only(settings, places)
  BY DEF S!Written
<1>2. places \in SUBSET (1..Len(settings))
  OBVIOUS
<1>3. \A i \in DOMAIN settings : settings[i].value.core \in Cores => i \in places
  <2> TAKE i \in DOMAIN settings
  <2>1. settings[i] \in Setting
    OBVIOUS
  <2>2. settings[i].value \in S!Texts
    BY <2>1 DEF Setting
  <2> QED
    BY <2>2, Trimmed
<1> HIDE DEF places
<1> QED
  BY <1>1, <1>2, <1>3, Selected

LEMMA FirstHasKey ==
  ASSUME NEW settings \in Seq(Setting), NEW k, S!HasKey(settings, k)
  PROVE  S!FirstOf(settings, k) \in DOMAIN settings /\ settings[S!FirstOf(settings, k)].key = k
<1> DEFINE N == {i \in DOMAIN settings : settings[i].key = k}
<1>1. N \subseteq Nat /\ N # {} /\ DOMAIN settings = 1..Len(settings) /\ Len(settings) \in Nat
  BY DEF S!HasKey
<1>2. PICK n \in N : \A m \in N : n <= m
  <2> HIDE DEF N
  <2> QED
    BY <1>1, LeastNumber
<1>3. ASSUME NEW j \in 1..n - 1 PROVE settings[j].key # k
  <2>1. j \in DOMAIN settings /\ ~(n <= j)
    BY <1>1, <1>2
  <2> QED
    BY <1>2, <2>1
<1>4. \E i \in DOMAIN settings : settings[i].key = k /\ \A j \in 1 .. i - 1 : settings[j].key # k
  BY <1>2, <1>3
<1> QED
  BY <1>4 DEF S!FirstOf

\* Storing under one key changes nothing of the others.
LEMMA ReplaceKeeps ==
  ASSUME NEW settings \in Seq(Setting), Distinct(settings), NEW k \in SecretKeys, NEW v \in S!Texts
  PROVE  LET r == S!Replaced(settings, k, v)
         IN  /\ r \in Seq(Setting) /\ Distinct(r)
             /\ \A o \in SecretKeys, c \in Cores :
                  Holds(r, o, c) <=> IF o = k THEN v.core = c ELSE Holds(settings, o, c)
<1> DEFINE r == S!Replaced(settings, k, v)
           n == S!FirstOf(settings, k)
           line == [key |-> k, value |-> v]
<1>1. line \in Setting /\ Len(settings) \in Nat /\ DOMAIN settings = 1..Len(settings)
  BY DEF Setting
<1>2. CASE S!HasKey(settings, k)
  <2>1. n \in DOMAIN settings /\ settings[n].key = k
    BY <1>2, FirstHasKey
  <2> HIDE DEF n
  <2>2. [settings[n] EXCEPT !.value = v] = line
    <3>1. settings[n] \in Setting
      BY <2>1
    <3> QED
      BY <2>1, <3>1 DEF Setting
  <2>3. r = [settings EXCEPT ![n] = line]
    BY <1>2, <2>1, <2>2 DEF S!Replaced, n
  <2> HIDE DEF r, line
  <2>4. /\ r \in Seq(Setting) /\ Len(r) = Len(settings) /\ r[n] = line
        /\ \A i \in 1..Len(settings) : i # n => r[i] = settings[i]
    BY <1>1, <2>1, <2>3, SeqExcept
  <2>5. DOMAIN r = DOMAIN settings
    BY <1>1, <2>4
  <2>6. line.key = k /\ line.value = v
    BY DEF line
  <2>7. \A i \in DOMAIN settings : r[i].key = settings[i].key
    BY <1>1, <2>1, <2>4, <2>6
  <2>8. Distinct(r)
    BY <2>5, <2>7 DEF Distinct
  <2>9. ASSUME NEW i \in DOMAIN settings, settings[i].key = k PROVE i = n
    BY <2>1, <2>9 DEF Distinct
  <2>10. ASSUME NEW o \in SecretKeys, NEW c \in Cores, o = k
         PROVE  Holds(r, o, c) <=> v.core = c
    BY <1>1, <2>1, <2>4, <2>5, <2>6, <2>7, <2>9, <2>10 DEF Holds
  <2>11. ASSUME NEW o \in SecretKeys, NEW c \in Cores, o # k
         PROVE  Holds(r, o, c) <=> Holds(settings, o, c)
    <3>1. \A i \in DOMAIN settings : settings[i].key = o => r[i] = settings[i]
      BY <1>1, <2>1, <2>4, <2>11
    <3> QED
      BY <2>5, <2>7, <3>1 DEF Holds
  <2> QED
    BY <2>4, <2>8, <2>10, <2>11 DEF r
<1>3. CASE ~S!HasKey(settings, k)
  <2>1. r = Append(settings, line)
    BY <1>3 DEF S!Replaced
  <2> HIDE DEF r, line
  <2>2. /\ r \in Seq(Setting) /\ DOMAIN r = DOMAIN settings \cup {Len(settings) + 1}
        /\ \A i \in DOMAIN settings : r[i] = settings[i]
        /\ r[Len(settings) + 1] = line
    BY <1>1, <2>1
  <2>3. line.key = k /\ line.value = v
    BY DEF line
  <2>4. \A i \in DOMAIN settings : settings[i].key # k
    BY <1>3 DEF S!HasKey
  <2>5. Distinct(r)
    BY <2>2, <2>3, <2>4 DEF Distinct
  <2>6. ASSUME NEW o \in SecretKeys, NEW c \in Cores, o = k
        PROVE  Holds(r, o, c) <=> v.core = c
    <3>1. ASSUME Holds(r, o, c) PROVE v.core = c
      BY <2>2, <2>3, <2>4, <2>6, <3>1 DEF Holds
    <3>2. ASSUME v.core = c PROVE Holds(r, o, c)
      BY <2>2, <2>3, <2>6, <3>2 DEF Holds
    <3> QED
      BY <3>1, <3>2
  <2>7. ASSUME NEW o \in SecretKeys, NEW c \in Cores, o # k
        PROVE  Holds(r, o, c) <=> Holds(settings, o, c)
    <3>1. ASSUME Holds(r, o, c) PROVE Holds(settings, o, c)
      BY <2>2, <2>3, <2>7, <3>1 DEF Holds
    <3>2. ASSUME Holds(settings, o, c) PROVE Holds(r, o, c)
      BY <2>2, <3>2 DEF Holds
    <3> QED
      BY <3>1, <3>2
  <2> QED
    BY <2>2, <2>5, <2>6, <2>7 DEF r
<1> QED
  BY <1>2, <1>3

\* A file that was cut short holds nothing that was not there.
LEMMA CutKeeps ==
  ASSUME NEW lines \in Seq(Setting), Distinct(lines), NEW n \in 0..Len(lines)
  PROVE  /\ SubSeq(lines, 1, n) \in Seq(Setting) /\ Distinct(SubSeq(lines, 1, n))
         /\ \A k \in SecretKeys, c \in Cores : Holds(SubSeq(lines, 1, n), k, c) => Holds(lines, k, c)
<1> DEFINE s == SubSeq(lines, 1, n)
<1>1. Len(lines) \in Nat /\ n \in Nat /\ n <= Len(lines) /\ DOMAIN lines = 1..Len(lines)
  OBVIOUS
<1>2. s \in Seq(Setting) /\ Len(s) = n /\ \A i \in 1..n : s[i] = lines[i]
  BY <1>1
<1> HIDE DEF s
<1>3. DOMAIN s = 1..n /\ DOMAIN s \subseteq DOMAIN lines
  BY <1>1, <1>2
<1>4. \A i \in DOMAIN s : s[i] = lines[i]
  BY <1>2, <1>3
<1>5. Distinct(s)
  BY <1>3, <1>4 DEF Distinct
<1>6. \A k \in SecretKeys, c \in Cores : Holds(s, k, c) => Holds(lines, k, c)
  BY <1>3, <1>4 DEF Holds
<1> QED
  BY <1>2, <1>5, <1>6 DEF s

\* Nor does one that was cut short in a line, but for what is left of that line.
LEMMA CutLineKeeps ==
  ASSUME NEW lines \in Seq(Setting), Distinct(lines), NEW n \in DOMAIN lines, NEW d \in Cores
  PROVE  LET piece == Append(SubSeq(lines, 1, n - 1), [key |-> lines[n].key, value |-> [core |-> d, blank |-> FALSE]])
         IN  /\ piece \in Seq(Setting) /\ Distinct(piece)
             /\ \A k \in SecretKeys, c \in Cores :
                  Holds(piece, k, c) => Holds(lines, k, c) \/ (k = lines[n].key /\ c = d)
<1> DEFINE line == [key |-> lines[n].key, value |-> [core |-> d, blank |-> FALSE]]
           s == SubSeq(lines, 1, n - 1)
           piece == Append(s, line)
<1>1. Len(lines) \in Nat /\ n \in 1..Len(lines) /\ DOMAIN lines = 1..Len(lines) /\ n - 1 \in 0..Len(lines)
  OBVIOUS
<1>2. lines[n] \in Setting
  BY <1>1
<1>3. line \in Setting /\ line.key = lines[n].key /\ line.value.core = d
  <2>1. lines[n].key \in SecretKeys
    BY <1>2 DEF Setting
  <2>2. [core |-> d, blank |-> FALSE] \in S!Texts
    BY DEF S!Texts
  <2> QED
    BY <2>1, <2>2 DEF Setting
<1> HIDE DEF line
<1>4. s \in Seq(Setting) /\ Len(s) = n - 1 /\ \A i \in 1..n - 1 : s[i] = lines[i]
  BY <1>1
<1> HIDE DEF s
<1>5. /\ piece \in Seq(Setting) /\ DOMAIN piece = 1..n /\ piece[n] = line
      /\ \A i \in 1..n - 1 : piece[i] = lines[i]
  <2>1. piece \in Seq(Setting) /\ Len(piece) = Len(s) + 1 /\ piece[Len(s) + 1] = line
    BY <1>3, <1>4
  <2>2. \A i \in 1..Len(s) : piece[i] = s[i]
    BY <1>3, <1>4
  <2> HIDE DEF piece
  <2>3. DOMAIN piece = 1..n
    BY <1>1, <1>4, <2>1
  <2> QED
    BY <1>1, <1>4, <2>1, <2>2, <2>3
<1> HIDE DEF piece
<1>6. \A i \in 1..n : i \in DOMAIN lines /\ piece[i].key = lines[i].key
  BY <1>1, <1>3, <1>5
<1>7. Distinct(piece)
  BY <1>5, <1>6 DEF Distinct
<1>8. ASSUME NEW k \in SecretKeys, NEW c \in Cores, Holds(piece, k, c)
      PROVE  Holds(lines, k, c) \/ (k = lines[n].key /\ c = d)
  <2>1. PICK i \in 1..n : piece[i].key = k /\ piece[i].value.core = c
    BY <1>5, <1>8 DEF Holds
  <2>2. CASE i = n
    BY <1>3, <1>5, <2>1, <2>2
  <2>3. CASE i # n
    <3>1. i \in 1..n - 1 /\ i \in DOMAIN lines
      BY <1>1, <2>3
    <3>2. lines[i].key = k /\ lines[i].value.core = c
      BY <1>5, <2>1, <3>1
    <3> QED
      BY <3>1, <3>2 DEF Holds
  <2> QED
    BY <2>2, <2>3
<1> QED
  BY <1>5, <1>7, <1>8 DEF piece, s, line

\* What is found for a key is what the file holds.
LEMMA FoundIsHeld ==
  ASSUME NEW lines \in Seq(Setting), Distinct(lines), NEW k \in SecretKeys
  PROVE  /\ S!ValueIn(lines, k) \in Cores \cup {Nothing}
         /\ \A c \in Cores : S!ValueIn(lines, k) = c <=> Holds(lines, k, c)
<1> DEFINE settings == S!ParseSettings(lines)
           n == S!FirstOf(settings, k)
<1>1. /\ settings \in Seq(Setting) /\ Distinct(settings) /\ Same(settings, lines)
      /\ \A i \in DOMAIN settings : settings[i].value.core \in Cores
  BY ParseKeeps
<1>2. S!ValueIn(lines, k) = IF S!HasKey(settings, k) THEN settings[n].value.core ELSE Nothing
  BY DEF S!ValueIn
<1> HIDE DEF settings
<1>3. CASE S!HasKey(settings, k)
  <2>1. n \in DOMAIN settings /\ settings[n].key = k
    BY <1>1, <1>3, FirstHasKey
  <2> HIDE DEF n
  <2>2. settings[n].value.core \in Cores
    BY <1>1, <2>1
  <2>3. \A c \in Cores : Holds(settings, k, c) <=> settings[n].value.core = c
    BY <1>1, <2>1 DEF Holds, Distinct
  <2> QED
    BY <1>1, <1>2, <1>3, <2>2, <2>3 DEF Same
<1>4. CASE ~S!HasKey(settings, k)
  <2>1. \A c \in Cores : ~Holds(settings, k, c)
    BY <1>4 DEF S!HasKey, Holds
  <2>2. Nothing \notin Cores
    BY DataAssumption DEF S!SecretsAssumption
  <2> QED
    BY <1>1, <1>2, <1>4, <2>1, <2>2 DEF Same
<1> QED
  BY <1>3, <1>4

\* The file sets no key twice and only to what was stored last, or to a beginning of it if
\* it was cut short there; all that was stored while it could be read and was written
\* whole is there.
Stored(k, c) == last[k] = c \/ (k \in cut /\ last[k] \in Cores /\ c \in Begins(last[k]))
SecretInv ==
  /\ S!TypeOK /\ Distinct(sandbox)
  /\ \A k \in SecretKeys, c \in Cores : Holds(sandbox, k, c) => Stored(k, c)
  /\ \A k \in SecretKeys : k \notin unsure /\ last[k] \in Cores => Holds(sandbox, k, last[k])

LEMMA SecretInit == ASSUME Init PROVE SecretInv
<1>1. S!Init
  BY DEF Init
<1>2. Nothing \notin Cores
  BY DataAssumption DEF S!SecretsAssumption
<1>3. S!TypeOK
  BY <1>1 DEF S!Init, S!TypeOK
<1>4. Distinct(sandbox) /\ \A k \in SecretKeys, c \in Cores : ~Holds(sandbox, k, c)
  BY <1>1 DEF S!Init, Distinct, Holds
<1>5. \A k \in SecretKeys : last[k] \notin Cores
  BY <1>1, <1>2 DEF S!Init
<1> QED
  BY <1>3, <1>4, <1>5 DEF SecretInv

LEMMA SecretStep == ASSUME SecretInv, [S!Next]_(S!secretVars) PROVE SecretInv'
<1>1. CASE UNCHANGED S!secretVars
  BY <1>1 DEF SecretInv, S!secretVars, S!TypeOK, Distinct, Holds, Stored
<1>2. ASSUME NEW k \in SecretKeys, NEW v \in S!Texts, S!StoreSecret(k, v) PROVE SecretInv'
  <2>1. PICK readable \in BOOLEAN, whole \in BOOLEAN :
          LET settings == S!ParseSettings(S!Loaded(readable))
              same == S!HasKey(settings, k) /\ settings[S!FirstOf(settings, k)].value = v
              lines == S!Written(S!Replaced(settings, k, v))
          IN
          /\ \/ same /\ whole /\ UNCHANGED sandbox /\ cut' = cut \ {k}
             \/ ~same /\ whole /\ sandbox' = lines /\ cut' = cut \ {k}
             \/ ~same /\ ~whole /\ S!CutBetween(lines) /\ cut' = cut \ {k}
             \/ /\ ~same /\ ~whole
                /\ \E n \in DOMAIN lines, c \in Cores :
                     S!CutWithin(lines, n, c) /\ cut' = (cut \ {k}) \cup {lines[n].key}
          /\ last' = [last EXCEPT ![k] = v.core]
          /\ unsure' = IF ~whole THEN SecretKeys ELSE IF ~readable THEN SecretKeys \ {k} ELSE unsure \ {k}
          /\ UNCHANGED user
    BY <1>2 DEF S!StoreSecret
  <2> DEFINE loaded == S!Loaded(readable)
             settings == S!ParseSettings(loaded)
             r == S!Replaced(settings, k, v)
             same == S!HasKey(settings, k) /\ settings[S!FirstOf(settings, k)].value = v
             lines == S!Written(r)
  <2>2. /\ sandbox \in Seq(Setting) /\ Distinct(sandbox) /\ v.core \in Cores \cup {Nothing}
        /\ last \in [SecretKeys -> Cores \cup {Nothing}] /\ unsure \subseteq SecretKeys /\ cut \subseteq SecretKeys
    BY DEF SecretInv, S!TypeOK, Setting, S!Texts
  <2>3. \/ same /\ whole /\ UNCHANGED sandbox /\ cut' = cut \ {k}
        \/ ~same /\ whole /\ sandbox' = lines /\ cut' = cut \ {k}
        \/ ~same /\ ~whole /\ (\E n \in 0..Len(lines) : sandbox' = SubSeq(lines, 1, n)) /\ cut' = cut \ {k}
        \/ /\ ~same /\ ~whole
           /\ \E n \in DOMAIN lines, c \in Cores :
                S!CutWithin(lines, n, c) /\ cut' = (cut \ {k}) \cup {lines[n].key}
    BY <2>1 DEF S!CutBetween
  <2>4. /\ loaded \in Seq(Setting) /\ Distinct(loaded)
        /\ readable => loaded = sandbox
        /\ ~readable => \A o \in SecretKeys, c \in Cores : ~Holds(loaded, o, c)
        /\ \A o \in SecretKeys, c \in Cores : Holds(loaded, o, c) => Holds(sandbox, o, c)
    BY <2>2 DEF S!Loaded, Distinct, Holds
  <2> HIDE DEF loaded
  <2>5. /\ settings \in Seq(Setting) /\ Distinct(settings) /\ Same(settings, loaded)
    BY <2>4, ParseKeeps
  <2>6. same => Holds(settings, k, v.core) /\ v.core \in Cores
    <3>1. \A i \in DOMAIN settings : settings[i].value.core \in Cores
      BY <2>4, ParseKeeps
    <3> HIDE DEF settings
    <3>2. S!HasKey(settings, k) =>
            /\ S!FirstOf(settings, k) \in DOMAIN settings
            /\ settings[S!FirstOf(settings, k)].key = k
      BY <2>5, FirstHasKey
    <3> QED
      BY <3>1, <3>2 DEF Holds
  <2> HIDE DEF settings
  <2>7. /\ r \in Seq(Setting) /\ Distinct(r)
        /\ \A o \in SecretKeys, c \in Cores :
             Holds(r, o, c) <=> IF o = k THEN v.core = c ELSE Holds(settings, o, c)
    BY <2>5, ReplaceKeeps
  <2> HIDE DEF r
  <2>8. lines \in Seq(Setting) /\ Distinct(lines) /\ Same(lines, r)
    BY <2>7, WrittenKeeps
  <2> HIDE DEF lines
  <2>9. \A o \in SecretKeys, c \in Cores :
          Holds(lines, o, c) <=> IF o = k THEN v.core = c ELSE Holds(loaded, o, c)
    BY <2>5, <2>7, <2>8 DEF Same
  <2>10. /\ last' \in [SecretKeys -> Cores \cup {Nothing}] /\ unsure' \subseteq SecretKeys
         /\ last'[k] = v.core /\ \A o \in SecretKeys : o # k => last'[o] = last[o]
    BY <2>1, <2>2
  <2>11. /\ \A o \in SecretKeys, c \in Cores : Holds(sandbox, o, c) => Stored(o, c)
         /\ \A o \in SecretKeys : o \notin unsure /\ last[o] \in Cores => Holds(sandbox, o, last[o])
    BY DEF SecretInv
  <2>12. cut \ {k} \subseteq cut'
    BY <2>3
  \* What the lines say of a key was stored for it, before or just now.
  <2>13. ASSUME NEW o \in SecretKeys, NEW c \in Cores, Holds(lines, o, c)
         PROVE  last'[o] = c \/ (o \in cut /\ o # k /\ last'[o] \in Cores /\ c \in Begins(last'[o]))
    <3>1. IF o = k THEN v.core = c ELSE Holds(loaded, o, c)
      BY <2>9, <2>13
    <3>2. CASE o = k
      BY <2>10, <3>1, <3>2
    <3>3. CASE o # k
      <4>1. Stored(o, c)
        BY <2>4, <2>11, <3>1, <3>3
      <4> QED
        BY <2>10, <3>3, <4>1 DEF Stored
    <3> QED
      BY <3>2, <3>3
  <2>14. CASE same /\ whole /\ UNCHANGED sandbox /\ cut' = cut \ {k}
    <3>1. sandbox' = sandbox
      BY <2>14
    <3>2. Holds(sandbox, k, v.core) /\ v.core \in Cores /\ Holds(loaded, k, v.core)
      BY <2>4, <2>5, <2>6, <2>14 DEF Same
    <3>3. readable
      BY <2>4, <3>2
    <3>4. unsure' = unsure \ {k}
      BY <2>1, <2>14, <3>3
    <3>5. \A o \in SecretKeys : o \notin unsure' /\ last'[o] \in Cores => Holds(sandbox, o, last'[o])
      BY <2>10, <2>11, <3>2, <3>4
    <3>6. S!TypeOK'
      BY <2>1, <2>2, <2>10, <2>14 DEF SecretInv, S!TypeOK, S!Line, S!Texts
    <3>7. ASSUME NEW o \in SecretKeys, NEW c \in Cores, Holds(sandbox, o, c) PROVE Stored(o, c)'
      <4>1. CASE o = k
        <5>1. c = v.core
          BY <2>2, <3>2, <3>7, <4>1 DEF Holds, Distinct
        <5> QED
          BY <2>10, <4>1, <5>1 DEF Stored
      <4>2. CASE o # k
        <5>1. Stored(o, c)
          BY <2>11, <3>7
        <5> QED
          BY <2>10, <2>12, <4>2, <5>1 DEF Stored
      <4> QED
        BY <4>1, <4>2
    <3>8. Distinct(sandbox)'
      BY <2>2, <3>1 DEF Distinct
    <3>9. \A o \in SecretKeys, c \in Cores : Holds(sandbox, o, c)' <=> Holds(sandbox, o, c)
      BY <3>1 DEF Holds
    <3>10. /\ \A o \in SecretKeys, c \in Cores : Holds(sandbox', o, c) => Stored(o, c)'
           /\ \A o \in SecretKeys : o \notin unsure' /\ last'[o] \in Cores => Holds(sandbox', o, last'[o])
      BY <3>1, <3>5, <3>7
    <3> QED
      BY <3>6, <3>8, <3>10 DEF SecretInv, Holds
  <2>15. ASSUME ~same,
                sandbox' \in Seq(Setting), Distinct(sandbox'), cut' \subseteq SecretKeys, whole => sandbox' = lines,
                \A o \in SecretKeys, c \in Cores : Holds(sandbox', o, c) => Stored(o, c)'
         PROVE  SecretInv'
    <3>1. ASSUME NEW o \in SecretKeys, o \notin unsure', last'[o] \in Cores
          PROVE  Holds(sandbox', o, last'[o])
      <4>1. whole /\ (o = k \/ (readable /\ o \notin unsure))
        BY <2>1, <3>1
      <4>2. sandbox' = lines
        BY <2>15, <4>1
      <4>3. IF o = k THEN v.core = last'[o] ELSE Holds(loaded, o, last'[o])
        BY <2>4, <2>10, <2>11, <3>1, <4>1
      <4> QED
        BY <2>9, <3>1, <4>2, <4>3
    <3>2. S!TypeOK'
      BY <2>1, <2>10, <2>15 DEF SecretInv, S!TypeOK, S!Line, S!Texts, Setting
    <3>3. Distinct(sandbox)'
      BY <2>15 DEF Distinct
    <3>4. /\ \A o \in SecretKeys, c \in Cores : Holds(sandbox', o, c) => Stored(o, c)'
          /\ \A o \in SecretKeys : o \notin unsure' /\ last'[o] \in Cores => Holds(sandbox', o, last'[o])
      BY <2>15, <3>1
    <3> QED
      BY <3>2, <3>3, <3>4 DEF SecretInv, Holds
  <2> HIDE DEF same
  <2>16. ASSUME ~same, whole, sandbox' = lines, cut' = cut \ {k} PROVE SecretInv'
    <3>1. \A o \in SecretKeys, c \in Cores : Holds(sandbox', o, c) => Stored(o, c)'
      BY <2>12, <2>13, <2>16 DEF Stored
    <3> QED
      BY <2>2, <2>8, <2>15, <2>16, <3>1
  <2>17. ASSUME ~same, ~whole, NEW n \in 0..Len(lines), sandbox' = SubSeq(lines, 1, n), cut' = cut \ {k}
         PROVE  SecretInv'
    <3>1. /\ SubSeq(lines, 1, n) \in Seq(Setting) /\ Distinct(SubSeq(lines, 1, n))
          /\ \A o \in SecretKeys, c \in Cores : Holds(SubSeq(lines, 1, n), o, c) => Holds(lines, o, c)
      BY <2>8, CutKeeps
    <3>2. \A o \in SecretKeys, c \in Cores : Holds(sandbox', o, c) => Stored(o, c)'
      BY <2>12, <2>13, <2>17, <3>1 DEF Stored
    <3> QED
      BY <2>2, <2>15, <2>17, <3>1, <3>2
  <2>18. ASSUME ~same, ~whole, NEW n \in DOMAIN lines, NEW d \in Cores,
                S!CutWithin(lines, n, d), cut' = (cut \ {k}) \cup {lines[n].key}
         PROVE  SecretInv'
    <3> DEFINE piece == Append(SubSeq(lines, 1, n - 1),
                              [key |-> lines[n].key, value |-> [core |-> d, blank |-> FALSE]])
               e == lines[n].value.core
               p == lines[n].key
    <3>1. sandbox' = piece /\ e # Nothing /\ d \in Begins(e)
      BY <2>18 DEF S!CutWithin
    <3>2. /\ piece \in Seq(Setting) /\ Distinct(piece)
          /\ \A o \in SecretKeys, c \in Cores : Holds(piece, o, c) => Holds(lines, o, c) \/ (o = p /\ c = d)
      BY <2>8, CutLineKeeps
    <3>3. p \in SecretKeys /\ e \in Cores /\ Holds(lines, p, e)
      <4>1. lines[n] \in Setting
        BY <2>8
      <4>2. lines[n].key \in SecretKeys /\ lines[n].value.core \in Cores \cup {Nothing}
        BY <4>1 DEF Setting, S!Texts
      <4> QED
        BY <3>1, <4>2 DEF Holds
    <3> HIDE DEF piece, e, p
    <3>4. cut' = (cut \ {k}) \cup {p}
      BY <2>18 DEF p
    <3>5. last'[p] \in Cores /\ d \in Begins(last'[p])
      <4>1. last'[p] = e \/ (last'[p] \in Cores /\ e \in Begins(last'[p]))
        BY <2>13, <3>3
      <4>2. \A x \in Cores : \A y \in Begins(x) : Begins(y) \subseteq Begins(x)
        BY DataAssumption DEF S!SecretsAssumption
      <4> QED
        BY <3>1, <3>3, <4>1, <4>2
    <3>6. ASSUME NEW o \in SecretKeys, NEW c \in Cores, Holds(sandbox', o, c) PROVE Stored(o, c)'
      <4>1. Holds(lines, o, c) \/ (o = p /\ c = d)
        BY <3>1, <3>2, <3>6
      <4>2. CASE Holds(lines, o, c)
        BY <2>12, <2>13, <4>2 DEF Stored
      <4>3. CASE o = p /\ c = d
        BY <3>4, <3>5, <4>3 DEF Stored
      <4> QED
        BY <4>1, <4>2, <4>3
    <3>7. cut' \subseteq SecretKeys
      BY <2>2, <3>3, <3>4
    <3> QED
      BY <2>15, <2>18, <3>1, <3>2, <3>6, <3>7
  <2> HIDE DEF lines
  <2> QED
    BY <2>3, <2>14, <2>16, <2>17, <2>18
<1> QED
  BY <1>1, <1>2 DEF S!Next

LEMMA SecretConcludes == ASSUME SecretInv PROVE S!SecretsKept
<1>1. /\ sandbox \in Seq(Setting) /\ Distinct(sandbox) /\ last \in [SecretKeys -> Cores \cup {Nothing}]
      /\ \A k \in SecretKeys, c \in Cores : Holds(sandbox, k, c) => Stored(k, c)
      /\ \A k \in SecretKeys : k \notin unsure /\ last[k] \in Cores => Holds(sandbox, k, last[k])
  BY DEF SecretInv, S!TypeOK, Setting
<1>2. Nothing \notin Cores
  BY DataAssumption DEF S!SecretsAssumption
<1> SUFFICES ASSUME NEW k \in SecretKeys
             PROVE  LET set == IF last[k] # Nothing THEN last[k] ELSE S!ValueIn(user, k)
                        lost == IF k \in unsure THEN {S!ValueIn(user, k)} ELSE {}
                        piece == IF k \in cut /\ last[k] # Nothing THEN Begins(last[k]) ELSE {}
                    IN S!RetrieveSecret(k) \in {set} \cup lost \cup piece
  BY DEF S!SecretsKept
<1> DEFINE found == S!ValueIn(sandbox, k)
<1>3. /\ found \in Cores \cup {Nothing}
      /\ \A c \in Cores : found = c <=> Holds(sandbox, k, c)
  BY <1>1, FoundIsHeld
<1>4. S!RetrieveSecret(k) = IF found # Nothing THEN found ELSE S!ValueIn(user, k)
  BY DEF S!RetrieveSecret
<1> HIDE DEF found
<1>5. found \in {last[k], Nothing} \/ (k \in cut /\ last[k] # Nothing /\ found \in Begins(last[k]))
  BY <1>1, <1>2, <1>3 DEF Stored
<1>6. k \notin unsure => found = last[k]
  <2>1. last[k] \in Cores \cup {Nothing}
    BY <1>1
  <2>2. last[k] = Nothing => found \notin Cores
    BY <1>2, <1>5
  <2> QED
    BY <1>1, <1>3, <2>1, <2>2
<1> QED
  BY <1>4, <1>5, <1>6

-----------------------------------------------------------------------------
(* The event log: what is appended to a file changes its last line only.   *)

\* A place after all others is selected last, and moves none of them.
Added(places, e) ==
  LET more == places \cup {e}
  IN  /\ Cardinality(places) \in Nat /\ Cardinality(more) = Cardinality(places) + 1
      /\ \A n \in 1..Cardinality(places) : At(more, n) = At(places, n) /\ At(places, n) \in places
      /\ At(more, Cardinality(places) + 1) = e

LEMMA PlaceAdded ==
  ASSUME NEW N \in Nat, NEW places \in SUBSET (1..N), NEW e \in Nat, e > N
  PROVE  Added(places, e)
<1> DEFINE more == places \cup {e}
           c == Cardinality(places)
<1>1. /\ IsFiniteSet(places) /\ c \in Nat
      /\ \A i \in places : Rank(places, i) \in 1..c
      /\ \A n \in 1..c : \E i \in places : Rank(places, i) = n
  BY Ranks
<1>2. e \notin places /\ \A i \in places : i \in Int /\ i < e
  OBVIOUS
<1>3. Cardinality(more) = c + 1
  BY <1>1, <1>2, FS_AddElement
<1>4. ASSUME NEW i \in places PROVE Rank(more, i) = Rank(places, i)
  <2>1. {j \in more : j <= i} = {j \in places : j <= i}
    BY <1>2
  <2> QED
    BY <2>1 DEF Rank
<1>5. Rank(more, e) = c + 1
  <2>1. \A j \in more : j <= e
    BY <1>2
  <2>2. {j \in more : j <= e} = more
    BY <2>1
  <2> QED
    BY <1>3, <2>2 DEF Rank
<1> HIDE DEF c
<1>6. ASSUME NEW n \in 1..c PROVE At(more, n) = At(places, n) /\ At(places, n) \in places
  <2>1. \A i \in more : Rank(more, i) = n <=> i \in places /\ Rank(places, i) = n
    BY <1>1, <1>4, <1>5
  <2>2. At(places, n) \in places /\ Rank(places, At(places, n)) = n
    BY <1>1 DEF At
  <2>3. At(more, n) = At(places, n)
    <3>1. At(more, n) \in more /\ Rank(more, At(more, n)) = n
      BY <2>1, <2>2 DEF At
    <3>2. At(more, n) \in places /\ Rank(places, At(more, n)) = n
      BY <2>1, <3>1
    <3> QED
      BY <2>2, <3>2, Ranks
  <2> QED
    BY <2>2, <2>3
<1>7. At(more, c + 1) = e
  <2>1. \A i \in more : Rank(more, i) = c + 1 => i = e
    BY <1>1, <1>4
  <2>2. At(more, c + 1) \in more /\ Rank(more, At(more, c + 1)) = c + 1
    BY <1>5 DEF At
  <2> QED
    BY <2>1, <2>2
<1> QED
  BY <1>1, <1>3, <1>6, <1>7 DEF c, Added

\* EventLog counts and selects as Selection does.
LEMMA EventLogSelects ==
  /\ \A Z : EL!Cardinality(Z) = Cardinality(Z)
  /\ \A places, n : EL!At(places, n) = At(places, n)
  /\ \A s, places : EL!Only(s, places) = Only(s, places)
<1>1. \A Z : EL!Cardinality(Z) = Cardinality(Z)
  BY DEF EL!Cardinality, Cardinality
<1>2. \A places, i : EL!Rank(places, i) = Rank(places, i)
  BY <1>1 DEF EL!Rank, Rank
<1>3. \A places, n : EL!At(places, n) = At(places, n)
  BY <1>2 DEF EL!At, At
<1> QED
  BY <1>1, <1>3 DEF EL!Only, Only

\* The lines of a file: the last one ends where the file does.
Breaks(f)  == {i \in DOMAIN f : f[i] = NewLine}
Start(f, n) == IF n = 1 THEN 1 ELSE At(Breaks(f), n - 1) + 1
Line(f, n) == SubSeq(f, Start(f, n), IF n <= Cardinality(Breaks(f)) THEN At(Breaks(f), n) - 1 ELSE Len(f))
LinesOf(f) == [n \in 1..Cardinality(Breaks(f)) + 1 |-> Line(f, n)]
FileMarks     == EL!Marks \cup {NewLine}

LEMMA BreaksOf ==
  ASSUME NEW f \in Seq(FileMarks)
  PROVE  /\ Len(f) \in Nat /\ Breaks(f) \in SUBSET (1..Len(f)) /\ Cardinality(Breaks(f)) \in Nat
         /\ \A n \in 1..Cardinality(Breaks(f)) : At(Breaks(f), n) \in 1..Len(f)
         /\ \A n \in 1..Cardinality(Breaks(f)) + 1 : Start(f, n) \in 1..Len(f) + 1
<1>1. Len(f) \in Nat /\ Breaks(f) \in SUBSET (1..Len(f))
  BY DEF Breaks
<1>2. /\ Cardinality(Breaks(f)) \in Nat
      /\ \A n \in 1..Cardinality(Breaks(f)) : At(Breaks(f), n) \in Breaks(f)
  <2>1. Len(f) + 1 \in Nat /\ Len(f) + 1 > Len(f)
    BY <1>1
  <2>2. Added(Breaks(f), Len(f) + 1)
    BY <1>1, <2>1, PlaceAdded
  <2> QED
    BY <2>2 DEF Added
<1>3. ASSUME NEW n \in 1..Cardinality(Breaks(f)) + 1 PROVE Start(f, n) \in 1..Len(f) + 1
  <2>1. CASE n = 1
    BY <1>1, <2>1 DEF Start
  <2>2. CASE n # 1
    <3>1. n - 1 \in 1..Cardinality(Breaks(f))
      BY <1>2, <2>2
    <3>2. At(Breaks(f), n - 1) \in 1..Len(f)
      BY <1>1, <1>2, <3>1
    <3> QED
      BY <1>1, <2>2, <3>2 DEF Start
  <2> QED
    BY <2>1, <2>2
<1> QED
  BY <1>1, <1>2, <1>3

\* The lines of the log are those of its file.
LEMMA LinesAre ==
  ASSUME logFile \in Seq(FileMarks)
  PROVE  EL!Lines = LinesOf(logFile)
<1>1. ASSUME NEW f \in Seq(FileMarks), NEW ends, ends = Breaks(f) \cup {Len(f) + 1}
      PROVE  [n \in 1..Cardinality(ends) |->
                SubSeq(f, IF n = 1 THEN 1 ELSE At(ends, n - 1) + 1, At(ends, n) - 1)] = LinesOf(f)
  <2> DEFINE c == Cardinality(Breaks(f))
  <2>1. /\ c \in Nat /\ Len(f) \in Nat /\ Cardinality(ends) = c + 1
        /\ \A n \in 1..c : At(ends, n) = At(Breaks(f), n)
        /\ At(ends, c + 1) = Len(f) + 1
    <3>1. Len(f) \in Nat /\ Breaks(f) \in SUBSET (1..Len(f))
      BY BreaksOf
    <3>2. Len(f) + 1 \in Nat /\ Len(f) + 1 > Len(f)
      BY <3>1
    <3>3. Added(Breaks(f), Len(f) + 1)
      BY <3>1, <3>2, PlaceAdded
    <3> QED
      BY <1>1, <3>1, <3>3 DEF Added
  <2>2. LinesOf(f) = [n \in 1..c + 1 |-> Line(f, n)]
    BY DEF LinesOf
  <2> HIDE DEF c
  <2>3. ASSUME NEW n \in 1..c + 1
        PROVE  Line(f, n) = SubSeq(f, IF n = 1 THEN 1 ELSE At(ends, n - 1) + 1, At(ends, n) - 1)
    <3>1. Start(f, n) = IF n = 1 THEN 1 ELSE At(ends, n - 1) + 1
      <4>1. n # 1 => n - 1 \in 1..c
        BY <2>1
      <4> QED
        BY <2>1, <4>1 DEF Start
    <3>2. At(ends, n) - 1 = IF n <= c THEN At(Breaks(f), n) - 1 ELSE Len(f)
      <4>1. CASE n <= c
        BY <2>1, <4>1
      <4>2. CASE ~(n <= c)
        <5>1. n = c + 1
          BY <2>1, <4>2
        <5> QED
          BY <2>1, <4>2, <5>1
      <4> QED
        BY <4>1, <4>2
    <3> QED
      BY <3>1, <3>2 DEF Line, c
  <2> QED
    BY <2>1, <2>2, <2>3
<1>2. EL!LineEnds = Breaks(logFile) \cup {Len(logFile) + 1}
  BY DEF EL!LineEnds, Breaks
<1> DEFINE Cut(f, ends) == [n \in 1..Cardinality(ends) |->
                SubSeq(f, IF n = 1 THEN 1 ELSE At(ends, n - 1) + 1, At(ends, n) - 1)]
<1>3. \A f \in Seq(FileMarks) : Cut(f, Breaks(f) \cup {Len(f) + 1}) = LinesOf(f)
  BY <1>1
<1>4. EL!Lines = Cut(logFile, EL!LineEnds)
  BY EventLogSelects DEF EL!Lines, EL!Begin
<1> HIDE DEF Cut
<1> QED
  BY <1>2, <1>3, <1>4

LEMMA Pieces ==
  ASSUME NEW Z, NEW f \in Seq(Z), NEW p \in Seq(Z)
  PROVE  /\ f \o p \in Seq(Z) /\ Len(f \o p) = Len(f) + Len(p)
         /\ \A i \in 1..Len(f) : (f \o p)[i] = f[i]
         /\ \A i \in 1..Len(p) : (f \o p)[Len(f) + i] = p[i]
         /\ \A a \in 1..Len(f) + 1, b \in 0..Len(f) : SubSeq(f \o p, a, b) = SubSeq(f, a, b)
         /\ \A a \in 1..Len(f) + 1 : SubSeq(f \o p, a, Len(f \o p)) = SubSeq(f, a, Len(f)) \o p
<1> DEFINE g == f \o p
<1>1. /\ g \in Seq(Z) /\ Len(g) = Len(f) + Len(p) /\ Len(f) \in Nat /\ Len(p) \in Nat
      /\ \A i \in 1..Len(f) : g[i] = f[i]
      /\ \A i \in 1..Len(p) : g[Len(f) + i] = p[i]
  OBVIOUS
<1> HIDE DEF g
<1>2. ASSUME NEW a \in 1..Len(f) + 1, NEW b \in 0..Len(f) PROVE SubSeq(g, a, b) = SubSeq(f, a, b)
  <2>1. /\ SubSeq(g, a, b) \in Seq(Z) /\ SubSeq(f, a, b) \in Seq(Z)
        /\ Len(SubSeq(g, a, b)) = (IF a <= b THEN b - a + 1 ELSE 0)
        /\ Len(SubSeq(f, a, b)) = (IF a <= b THEN b - a + 1 ELSE 0)
    BY <1>1, SubSeqProperties
  <2>2. ASSUME NEW i \in 1..Len(SubSeq(f, a, b)) PROVE SubSeq(g, a, b)[i] = SubSeq(f, a, b)[i]
    <3>1. a + i - 1 \in 1..Len(f) /\ i \in 1..b - a + 1
      BY <2>1
    <3>2. SubSeq(g, a, b)[i] = g[a + i - 1] /\ SubSeq(f, a, b)[i] = f[a + i - 1]
      BY <1>1, <2>1, <3>1
    <3> QED
      BY <1>1, <3>1, <3>2
  <2> QED
    BY <2>1, <2>2, SeqEqual
<1>3. ASSUME NEW a \in 1..Len(f) + 1 PROVE SubSeq(g, a, Len(g)) = SubSeq(f, a, Len(f)) \o p
  <2> DEFINE l == SubSeq(g, a, Len(g))
             m == SubSeq(f, a, Len(f))
             k == Len(f) - a + 1
  <2>1. l \in Seq(Z) /\ Len(l) = k + Len(p) /\ m \in Seq(Z) /\ Len(m) = k /\ k \in Nat
    BY <1>1
  <2>2. \A i \in 1..Len(l) : l[i] = g[a + i - 1]
    BY <1>1
  <2>3. \A i \in 1..Len(m) : m[i] = f[a + i - 1]
    BY <1>1
  <2> HIDE DEF l, m
  <2> HIDE DEF k
  <2>4. m \o p \in Seq(Z) /\ Len(m \o p) = Len(l)
    BY <2>1, ConcatProperties
  <2>5. ASSUME NEW i \in 1..Len(l) PROVE l[i] = (m \o p)[i]
    <3>1. CASE i <= k
      <4>1. (m \o p)[i] = m[i] /\ i \in 1..Len(m) /\ a + i - 1 \in 1..Len(f)
        <5>1. i \in 1..Len(m)
          BY <2>1, <3>1
        <5>2. a + i - 1 \in 1..Len(f)
          BY <1>1, <2>1, <3>1 DEF k
        <5> QED
          BY <2>1, <5>1, <5>2, ConcatProperties
      <4> QED
        BY <1>1, <2>2, <2>3, <4>1
    <3>2. CASE ~(i <= k)
      <4>1. i - k \in 1..Len(p) /\ a + i - 1 = Len(f) + (i - k)
        BY <1>1, <2>1, <3>2 DEF k
      <4>2. (m \o p)[i] = p[i - k]
        BY <2>1, <3>2
      <4> QED
        BY <1>1, <2>2, <4>1, <4>2
    <3> QED
      BY <3>1, <3>2
  <2> QED
    BY <2>1, <2>4, <2>5, SeqEqual DEF l, m
<1> QED
  BY <1>1, <1>2, <1>3 DEF g

\* What is appended without an end of line goes to the end of the last line.
Continued(f, g, p) ==
  LET c == Cardinality(Breaks(f)) + 1
  IN  /\ g \in Seq(FileMarks) /\ c \in Nat \ {0}
      /\ DOMAIN LinesOf(f) = 1..c /\ DOMAIN LinesOf(g) = 1..c /\ Cardinality(Breaks(g)) + 1 = c
      /\ \A n \in 1..c : n # c => LinesOf(g)[n] = LinesOf(f)[n]
      /\ LinesOf(g)[c] = LinesOf(f)[c] \o p

LEMMA Unended ==
  ASSUME NEW f \in Seq(FileMarks), NEW p \in Seq(EL!Marks)
  PROVE  Continued(f, f \o p, p)
<1> DEFINE g == f \o p
           m == Cardinality(Breaks(f))
<1>1. NewLine \notin EL!Marks
  BY DataAssumption DEF EL!LogAssumption
<1>2. p \in Seq(FileMarks) /\ \A i \in 1..Len(p) : p[i] # NewLine
  <2>1. \A i \in 1..Len(p) : p[i] \in EL!Marks
    OBVIOUS
  <2>2. EL!Marks \subseteq FileMarks
    BY DEF FileMarks
  <2> HIDE DEF FileMarks
  <2> QED
    BY <1>1, <2>1, <2>2
<1> HIDE DEF FileMarks
<1>3. /\ g \in Seq(FileMarks) /\ Len(g) = Len(f) + Len(p) /\ Len(f) \in Nat /\ Len(p) \in Nat
      /\ \A i \in 1..Len(f) : g[i] = f[i]
      /\ \A i \in 1..Len(p) : g[Len(f) + i] = p[i]
      /\ \A a \in 1..Len(f) + 1, b \in 0..Len(f) : SubSeq(g, a, b) = SubSeq(f, a, b)
      /\ \A a \in 1..Len(f) + 1 : SubSeq(g, a, Len(g)) = SubSeq(f, a, Len(f)) \o p
  BY <1>2, Pieces
<1> HIDE DEF g
<1>4. Breaks(g) = Breaks(f)
  <2>1. DOMAIN g = 1..Len(f) + Len(p) /\ DOMAIN f = 1..Len(f)
    BY <1>3
  <2>2. \A i \in DOMAIN g : i \in DOMAIN f \/ \E j \in 1..Len(p) : i = Len(f) + j
    <3> TAKE i \in DOMAIN g
    <3>1. i \notin DOMAIN f => i - Len(f) \in 1..Len(p) /\ i = Len(f) + (i - Len(f))
      BY <1>3, <2>1
    <3> QED
      BY <3>1
  <2>3. \A i \in DOMAIN f : i \in DOMAIN g
    BY <1>3, <2>1
  <2>4. \A i : i \in DOMAIN g /\ g[i] = NewLine <=> i \in DOMAIN f /\ f[i] = NewLine
    BY <1>2, <1>3, <2>1, <2>2, <2>3
  <2> QED
    BY <2>4 DEF Breaks
<1>5. /\ m \in Nat
      /\ \A n \in 1..m : At(Breaks(f), n) \in 1..Len(f)
      /\ \A n \in 1..m + 1 : Start(f, n) \in 1..Len(f) + 1
  BY BreaksOf
<1>6. \A n : Start(g, n) = Start(f, n)
  BY <1>4 DEF Start
<1>7. LinesOf(f) = [n \in 1..m + 1 |-> Line(f, n)] /\ LinesOf(g) = [n \in 1..m + 1 |-> Line(g, n)]
  BY <1>4 DEF LinesOf
<1>8. ASSUME NEW n \in 1..m PROVE Line(g, n) = Line(f, n)
  <2>1. n \in 1..m + 1 /\ n <= m
    BY <1>5
  <2>2. Start(f, n) \in 1..Len(f) + 1 /\ At(Breaks(f), n) - 1 \in 0..Len(f)
    BY <1>3, <1>5, <2>1
  <2>3. SubSeq(g, Start(f, n), At(Breaks(f), n) - 1) = SubSeq(f, Start(f, n), At(Breaks(f), n) - 1)
    BY <1>3, <2>2
  <2> QED
    BY <1>4, <1>6, <2>1, <2>3 DEF Line
<1>9. Line(g, m + 1) = Line(f, m + 1) \o p
  <2>1. m + 1 \in 1..m + 1 /\ ~(m + 1 <= m)
    BY <1>5
  <2>2. SubSeq(g, Start(f, m + 1), Len(g)) = SubSeq(f, Start(f, m + 1), Len(f)) \o p
    BY <1>3, <1>5, <2>1
  <2> QED
    BY <1>4, <1>6, <2>1, <2>2 DEF Line
<1> HIDE DEF m
<1>10. \A n \in 1..m : n \in 1..m + 1
  BY <1>5
<1>11. \A n \in 1..m : LinesOf(g)[n] = LinesOf(f)[n]
  BY <1>7, <1>8, <1>10
<1>12. LinesOf(g)[m + 1] = LinesOf(f)[m + 1] \o p
  <2>1. m + 1 \in 1..m + 1
    BY <1>5
  <2> QED
    BY <1>7, <1>9, <2>1
<1>13. m + 1 \in Nat \ {0} /\ \A n \in 1..m + 1 : n # m + 1 => n \in 1..m
  BY <1>5
<1>14. DOMAIN LinesOf(f) = 1..m + 1 /\ DOMAIN LinesOf(g) = 1..m + 1 /\ Cardinality(Breaks(g)) = m
  BY <1>4, <1>7 DEF m
<1>15. Continued(f, g, p)
  BY <1>3, <1>11, <1>12, <1>13, <1>14 DEF m, Continued
<1> QED
  BY <1>15 DEF g

\* An end of line begins a line with nothing on it.
BegunAfter(f, g) ==
  LET c == Cardinality(Breaks(f)) + 1
  IN  /\ g \in Seq(FileMarks) /\ c \in Nat \ {0}
      /\ DOMAIN LinesOf(f) = 1..c /\ DOMAIN LinesOf(g) = 1..c + 1 /\ Cardinality(Breaks(g)) = c
      /\ \A n \in 1..c : LinesOf(g)[n] = LinesOf(f)[n]
      /\ LinesOf(g)[c + 1] = <<>>

LEMMA Ended ==
  ASSUME NEW f \in Seq(FileMarks), NEW p, p = <<NewLine>>
  PROVE  BegunAfter(f, f \o p)
<1> DEFINE g == f \o p
           m == Cardinality(Breaks(f))
<1>1. p \in Seq(FileMarks) /\ Len(p) = 1 /\ p[1] = NewLine
  <2>1. p \in Seq({NewLine}) /\ {NewLine} \subseteq FileMarks /\ Len(p) = 1 /\ p[1] = NewLine
    BY DEF FileMarks
  <2> QED
    BY <2>1
<1>2. /\ g \in Seq(FileMarks) /\ Len(g) = Len(f) + 1 /\ Len(f) \in Nat
      /\ \A i \in 1..Len(f) : g[i] = f[i]
      /\ \A i \in 1..Len(p) : g[Len(f) + i] = p[i]
      /\ \A a \in 1..Len(f) + 1, b \in 0..Len(f) : SubSeq(g, a, b) = SubSeq(f, a, b)
  BY <1>1, Pieces
<1>3. g[Len(f) + 1] = NewLine
  BY <1>1, <1>2
<1> HIDE DEF g
<1>4. Breaks(g) = Breaks(f) \cup {Len(f) + 1}
  <2>1. DOMAIN g = 1..Len(f) + 1 /\ DOMAIN f = 1..Len(f)
    BY <1>2
  <2>2. \A i : i \in DOMAIN g <=> i \in DOMAIN f \/ i = Len(f) + 1
    BY <1>2, <2>1
  <2>3. \A i : i \in DOMAIN g /\ g[i] = NewLine <=> (i \in DOMAIN f /\ f[i] = NewLine) \/ i = Len(f) + 1
    BY <1>2, <1>3, <2>1, <2>2
  <2> QED
    BY <2>3 DEF Breaks
<1>5. /\ m \in Nat /\ Breaks(f) \in SUBSET (1..Len(f))
      /\ \A n \in 1..m : At(Breaks(f), n) \in 1..Len(f)
      /\ \A n \in 1..m + 1 : Start(f, n) \in 1..Len(f) + 1
  BY BreaksOf
<1>6. /\ Cardinality(Breaks(g)) = m + 1
      /\ \A n \in 1..m : At(Breaks(g), n) = At(Breaks(f), n)
      /\ At(Breaks(g), m + 1) = Len(f) + 1
  <2>1. Len(f) + 1 \in Nat /\ Len(f) + 1 > Len(f)
    BY <1>2
  <2>2. Added(Breaks(f), Len(f) + 1)
    BY <1>2, <1>5, <2>1, PlaceAdded
  <2> QED
    BY <1>4, <2>2 DEF Added
<1>7. LinesOf(f) = [n \in 1..m + 1 |-> Line(f, n)] /\ LinesOf(g) = [n \in 1..m + 1 + 1 |-> Line(g, n)]
  BY <1>6 DEF LinesOf
<1>8. \A n \in 1..m + 1 : Start(g, n) = Start(f, n)
  <2> TAKE n \in 1..m + 1
  <2>1. n # 1 => n - 1 \in 1..m
    BY <1>5
  <2> QED
    BY <1>6, <2>1 DEF Start
<1>9. ASSUME NEW n \in 1..m + 1 PROVE Line(g, n) = Line(f, n)
  <2>1. n <= m + 1 /\ Start(f, n) \in 1..Len(f) + 1
    BY <1>5
  <2>2. Line(g, n) = SubSeq(g, Start(f, n), At(Breaks(g), n) - 1)
    BY <1>6, <1>8, <2>1 DEF Line
  <2>3. CASE n <= m
    <3>1. n \in 1..m /\ At(Breaks(f), n) - 1 \in 0..Len(f)
      BY <1>2, <1>5, <2>3
    <3> QED
      BY <1>2, <1>6, <2>1, <2>2, <2>3, <3>1 DEF Line
  <2>4. CASE ~(n <= m)
    <3>1. n = m + 1 /\ Len(f) + 1 - 1 = Len(f) /\ Len(f) \in 0..Len(f)
      BY <1>2, <1>5, <2>4
    <3>2. At(Breaks(g), n) - 1 = Len(f)
      BY <1>6, <3>1
    <3>3. SubSeq(g, Start(f, n), Len(f)) = SubSeq(f, Start(f, n), Len(f))
      BY <1>2, <2>1, <3>1
    <3>4. Line(f, n) = SubSeq(f, Start(f, n), Len(f))
      BY <2>4 DEF Line
    <3> QED
      BY <2>2, <3>2, <3>3, <3>4
  <2> QED
    BY <2>3, <2>4
<1>10. Line(g, m + 1 + 1) = <<>>
  <2>1. m + 1 + 1 # 1 /\ m + 1 + 1 - 1 = m + 1 /\ ~(m + 1 + 1 <= m + 1)
    BY <1>5
  <2>2. Start(g, m + 1 + 1) = Len(g) + 1
    <3>1. PICK k \in Nat : k = m + 1 + 1
      BY <1>5
    <3>2. k # 1 /\ k - 1 = m + 1
      BY <1>5, <3>1
    <3>3. Start(g, k) = At(Breaks(g), k - 1) + 1
      BY <3>2 DEF Start
    <3> QED
      BY <1>2, <1>6, <3>1, <3>2, <3>3
  <2>3. Line(g, m + 1 + 1) = SubSeq(g, Len(g) + 1, Len(g))
    BY <1>6, <2>1, <2>2 DEF Line
  <2>4. Len(g) + 1 \in Int /\ Len(g) \in Int /\ Len(g) < Len(g) + 1
    BY <1>2
  <2>5. SubSeq(g, Len(g) + 1, Len(g)) = <<>>
    BY <2>4, SubSeqEmpty
  <2> QED
    BY <2>3, <2>5
<1> HIDE DEF m
<1>11. \A n \in 1..m + 1 : LinesOf(g)[n] = LinesOf(f)[n]
  <2>1. \A n \in 1..m + 1 : n \in 1..m + 1 + 1
    BY <1>5
  <2> QED
    BY <1>7, <1>9, <2>1
<1>12. LinesOf(g)[m + 1 + 1] = <<>>
  <2>1. m + 1 + 1 \in 1..m + 1 + 1
    BY <1>5
  <2> QED
    BY <1>7, <1>10, <2>1
<1>13. m + 1 \in Nat \ {0}
  BY <1>5
<1> QED
  <2>1. DOMAIN LinesOf(f) = 1..m + 1 /\ DOMAIN LinesOf(g) = 1..m + 1 + 1 /\ g \in Seq(FileMarks)
    BY <1>2, <1>7
  <2> QED
    BY <1>6, <1>11, <1>12, <1>13, <2>1 DEF BegunAfter, g, m

\* Entries go onto the lines in their order, and one that was not cut short ends its line.
Last == Len(LinesOf(logFile))
LogOrder ==
  \A i \in DOMAIN entries :
    /\ entries[i].line \in 1..Last /\ (~entries[i].cut => entries[i].line < Last)
    /\ \A j \in DOMAIN entries : i < j =>
         entries[i].line <= entries[j].line /\ (~entries[i].cut => entries[i].line < entries[j].line)
\* The last line is that of an entry that was cut short last, or has nothing on it.
LogEnd ==
  IF entries # <<>> /\ entries[Len(entries)].cut
  THEN entries[Len(entries)].line = Last ELSE LinesOf(logFile)[Last] = <<>>
LogAlone == \A i \in DOMAIN entries : EL!Alone(i) => LinesOf(logFile)[entries[i].line] = entries[i].text
OfEntry(n) == \E i \in DOMAIN entries :
  entries[i].line = n /\ (entries[i].cut \/ LinesOf(logFile)[n] = entries[i].text)
LogMadeUp == \A n \in DOMAIN LinesOf(logFile) : LinesOf(logFile)[n] # <<>> => OfEntry(n)
\* As long as none was cut short, each entry has the line of its number.
LogUncut == (\A i \in DOMAIN entries : ~entries[i].cut) =>
              Last = Len(entries) + 1 /\ \A i \in DOMAIN entries : entries[i].line = i
LogInv == EL!TypeOK /\ LogOrder /\ LogEnd /\ LogAlone /\ LogMadeUp /\ LogUncut

LEMMA LogInit ==
  ASSUME EL!Init
  PROVE  LogInv
<1>1. logFile = <<>> /\ entries = <<>>
  BY DEF EL!Init
<1>2. Len(logFile) = 0 /\ DOMAIN entries = {} /\ Len(entries) = 0
  BY <1>1
<1>3. Breaks(logFile) = {}
  BY <1>1 DEF Breaks
<1>4. Cardinality(Breaks(logFile)) = 0
  BY <1>3, FS_EmptySet
<1>5. LinesOf(logFile) = [n \in 1..1 |-> Line(logFile, n)]
  BY <1>4 DEF LinesOf
<1>6. Line(logFile, 1) = <<>>
  <2>1. Line(logFile, 1) = SubSeq(logFile, 1, 0)
    BY <1>2, <1>4 DEF Line, Start
  <2>2. SubSeq(logFile, 1, 0) = <<>>
    BY SubSeqEmpty
  <2> QED
    BY <2>1, <2>2
<1>7. DOMAIN LinesOf(logFile) = 1..1 /\ \A n \in 1..1 : LinesOf(logFile)[n] = <<>>
  BY <1>5, <1>6
<1>8. LinesOf(logFile) \in [1..1 -> {<<>>}]
  BY <1>5, <1>6
<1>9. Last = 1
  BY <1>8, FunctionIsSeq DEF Last
<1>10. EL!TypeOK
  <2>1. MaxAppends \in Nat
    BY DataAssumption DEF EL!LogAssumption
  <2>2. logFile \in Seq(EL!Marks \cup {NewLine}) /\ entries \in Seq(EL!Entry)
    BY <1>1
  <2> QED
    BY <1>2, <2>1, <2>2 DEF EL!TypeOK
<1>11. LogOrder /\ LogAlone /\ LogUncut
  BY <1>2, <1>9 DEF LogOrder, LogAlone, LogUncut
<1>12. LogEnd
  BY <1>1, <1>7, <1>9 DEF LogEnd
<1>13. LogMadeUp
  BY <1>7 DEF LogMadeUp
<1> QED
  BY <1>10, <1>11, <1>12, <1>13 DEF LogInv

\* What a step does to the lines, whether it is cut short or not.
LEMMA LinesGrow ==
  ASSUME logFile \in Seq(FileMarks), entries \in Seq(EL!Entry), NEW text \in LogTexts, EL!AppendEventLog(text)
  PROVE  \E c \in Nat \ {0}, broken \in BOOLEAN :
           /\ DOMAIN LinesOf(logFile) = 1..c /\ c = Last
           /\ Len(entries) < MaxAppends
           /\ entries' = Append(entries, [text |-> text, line |-> c, cut |-> broken])
           /\ logFile' \in Seq(FileMarks)
           /\ \A n \in 1..c : n # c => LinesOf(logFile')[n] = LinesOf(logFile)[n]
           /\ broken => DOMAIN LinesOf(logFile') = 1..c /\ Last' = c
           /\ ~broken => /\ DOMAIN LinesOf(logFile') = 1..c + 1 /\ Last' = c + 1
                      /\ LinesOf(logFile')[c] = LinesOf(logFile)[c] \o text /\ LinesOf(logFile')[c + 1] = <<>>
<1> DEFINE c == Cardinality(Breaks(logFile)) + 1
           line == Len(EL!Lines)
<1>1. text \in Seq(EL!Marks)
  BY DataAssumption DEF EL!LogAssumption
<1>2. \A f \in Seq(FileMarks) : /\ Cardinality(Breaks(f)) + 1 \in Nat
                             /\ Len(LinesOf(f)) = Cardinality(Breaks(f)) + 1
                             /\ DOMAIN LinesOf(f) = 1..Cardinality(Breaks(f)) + 1
  <2> TAKE f \in Seq(FileMarks)
  <2>1. Cardinality(Breaks(f)) \in Nat
    BY BreaksOf
  <2>2. LinesOf(f) \in [1..Cardinality(Breaks(f)) + 1 -> {Line(f, n) : n \in 1..Cardinality(Breaks(f)) + 1}]
    BY DEF LinesOf
  <2> QED
    BY <2>1, <2>2, FunctionIsSeq
<1>3. c \in Nat \ {0} /\ DOMAIN LinesOf(logFile) = 1..c /\ c = Last
  <2>1. Cardinality(Breaks(logFile)) \in Nat
    BY BreaksOf
  <2> QED
    BY <1>2, <2>1 DEF Last
<1>4. /\ Len(entries) < MaxAppends
      /\ \/ /\ logFile' = (logFile \o text) \o <<NewLine>>
            /\ entries' = Append(entries, [text |-> text, line |-> line, cut |-> FALSE])
         \/ \E n \in 1..Len(text) :
            /\ logFile' = logFile \o SubSeq(text, 1, n)
            /\ entries' = Append(entries, [text |-> text, line |-> line, cut |-> TRUE])
  BY DEF EL!AppendEventLog, EL!Appended
<1> HIDE DEF line
<1>5. CASE /\ logFile' = (logFile \o text) \o <<NewLine>>
           /\ entries' = Append(entries, [text |-> text, line |-> line, cut |-> FALSE])
  <2>1. PICK g, p : g = logFile \o text /\ p = <<NewLine>> /\ logFile' = g \o p
    BY <1>5
  <2>2. Continued(logFile, g, text)
    BY <1>1, <2>1, Unended
  <2>3. g \in Seq(FileMarks)
    BY <2>2 DEF Continued
  <2>4. BegunAfter(g, logFile')
    BY <2>1, <2>3, Ended
  <2>5. logFile' \in Seq(FileMarks)
    BY <2>4 DEF BegunAfter
  <2>6. line = c
    BY <1>3, <2>5, LinesAre DEF line, Last
  <2>7. /\ \A n \in 1..c : n # c => LinesOf(g)[n] = LinesOf(logFile)[n]
        /\ LinesOf(g)[c] = LinesOf(logFile)[c] \o text /\ Cardinality(Breaks(g)) + 1 = c
    BY <2>2 DEF Continued
  <2>8. /\ Cardinality(Breaks(logFile')) = c
        /\ \A n \in 1..c : LinesOf(logFile')[n] = LinesOf(g)[n]
        /\ LinesOf(logFile')[c + 1] = <<>>
    BY <2>4, <2>7 DEF BegunAfter
  <2>9. Last' = c + 1 /\ DOMAIN LinesOf(logFile') = 1..c + 1
    BY <1>2, <2>5, <2>8 DEF Last
  <2> HIDE DEF c
  <2>10. c \in 1..c
    BY <1>3
  <2>11. LinesOf(logFile')[c] = LinesOf(logFile)[c] \o text
    BY <2>7, <2>8, <2>10
  <2>12. \A n \in 1..c : n # c => LinesOf(logFile')[n] = LinesOf(logFile)[n]
    BY <2>7, <2>8
  <2> QED
    BY <1>3, <1>4, <1>5, <2>5, <2>6, <2>8, <2>9, <2>11, <2>12
<1>6. ASSUME NEW n \in 1..Len(text), logFile' = logFile \o SubSeq(text, 1, n),
             entries' = Append(entries, [text |-> text, line |-> line, cut |-> TRUE])
      PROVE  \E broken \in BOOLEAN :
           /\ broken
           /\ entries' = Append(entries, [text |-> text, line |-> c, cut |-> broken])
           /\ logFile' \in Seq(FileMarks)
           /\ \A m \in 1..c : m # c => LinesOf(logFile')[m] = LinesOf(logFile)[m]
           /\ DOMAIN LinesOf(logFile') = 1..c /\ Last' = c
  <2>1. PICK p : p = SubSeq(text, 1, n)
    OBVIOUS
  <2>2. p \in Seq(EL!Marks) /\ logFile' = logFile \o p
    <3>1. \A i \in 1..n : text[i] \in EL!Marks
      BY <1>1
    <3>2. 1 \in Int /\ n \in Int
      OBVIOUS
    <3>3. SubSeq(text, 1, n) \in Seq(EL!Marks)
      BY <3>1, <3>2, SubSeqProperties
    <3> QED
      BY <1>6, <2>1, <3>3
  <2>3. Continued(logFile, logFile', p)
    BY <2>2, Unended
  <2>4. logFile' \in Seq(FileMarks)
    BY <2>3 DEF Continued
  <2>5. line = c
    BY <1>3, <2>4, LinesAre DEF line, Last
  <2>6. /\ \A m \in 1..c : m # c => LinesOf(logFile')[m] = LinesOf(logFile)[m]
        /\ Cardinality(Breaks(logFile')) + 1 = c
    BY <2>3 DEF Continued
  <2>7. Last' = c /\ DOMAIN LinesOf(logFile') = 1..c
    BY <1>2, <2>4, <2>6 DEF Last
  <2> HIDE DEF c
  <2> WITNESS TRUE \in BOOLEAN
  <2> QED
    BY <1>6, <2>4, <2>5, <2>6, <2>7
<1> HIDE DEF c
<1> QED
  BY <1>3, <1>4, <1>5, <1>6

LEMMA LogStep ==
  ASSUME LogInv, [EL!Next]_(EL!logVars)
  PROVE  LogInv'
<1>0. /\ logFile \in Seq(FileMarks) /\ entries \in Seq(EL!Entry) /\ Len(entries) <= MaxAppends
      /\ LogOrder /\ LogEnd /\ LogAlone /\ LogMadeUp /\ LogUncut
  BY DEF LogInv, EL!TypeOK, FileMarks
<1>1. CASE UNCHANGED EL!logVars
  <2>1. logFile' = logFile /\ entries' = entries
    BY <1>1 DEF EL!logVars
  <2> QED
    BY <2>1 DEF LogInv, EL!TypeOK, LogOrder, LogEnd, LogAlone, LogMadeUp, LogUncut, Last, OfEntry, EL!Alone
<1>2. CASE EL!Next
  <2>1. PICK text \in LogTexts : EL!AppendEventLog(text)
    BY <1>2 DEF EL!Next
  <2>2. PICK c \in Nat \ {0}, broken \in BOOLEAN :
           /\ DOMAIN LinesOf(logFile) = 1..c /\ c = Last
           /\ Len(entries) < MaxAppends
           /\ entries' = Append(entries, [text |-> text, line |-> c, cut |-> broken])
           /\ logFile' \in Seq(FileMarks)
           /\ \A n \in 1..c : n # c => LinesOf(logFile')[n] = LinesOf(logFile)[n]
           /\ broken => DOMAIN LinesOf(logFile') = 1..c /\ Last' = c
           /\ ~broken => /\ DOMAIN LinesOf(logFile') = 1..c + 1 /\ Last' = c + 1
                      /\ LinesOf(logFile')[c] = LinesOf(logFile)[c] \o text /\ LinesOf(logFile')[c + 1] = <<>>
    BY <1>0, <2>1, LinesGrow
  <2> DEFINE k == Len(entries)
             new == [text |-> text, line |-> c, cut |-> broken]
  <2>3. new \in EL!Entry
    BY DEF EL!Entry
  <2>4. new.text = text /\ new.line = c /\ new.cut = broken
    OBVIOUS
  <2>5. k \in Nat /\ DOMAIN entries = 1..k
    BY <1>0
  <2> HIDE DEF new
  <2>6. /\ entries' \in Seq(EL!Entry) /\ Len(entries') = k + 1 /\ DOMAIN entries' = 1..k + 1
        /\ \A i \in 1..k : entries'[i] = entries[i]
        /\ entries'[k + 1] = new
    BY <1>0, <2>2, <2>3 DEF new
  <2>7. \A i \in DOMAIN entries' : i \in DOMAIN entries \/ i = k + 1
    BY <2>5, <2>6
  <2>8. \A i \in DOMAIN entries : i \in 1..k /\ i < k + 1 /\ i \in DOMAIN entries'
    BY <2>5, <2>6
  <2> HIDE DEF k
  <2>9. text \in Seq(EL!Marks) /\ MaxAppends \in Nat
    BY DataAssumption DEF EL!LogAssumption
  <2>10. Last' = (IF broken THEN c ELSE c + 1)
    BY <2>2
  <2>11. \A i \in DOMAIN entries : /\ entries[i].line \in 1..c /\ (~entries[i].cut => entries[i].line < c)
                                   /\ entries'[i] = entries[i]
    BY <1>0, <2>2, <2>6, <2>8 DEF LogOrder
  <2>12. EL!TypeOK'
    BY <2>2, <2>6, <2>9 DEF EL!TypeOK, FileMarks, k
  <2>13. LogOrder'
    <3>1. ASSUME NEW i \in DOMAIN entries'
          PROVE  entries'[i].line \in 1..Last' /\ (~entries'[i].cut => entries'[i].line < Last')
      <4>1. CASE i \in DOMAIN entries
        <5>1. entries[i].line \in 1..c /\ (~entries[i].cut => entries[i].line < c) /\ entries'[i] = entries[i]
          BY <2>11, <4>1
        <5> QED
          BY <2>10, <5>1
      <4>2. CASE i = k + 1
        BY <2>4, <2>6, <2>10, <4>2
      <4> QED
        BY <2>7, <4>1, <4>2
    <3>2. ASSUME NEW i \in DOMAIN entries', NEW j \in DOMAIN entries', i < j
          PROVE  /\ entries'[i].line <= entries'[j].line
                 /\ (~entries'[i].cut => entries'[i].line < entries'[j].line)
      <4>1. i \in DOMAIN entries
        <5>1. i # k + 1
          BY <2>6, <3>2
        <5> QED
          BY <2>7, <5>1
      <4>2. CASE j \in DOMAIN entries
        BY <1>0, <2>11, <3>2, <4>1, <4>2 DEF LogOrder
      <4>3. CASE j = k + 1
        <5>1. entries[i].line \in 1..c /\ (~entries[i].cut => entries[i].line < c) /\ entries'[i] = entries[i]
          BY <2>11, <4>1
        <5>2. entries'[j].line = c
          BY <2>4, <2>6, <4>3
        <5> QED
          BY <5>1, <5>2
      <4> QED
        BY <2>7, <4>2, <4>3
    <3> QED
      BY <3>1, <3>2 DEF LogOrder
  <2>14. LogEnd'
    <3>1. entries' # <<>> /\ entries'[Len(entries')] = new
      <4>1. Len(entries') # 0
        BY <2>5, <2>6
      <4> QED
        BY <2>6, <4>1
    <3>2. CASE broken
      BY <2>2, <2>4, <3>1, <3>2 DEF LogEnd
    <3>3. CASE ~broken
      <4>1. LinesOf(logFile')[Last'] = <<>>
        BY <2>2, <3>3
      <4> QED
        BY <2>4, <3>1, <3>3, <4>1 DEF LogEnd
    <3> QED
      BY <3>2, <3>3
  <2>15. LogAlone'
    <3> SUFFICES ASSUME NEW i \in DOMAIN entries', EL!Alone(i)'
                 PROVE  LinesOf(logFile')[entries'[i].line] = entries'[i].text
      BY DEF LogAlone
    <3>1. ~entries'[i].cut /\ (i > 1 => ~entries'[i - 1].cut)
      BY DEF EL!Alone
    <3>2. CASE i \in DOMAIN entries
      <4>1. entries'[i] = entries[i] /\ entries[i].line \in 1..c /\ ~(entries[i].line = c)
        <5>1. entries'[i] = entries[i] /\ entries[i].line \in 1..c /\ (~entries[i].cut => entries[i].line < c)
          BY <2>11, <3>2
        <5> QED
          BY <3>1, <5>1
      <4>2. EL!Alone(i)
        <5>1. i > 1 => i - 1 \in DOMAIN entries
          BY <2>5, <3>2
        <5>2. i > 1 => ~entries[i - 1].cut
          BY <2>11, <3>1, <5>1
        <5> QED
          BY <3>1, <4>1, <5>2 DEF EL!Alone
      <4>3. LinesOf(logFile)[entries[i].line] = entries[i].text
        BY <1>0, <3>2, <4>2 DEF LogAlone
      <4> QED
        BY <2>2, <4>1, <4>3
    <3>3. CASE i = k + 1
      <4>1. entries'[i] = new /\ ~broken
        BY <2>4, <2>6, <3>1, <3>3
      <4>2. entries # <<>> => ~entries[Len(entries)].cut
        <5> SUFFICES ASSUME entries # <<>>
                     PROVE  ~entries[Len(entries)].cut
          OBVIOUS
        <5>1. k # 0
          BY <1>0 DEF k
        <5>2. k \in DOMAIN entries /\ i > 1 /\ i - 1 = k
          BY <2>5, <3>3, <5>1
        <5> QED
          BY <2>11, <3>1, <5>2 DEF k
      <4>3. LinesOf(logFile)[c] = <<>>
        BY <1>0, <2>2, <4>2 DEF LogEnd
      <4>4. LinesOf(logFile)[c] \o text = text
        BY <2>9, <4>3
      <4> QED
        BY <2>2, <2>4, <4>1, <4>4
    <3> QED
      BY <2>7, <3>2, <3>3
  <2>16. LogMadeUp'
    <3>1. ASSUME NEW n \in 1..c, n # c, LinesOf(logFile')[n] # <<>>
          PROVE  OfEntry(n)'
      <4>1. LinesOf(logFile')[n] = LinesOf(logFile)[n] /\ n \in DOMAIN LinesOf(logFile)
        BY <2>2, <3>1
      <4>2. PICK i \in DOMAIN entries :
              entries[i].line = n /\ (entries[i].cut \/ LinesOf(logFile)[n] = entries[i].text)
        BY <1>0, <3>1, <4>1 DEF LogMadeUp, OfEntry
      <4> QED
        BY <2>8, <2>11, <4>1, <4>2 DEF OfEntry
    <3>2. k + 1 \in DOMAIN entries'
      BY <2>5, <2>6
    <3>3. CASE broken
      <4>1. OfEntry(c)'
        BY <2>4, <2>6, <3>2, <3>3 DEF OfEntry
      <4> QED
        BY <2>2, <3>1, <3>3, <4>1 DEF LogMadeUp
    <3>4. CASE ~broken
      <4>1. OfEntry(c)'
        <5>1. CASE LinesOf(logFile)[c] = <<>>
          <6>1. LinesOf(logFile)[c] \o text = text
            BY <2>9, <5>1
          <6> QED
            BY <2>2, <2>4, <2>6, <3>2, <3>4, <6>1 DEF OfEntry
        <5>2. CASE LinesOf(logFile)[c] # <<>>
          <6>1. c \in DOMAIN LinesOf(logFile)
            BY <2>2
          <6>2. PICK i \in DOMAIN entries :
                  entries[i].line = c /\ (entries[i].cut \/ LinesOf(logFile)[c] = entries[i].text)
            BY <1>0, <2>2, <5>2, <6>1 DEF LogMadeUp, OfEntry
          <6>3. entries[i].cut
            BY <2>11, <6>2
          <6> QED
            BY <2>8, <2>11, <6>2, <6>3 DEF OfEntry
        <5> QED
          BY <5>1, <5>2
      <4>2. \A n \in 1..c + 1 : n = c + 1 \/ n \in 1..c
        OBVIOUS
      <4>3. ASSUME NEW n \in DOMAIN LinesOf(logFile'), LinesOf(logFile')[n] # <<>>
            PROVE  OfEntry(n)'
        <5>1. n \in 1..c
          BY <2>2, <3>4, <4>2, <4>3
        <5> QED
          BY <3>1, <4>1, <4>3, <5>1
      <4> QED
        BY <4>3 DEF LogMadeUp
    <3> QED
      BY <3>3, <3>4
  <2>17. LogUncut'
    <3> SUFFICES ASSUME \A i \in DOMAIN entries' : ~entries'[i].cut
                 PROVE  Last' = Len(entries') + 1 /\ \A i \in DOMAIN entries' : entries'[i].line = i
      BY DEF LogUncut
    <3>1. \A i \in DOMAIN entries : ~entries[i].cut
      BY <2>8, <2>11
    <3>2. c = k + 1 /\ \A i \in DOMAIN entries : entries[i].line = i
      BY <1>0, <2>2, <3>1 DEF LogUncut, k
    <3>3. ~broken
      <4>1. k + 1 \in DOMAIN entries'
        BY <2>5, <2>6
      <4> QED
        BY <2>4, <2>6, <4>1
    <3>4. \A i \in DOMAIN entries' : entries'[i].line = i
      BY <2>4, <2>6, <2>7, <2>11, <3>2
    <3> QED
      BY <2>6, <2>10, <3>2, <3>3, <3>4
  <2> QED
    BY <2>12, <2>13, <2>14, <2>15, <2>16, <2>17 DEF LogInv
<1> QED
  BY <1>1, <1>2

\* Of places, the earlier has the lower rank, and is selected by it.
LEMMA RankOrder ==
  ASSUME NEW N \in Nat, NEW places \in SUBSET (1..N)
  PROVE  \A i \in places : At(places, Rank(places, i)) = i
                           /\ \A k \in places : i < k => Rank(places, i) < Rank(places, k)
<1>1. /\ IsFiniteSet(places)
      /\ \A i \in places : Rank(places, i) \in 1..Cardinality(places)
      /\ \A i, k \in places : Rank(places, i) = Rank(places, k) => i = k
  BY Ranks
<1>2. Cardinality(places) \in Nat
  BY Ranks
<1>3. ASSUME NEW i \in places PROVE At(places, Rank(places, i)) = i
  <2>1. At(places, Rank(places, i)) \in places /\ Rank(places, At(places, Rank(places, i))) = Rank(places, i)
    BY DEF At
  <2> QED
    BY <1>1, <2>1
<1>4. ASSUME NEW i \in places, NEW k \in places, i < k PROVE Rank(places, i) < Rank(places, k)
  <2> DEFINE Upto(x) == {j \in places : j <= x}
  <2>1. Upto(i) \in SUBSET Upto(k) /\ Upto(k) \in SUBSET places
    <3>1. i \in Int /\ k \in Int /\ \A j \in places : j \in Int
      OBVIOUS
    <3>2. \A j \in places : j <= i => j <= k
      BY <1>4, <3>1
    <3> QED
      BY <3>2
  <2>2. Rank(places, i) = Cardinality(Upto(i)) /\ Rank(places, k) = Cardinality(Upto(k))
    BY DEF Rank
  <2> HIDE DEF Upto
  <2>3. IsFiniteSet(Upto(k))
    BY <1>1, <2>1, FS_Subset
  <2>4. Rank(places, i) <= Rank(places, k)
    BY <2>1, <2>2, <2>3, FS_Subset
  <2>5. Rank(places, i) # Rank(places, k)
    BY <1>1, <1>4
  <2>6. Rank(places, i) \in Int /\ Rank(places, k) \in Int
    BY <1>1, <1>2
  <2> QED
    BY <2>4, <2>5, <2>6
<1> QED
  BY <1>3, <1>4

\* What is read from the lines that can be.
LineAt(n) == LinesOf(logFile)[n]
Readable  == {n \in DOMAIN LinesOf(logFile) : LineAt(n) # <<>> /\ Parsed(LineAt(n)).ok}
Got(n)    == Parsed(LineAt(n)).v

LEMMA TraverseReads ==
  ASSUME logFile \in Seq(FileMarks)
  PROVE  /\ Last \in Nat \ {0} /\ DOMAIN LinesOf(logFile) = 1..Last /\ EL!Lines = LinesOf(logFile)
         /\ Readable \in SUBSET (1..Last) /\ Cardinality(Readable) \in Nat
         /\ EL!TraverseEventLog = [n \in 1..Cardinality(Readable) |-> Got(At(Readable, n))]
<1> DEFINE c == Cardinality(Breaks(logFile)) + 1
<1>1. c \in Nat \ {0}
  BY BreaksOf
<1>2. LinesOf(logFile) \in [1..c -> {Line(logFile, n) : n \in 1..c}]
  BY DEF LinesOf
<1> HIDE DEF c
<1>3. Last = c /\ DOMAIN LinesOf(logFile) = 1..c
  BY <1>1, <1>2, FunctionIsSeq DEF Last
<1>4. Readable \in SUBSET (1..Last)
  BY <1>3 DEF Readable
<1>5. Cardinality(Readable) \in Nat /\ \A n \in 1..Cardinality(Readable) : At(Readable, n) \in Readable
  <2>1. Last \in Nat /\ Last + 1 \in Nat /\ Last + 1 > Last
    BY <1>1, <1>3
  <2>2. Added(Readable, Last + 1)
    BY <1>4, <2>1, PlaceAdded
  <2> QED
    BY <2>2 DEF Added
<1>6. EL!Lines = LinesOf(logFile)
  BY LinesAre
<1> DEFINE valueAt == [n \in DOMAIN LinesOf(logFile) |-> Got(n)]
<1>7. EL!TraverseEventLog = Only(valueAt, Readable)
  BY <1>6, EventLogSelects DEF EL!TraverseEventLog, Readable, Got, LineAt
<1>8. \A n \in 1..Cardinality(Readable) : valueAt[At(Readable, n)] = Got(At(Readable, n))
  BY <1>3, <1>4, <1>5
<1> HIDE DEF valueAt
<1>9. Only(valueAt, Readable) = [n \in 1..Cardinality(Readable) |-> Got(At(Readable, n))]
  BY <1>8 DEF Only
<1> QED
  BY <1>1, <1>3, <1>4, <1>5, <1>6, <1>7, <1>9

\* The entries that are alone on their lines and can be read are read, in their order.
Sure == {i \in DOMAIN entries : EL!Alone(i) /\ Parsed(entries[i].text).ok}

LEMMA SureAreRead ==
  ASSUME LogInv
  PROVE  \E place \in [Sure -> DOMAIN EL!TraverseEventLog] : \A i \in Sure :
           /\ EL!TraverseEventLog[place[i]] = EL!Value(i)
           /\ \A j \in Sure : i < j => place[i] < place[j]
<1>0. /\ logFile \in Seq(FileMarks) /\ entries \in Seq(EL!Entry) /\ LogOrder /\ LogAlone
  BY DEF LogInv, EL!TypeOK, FileMarks
<1>1. /\ Last \in Nat \ {0} /\ DOMAIN LinesOf(logFile) = 1..Last
      /\ Readable \in SUBSET (1..Last) /\ Cardinality(Readable) \in Nat
      /\ EL!TraverseEventLog = [n \in 1..Cardinality(Readable) |-> Got(At(Readable, n))]
  BY <1>0, TraverseReads
<1>2. ASSUME NEW i \in Sure
      PROVE  /\ entries[i].line \in Readable /\ Got(entries[i].line) = EL!Value(i)
             /\ \A j \in Sure : i < j => entries[i].line < entries[j].line
  <2>1. i \in DOMAIN entries /\ EL!Alone(i) /\ Parsed(entries[i].text).ok
    BY DEF Sure
  <2>2. LineAt(entries[i].line) = entries[i].text /\ entries[i].line \in 1..Last /\ ~entries[i].cut
    BY <1>0, <2>1 DEF LogAlone, LogOrder, EL!Alone, LineAt
  <2>3. entries[i].text # <<>>
    <3>1. entries[i] \in EL!Entry
      BY <1>0, <2>1
    <3>2. entries[i].text \in LogTexts
      BY <3>1 DEF EL!Entry
    <3> QED
      BY <3>2, DataAssumption DEF EL!LogAssumption
  <2>4. \A j \in Sure : i < j => entries[i].line < entries[j].line
    BY <1>0, <2>1, <2>2 DEF LogOrder, Sure
  <2>5. entries[i].line \in Readable
    BY <1>1, <2>1, <2>2, <2>3 DEF Readable
  <2>6. Got(entries[i].line) = EL!Value(i)
    BY <2>2 DEF Got, EL!Value
  <2> QED
    BY <2>4, <2>5, <2>6
<1> DEFINE place == [i \in Sure |-> Rank(Readable, entries[i].line)]
<1>3. /\ \A l \in Readable : Rank(Readable, l) \in 1..Cardinality(Readable)
      /\ \A l \in Readable : At(Readable, Rank(Readable, l)) = l
      /\ \A l, m \in Readable : l < m => Rank(Readable, l) < Rank(Readable, m)
  <2>1. PICK N \in Nat : N = Last
    BY <1>1
  <2> QED
    BY <1>1, <2>1, Ranks, RankOrder
<1>4. place \in [Sure -> DOMAIN EL!TraverseEventLog]
  <2>1. DOMAIN EL!TraverseEventLog = 1..Cardinality(Readable)
    BY <1>1
  <2> QED
    BY <1>2, <1>3, <2>1
<1>5. ASSUME NEW i \in Sure
      PROVE  /\ EL!TraverseEventLog[place[i]] = EL!Value(i)
             /\ \A j \in Sure : i < j => place[i] < place[j]
  <2>1. place[i] \in 1..Cardinality(Readable) /\ At(Readable, place[i]) = entries[i].line
    BY <1>2, <1>3
  <2>2. \A j \in Sure : i < j => place[i] < place[j]
    BY <1>2, <1>3
  <2> HIDE DEF place
  <2>3. EL!TraverseEventLog[place[i]] = Got(entries[i].line)
    BY <1>1, <2>1
  <2> QED
    BY <1>2, <2>2, <2>3
<1> HIDE DEF place
<1> QED
  BY <1>4, <1>5

\* If none was cut short and all can be read, they are what is read.
LEMMA AllAreRead ==
  ASSUME LogInv, Sure = DOMAIN entries
  PROVE  EL!TraverseEventLog = [i \in DOMAIN entries |-> EL!Value(i)]
<1>0. /\ logFile \in Seq(FileMarks) /\ entries \in Seq(EL!Entry) /\ LogEnd /\ LogAlone /\ LogUncut
  BY DEF LogInv, EL!TypeOK, FileMarks
<1>1. /\ Last \in Nat \ {0} /\ DOMAIN LinesOf(logFile) = 1..Last
      /\ EL!TraverseEventLog = [n \in 1..Cardinality(Readable) |-> Got(At(Readable, n))]
  BY <1>0, TraverseReads
<1> DEFINE k == Len(entries)
<1>2. k \in Nat /\ DOMAIN entries = 1..k
  BY <1>0
<1>3. \A i \in DOMAIN entries : EL!Alone(i) /\ ~entries[i].cut /\ Parsed(entries[i].text).ok
  BY DEF Sure, EL!Alone
<1>4. Last = k + 1 /\ \A i \in DOMAIN entries : entries[i].line = i
  BY <1>0, <1>3 DEF LogUncut
<1>5. LineAt(k + 1) = <<>>
  <2>1. entries # <<>> => ~entries[k].cut
    <3>1. entries # <<>> => k \in DOMAIN entries
      BY <1>0
    <3> QED
      BY <1>3, <3>1
  <2> QED
    BY <1>0, <1>4, <2>1 DEF LogEnd, LineAt
<1>6. \A i \in DOMAIN entries : LineAt(i) = entries[i].text /\ Got(i) = EL!Value(i)
  BY <1>0, <1>3, <1>4 DEF LogAlone, LineAt, Got, EL!Value
<1>7. \A i \in DOMAIN entries : entries[i].text # <<>>
  <2> TAKE i \in DOMAIN entries
  <2>1. entries[i] \in EL!Entry
    BY <1>0
  <2>2. entries[i].text \in LogTexts
    BY <2>1 DEF EL!Entry
  <2> QED
    BY <2>2, DataAssumption DEF EL!LogAssumption
<1> HIDE DEF k
<1>8. Readable = 1..k
  <2>1. \A n \in 1..k + 1 : n = k + 1 \/ n \in 1..k
    BY <1>2
  <2>2. \A n \in 1..k : n \in 1..k + 1 /\ n # k + 1
    BY <1>2
  <2>3. \A n : n \in Readable <=> n \in 1..k
    BY <1>1, <1>2, <1>3, <1>4, <1>5, <1>6, <1>7, <2>1, <2>2 DEF Readable
  <2> QED
    BY <2>3
<1>9. Cardinality(Readable) = k /\ \A n \in 1..k : At(Readable, n) = n
  BY <1>2, <1>8, AllPlaces
<1> QED
  BY <1>1, <1>2, <1>6, <1>9

\* If retrieving the log succeeds, it gives what is traversed, or the last of it.
LEMMA RetrieveReads ==
  ASSUME LogInv, EL!RetrieveEventLog(0).ok
  PROVE  /\ EL!RetrieveEventLog(0).values = EL!TraverseEventLog
         /\ \A limit \in 1..MaxAppends : EL!RetrieveEventLog(limit).values =
              SubSeq(EL!TraverseEventLog,
                     IF limit < Len(EL!TraverseEventLog) THEN Len(EL!TraverseEventLog) - limit + 1 ELSE 1,
                     Len(EL!TraverseEventLog))
<1>0. logFile \in Seq(FileMarks)
  BY DEF LogInv, EL!TypeOK, FileMarks
<1>1. /\ Last \in Nat \ {0} /\ DOMAIN LinesOf(logFile) = 1..Last /\ EL!Lines = LinesOf(logFile)
      /\ EL!TraverseEventLog = [n \in 1..Cardinality(Readable) |-> Got(At(Readable, n))]
  BY <1>0, TraverseReads
<1> DEFINE used == {n \in 1..Last : LineAt(n) # <<>>}
           final == IF used = {} THEN 0 ELSE At(used, Cardinality(used))
           first(limit) == IF limit > 0 /\ limit < final THEN final - limit ELSE 0
<1>2. used \in SUBSET (1..Last) /\ Last \in Nat
  BY <1>1
<1>3. \A limit : EL!RetrieveEventLog(limit) =
        [ok |-> \A i \in 1 .. final - first(limit) : Parsed(LineAt(first(limit) + i)).ok,
         values |-> [i \in 1 .. final - first(limit) |-> Got(first(limit) + i)]]
  <2> DEFINE there == {n \in DOMAIN EL!Lines : EL!Lines[n] # <<>>}
             till == IF there = {} THEN 0 ELSE EL!At(there, EL!Cardinality(there))
             after(limit) == IF limit > 0 /\ limit < till THEN till - limit ELSE 0
  <2>1. \A limit : EL!RetrieveEventLog(limit) =
          [ok |-> \A i \in 1 .. till - after(limit) : Parsed(EL!Lines[after(limit) + i]).ok,
           values |-> [i \in 1 .. till - after(limit) |-> Parsed(EL!Lines[after(limit) + i]).v]]
    BY DEF EL!RetrieveEventLog
  <2>2. there = used
    BY <1>1 DEF LineAt
  <2> HIDE DEF there, used
  <2>3. till = final
    BY <2>2, EventLogSelects
  <2> HIDE DEF till, final
  <2>4. \A limit : after(limit) = first(limit)
    BY <2>3
  <2> HIDE DEF after, first
  <2>5. \A n : Parsed(EL!Lines[n]).ok = Parsed(LineAt(n)).ok /\ Parsed(EL!Lines[n]).v = Got(n)
    BY <1>1 DEF LineAt, Got
  <2> QED
    BY <2>1, <2>3, <2>4, <2>5
<1> HIDE DEF used
<1>4. final \in 0..Last /\ \A n \in used : n <= final
  <2>1. CASE used = {}
    BY <1>1, <2>1
  <2>2. CASE used # {}
    <3>1. At(used, Cardinality(used)) \in used /\ \A j \in used : j <= At(used, Cardinality(used))
      <4>1. \A N \in Nat : used \in SUBSET (1..N) =>
              At(used, Cardinality(used)) \in used /\ \A j \in used : j <= At(used, Cardinality(used))
        BY <2>2, Ends
      <4> QED
        BY <1>2, <4>1
    <3>2. final \in used /\ \A j \in used : j <= final
      BY <2>2, <3>1
    <3> HIDE DEF final
    <3>3. final \in 1..Last
      BY <1>2, <3>2
    <3> QED
      BY <1>2, <3>2, <3>3
  <2> QED
    BY <2>1, <2>2
<1> HIDE DEF final
<1>5. \A n \in 1..final : Parsed(LineAt(n)).ok
  <2>1. EL!RetrieveEventLog(0).ok = \A i \in 1 .. final - first(0) : Parsed(LineAt(first(0) + i)).ok
    BY <1>3
  <2>2. first(0) = 0
    OBVIOUS
  <2>3. \A i \in 1 .. final - 0 : Parsed(LineAt(0 + i)).ok
    BY <2>1, <2>2
  <2>4. \A n \in 1..final : n \in 1..final - 0 /\ 0 + n = n
    BY <1>4
  <2> QED
    BY <2>3, <2>4
<1>6. Readable = 1..final
  <2>1. ~Parsed(<<>>).ok
    BY DataAssumption DEF EL!LogAssumption
  <2>2. ASSUME NEW n \in 1..final PROVE n \in Readable
    <3>1. n \in DOMAIN LinesOf(logFile)
      BY <1>1, <1>4
    <3>2. Parsed(LineAt(n)).ok
      BY <1>5
    <3>3. LineAt(n) # <<>>
      BY <2>1, <3>2
    <3> QED
      BY <3>1, <3>2, <3>3 DEF Readable
  <2>3. ASSUME NEW n \in Readable PROVE n \in 1..final
    <3>1. n \in 1..Last /\ LineAt(n) # <<>>
      BY <1>1 DEF Readable
    <3>2. n \in used
      BY <3>1 DEF used
    <3> QED
      BY <1>4, <3>1, <3>2
  <2> QED
    BY <2>2, <2>3
<1> DEFINE read == [n \in 1..final |-> Got(n)]
           Z == {Got(n) : n \in 1..final}
<1>7. EL!TraverseEventLog = read
  <2>1. final \in Nat
    BY <1>4
  <2>2. Cardinality(1..final) = final /\ \A n \in 1..final : At(1..final, n) = n
    BY <2>1, AllPlaces
  <2> QED
    BY <1>1, <1>6, <2>2
<1>8. read \in Seq(Z) /\ Len(read) = final /\ \A n \in 1..final : read[n] = Got(n)
  <2>1. read \in [1..final -> Z]
    OBVIOUS
  <2>2. final \in Nat
    BY <1>4
  <2> QED
    BY <2>1, <2>2, FunctionIsSeq
<1> HIDE DEF read
<1>9. ASSUME NEW f \in 0..final
      PROVE  [i \in 1 .. final - f |-> Got(f + i)] = SubSeq(read, f + 1, final)
  <2> DEFINE v == [i \in 1 .. final - f |-> Got(f + i)]
             w == SubSeq(read, f + 1, final)
  <2>1. final \in Nat /\ final - f \in Nat /\ f + 1 \in Int /\ final \in Int
    BY <1>4
  <2>2. \A i \in f + 1 .. final : read[i] \in Z
    <3>1. \A i \in f + 1 .. final : i \in 1..final
      BY <2>1
    <3> QED
      BY <1>8, <3>1
  <2>3. \A i \in 1..final - f : f + i \in 1..final /\ f + 1 + i - 1 = f + i
    BY <2>1
  <2>4. v \in [1..final - f -> Z]
    BY <2>3
  <2> HIDE DEF Z
  <2>5. v \in Seq(Z) /\ Len(v) = final - f
    BY <2>1, <2>4, FunctionIsSeq
  <2>6. /\ w \in Seq(Z)
        /\ Len(w) = IF f + 1 <= final THEN final - (f + 1) + 1 ELSE 0
        /\ \A i \in 1 .. final - (f + 1) + 1 : w[i] = read[f + 1 + i - 1]
    BY <2>1, <2>2, SubSeqProperties
  <2>7. final - (f + 1) + 1 = final - f /\ (~(f + 1 <= final) => final - f = 0)
    BY <2>1
  <2>8. Len(w) = final - f
    BY <2>6, <2>7
  <2>9. \A i \in 1..final - f : v[i] = w[i]
    <3> TAKE i \in 1..final - f
    <3>1. v[i] = Got(f + i)
      OBVIOUS
    <3> HIDE DEF v, w
    <3>2. w[i] = read[f + 1 + i - 1]
      BY <2>6, <2>7
    <3>3. read[f + i] = Got(f + i)
      BY <1>8, <2>3
    <3> QED
      BY <2>3, <3>1, <3>2, <3>3
  <2> HIDE DEF v, w
  <2>10. v = w
    BY <2>5, <2>6, <2>8, <2>9, SeqEqual
  <2> QED
    BY <2>10 DEF v, w
<1>10. EL!RetrieveEventLog(0).values = read
  <2>1. EL!RetrieveEventLog(0).values = [i \in 1 .. final - first(0) |-> Got(first(0) + i)]
    BY <1>3
  <2>2. first(0) = 0
    OBVIOUS
  <2>3. 1..final - 0 = 1..final /\ \A i \in 1..final : 0 + i = i
    BY <1>4
  <2>4. [i \in 1 .. final - 0 |-> Got(0 + i)] = read
    BY <2>3 DEF read
  <2> QED
    BY <2>1, <2>2, <2>4
<1>11. ASSUME NEW limit \in 1..MaxAppends
       PROVE  EL!RetrieveEventLog(limit).values =
                SubSeq(read, IF limit < Len(read) THEN Len(read) - limit + 1 ELSE 1, Len(read))
  <2>1. MaxAppends \in Nat
    BY DataAssumption DEF EL!LogAssumption
  <2>2. first(limit) \in 0..final
    BY <1>4, <2>1
  <2>3. first(limit) + 1 = IF limit < final THEN final - limit + 1 ELSE 1
    BY <1>4, <2>1
  <2>4. EL!RetrieveEventLog(limit).values = [i \in 1 .. final - first(limit) |-> Got(first(limit) + i)]
    BY <1>3
  <2> HIDE DEF first
  <2>5. EL!RetrieveEventLog(limit).values = SubSeq(read, first(limit) + 1, final)
    BY <1>9, <2>2, <2>4
  <2> QED
    BY <1>8, <2>3, <2>5
<1> QED
  BY <1>7, <1>10, <1>11

LEMMA LogConcludes ==
  ASSUME LogInv
  PROVE  EL!TypeOK /\ EL!LogKept
<1>1. EL!TypeOK /\ logFile \in Seq(FileMarks) /\ LogMadeUp
  BY DEF LogInv, EL!TypeOK, FileMarks
<1>2. EL!Lines = LinesOf(logFile)
  BY <1>1, TraverseReads
<1>3. \A n \in DOMAIN EL!Lines : EL!Lines[n] # <<>> =>
        \E i \in DOMAIN entries :
          entries[i].line = n /\ (entries[i].cut \/ EL!Lines[n] = entries[i].text)
  BY <1>1, <1>2 DEF LogMadeUp, OfEntry
<1>4. \E place \in [Sure -> DOMAIN EL!TraverseEventLog] : \A i \in Sure :
        /\ EL!TraverseEventLog[place[i]] = EL!Value(i)
        /\ \A j \in Sure : i < j => place[i] < place[j]
  BY SureAreRead
<1>5. Sure = DOMAIN entries => EL!TraverseEventLog = [i \in DOMAIN entries |-> EL!Value(i)]
  BY AllAreRead
<1>6. EL!RetrieveEventLog(0).ok =>
        /\ EL!RetrieveEventLog(0).values = EL!TraverseEventLog
        /\ \A limit \in 1..MaxAppends : EL!RetrieveEventLog(limit).values =
              SubSeq(EL!TraverseEventLog,
                     IF limit < Len(EL!TraverseEventLog) THEN Len(EL!TraverseEventLog) - limit + 1 ELSE 1,
                     Len(EL!TraverseEventLog))
  BY RetrieveReads
<1> HIDE DEF EL!TraverseEventLog, EL!RetrieveEventLog, EL!Value, EL!Alone
<1>7. EL!LogKept
  <2>1. Sure = {i \in DOMAIN entries : EL!Alone(i) /\ Parsed(entries[i].text).ok}
    BY DEF Sure
  <2> QED
    BY <1>3, <1>4, <1>5, <1>6, <2>1 DEF EL!LogKept
<1> QED
  BY <1>1, <1>7

-----------------------------------------------------------------------------
(* The URL.                                                                *)

LEMMA Least ==
  ASSUME NEW D \in SUBSET Nat, D # {}
  PROVE  U!Min(D) \in D /\ \A x \in D : U!Min(D) <= x
<1>1. \E x \in D : \A y \in D : x <= y
  BY LeastNumber
<1> QED
  BY <1>1 DEF U!Min

LEMMA Greatest ==
  ASSUME NEW N \in Nat, NEW D \in SUBSET (0..N), D # {}
  PROVE  U!Max(D) \in D /\ \A x \in D : U!Max(D) >= x
<1> DEFINE E == {N - x : x \in D}
<1>1. E \in SUBSET Nat /\ E # {}
  <2>1. ASSUME NEW x \in D PROVE N - x \in Nat
    <3>1. x \in 0..N
      OBVIOUS
    <3> QED
      BY <3>1
  <2> QED
    BY <2>1
<1>2. U!Min(E) \in E /\ \A x \in E : U!Min(E) <= x
  <2> HIDE DEF E
  <2> QED
    BY <1>1, Least
<1>3. PICK x \in D : U!Min(E) = N - x
  BY <1>2
<1>4. \A y \in D : x >= y
  <2>1. ASSUME NEW y \in D PROVE x >= y
    <3>1. N - y \in E
      OBVIOUS
    <3>2. N - x <= N - y
      BY <1>2, <1>3, <3>1
    <3> QED
      BY <3>2
  <2> QED
    BY <2>1
<1> QED
  BY <1>4 DEF U!Max

\* Where a character is found first, and that this is what a search finds.
LEMMA FirstFound ==
  ASSUME NEW s \in Seq(Nat), NEW from \in Nat \ {0}, NEW c \in Nat, from <= Len(s) + 1
  PROVE  /\ U!At(s, from, c) \in from..Len(s) + 1
         /\ \A i \in from..U!At(s, from, c) - 1 : s[i] # c
         /\ U!At(s, from, c) <= Len(s) => s[U!At(s, from, c)] = c
         /\ \A p \in from..Len(s) : s[p] = c /\ (\A i \in from..p - 1 : s[i] # c) => U!At(s, from, c) = p
<1> DEFINE D == {i \in from..Len(s) : s[i] = c} \cup {Len(s) + 1}
           m == U!Min(D)
<1>1. Len(s) \in Nat
  OBVIOUS
<1>2. D \in SUBSET Nat /\ D # {}
  BY <1>1
<1>3. m \in D /\ \A x \in D : m <= x
  <2> HIDE DEF D
  <2> QED
    BY <1>2, Least
<1>4. U!At(s, from, c) = m
  BY DEF U!At
<1> HIDE DEF m
<1>5. m \in from..Len(s) + 1
  BY <1>1, <1>3
<1>6. \A i \in from..m - 1 : s[i] # c
  BY <1>1, <1>3, <1>5
<1>7. m <= Len(s) => s[m] = c
  BY <1>1, <1>3
<1>8. \A p \in from..Len(s) : s[p] = c /\ (\A i \in from..p - 1 : s[i] # c) => m = p
  <2>1. ASSUME NEW p \in from..Len(s), s[p] = c, \A i \in from..p - 1 : s[i] # c PROVE m = p
    <3>1. m <= p
      BY <1>3, <2>1
    <3>2. m <= Len(s) /\ s[m] = c
      BY <1>1, <1>5, <1>7, <3>1
    <3> QED
      BY <1>1, <1>5, <2>1, <3>1, <3>2
  <2> QED
    BY <2>1
<1> QED
  BY <1>4, <1>5, <1>6, <1>7, <1>8

LEMMA FoundIs ==
  ASSUME NEW s \in Seq(Nat), NEW from \in Nat \ {0}, NEW c \in Nat, NEW p \in from..Len(s), s[p] = c,
         \A i \in from..p - 1 : s[i] # c
  PROVE  U!At(s, from, c) = p
<1>1. from <= Len(s) + 1
  OBVIOUS
<1> QED
  BY Zenon, <1>1, FirstFound

-----------------------------------------------------------------------------
\* Digits.
Numerals == Seq(0..9)

LEMMA NumeralsAreTexts == \A s \in Numerals : s \in Seq(Nat)
<1>1. ASSUME NEW s \in Numerals PROVE s \in Seq(Nat)
  <2>1. Len(s) \in Nat /\ s \in [1..Len(s) -> 0..9]
    BY ElementOfSeq DEF Numerals
  <2>2. s \in [1..Len(s) -> Nat]
    BY <2>1
  <2> QED
    BY <2>1, <2>2, FunctionIsSeq
<1> QED
  BY <1>1

LEMMA NumberRead ==
  ASSUME NEW s \in Seq(Nat)
  PROVE  U!NumberAt(s) \in Numerals /\ (s \in Numerals => U!NumberAt(s) = s)
<1> DEFINE D == {n \in 0..Len(s) : \A i \in 1..n : s[i] < 10}
           m == U!Max(D)
<1>1. Len(s) \in Nat /\ D \in SUBSET (0..Len(s)) /\ 0 \in D
  OBVIOUS
<1>2. m \in D /\ \A x \in D : m >= x
  <2> HIDE DEF D
  <2> QED
    BY <1>1, Greatest
<1>3. U!NumberAt(s) = SubSeq(s, 1, m)
  BY DEF U!NumberAt
<1>4. m \in 0..Len(s) /\ \A i \in 1..m : s[i] \in 0..9
  <2>1. m \in 0..Len(s) /\ \A i \in 1..m : s[i] < 10
    BY <1>2
  <2>2. \A i \in 1..Len(s) : s[i] \in Nat
    OBVIOUS
  <2> HIDE DEF m, D
  <2>3. ASSUME NEW i \in 1..m PROVE s[i] \in 0..9
    <3>1. i \in 1..Len(s)
      BY <1>1, <2>1
    <3>2. s[i] \in Nat
      BY <2>2, <3>1
    <3>3. s[i] < 10
      BY <2>1
    <3>4. \A x \in Nat : x < 10 => x \in 0..9
      OBVIOUS
    <3> QED
      BY <3>2, <3>3, <3>4
  <2> QED
    BY <2>1, <2>3
<1> HIDE DEF m
<1>5. SubSeq(s, 1, m) \in Seq(0..9)
  <2>1. SubSeq(s, 1, m) = [i \in 1..m |-> s[i]]
    BY <1>4
  <2> QED
    BY <1>4, <2>1, FunctionIsSeq
<1>6. ASSUME s \in Numerals PROVE SubSeq(s, 1, m) = s
  <2>1. \A i \in 1..Len(s) : s[i] < 10
    BY <1>6 DEF Numerals
  <2>2. Len(s) \in D
    BY <1>1, <2>1
  <2>3. m = Len(s)
    BY <1>2, <1>4, <2>2
  <2> QED
    BY <2>3
<1> QED
  BY <1>3, <1>5, <1>6 DEF Numerals

LEMMA LargestInt == U!MaxInt \in Nat /\ U!MaxInt < 10 * 1000000000
BY SMT DEF U!MaxInt

LEMMA DigitRange ==
  ASSUME NEW s \in Numerals, NEW k \in Nat
  PROVE  U!Digit(s, k) \in 0..9
<1>1. Len(s) \in Nat /\ \A i \in 1..Len(s) : s[i] \in 0..9
  BY DEF Numerals
<1> QED
  BY <1>1 DEF U!Digit

LEMMA ValueRange ==
  ASSUME NEW s \in Numerals
  PROVE  U!Value(s) \in 0..U!MaxInt
<1>1. \A k \in 0..9 : U!Digit(s, k) \in Nat
  BY DigitRange
<1>2. U!Sum(s) \in Nat
  BY SMT, <1>1 DEF U!Sum
<1> QED
  BY SMT, <1>2, LargestInt DEF U!Value, U!IsInt

LEMMA LastDigit == ASSUME NEW x \in Nat, NEW t \in Nat \ {0} PROVE (x \div t) % 10 \in 0..9
<1>1. x \div t \in Nat
  BY SMT
<1> QED
  BY <1>1

LEMMA TensAre == \A i \in 1..10 : U!Tens[i] \in Nat \ {0}
<1>1. \A i \in 1..10 : i \in {1, 2, 3, 4, 5, 6, 7, 8, 9, 10}
  OBVIOUS
<1> QED
  BY SMT, <1>1 DEF U!Tens

\* A number is as wide as its digits.
LEMMA DigitsWidth ==
  ASSUME NEW n \in 0..U!MaxInt
  PROVE  /\ U!Width(n) \in 1..10
         /\ U!Width(n) > 1 => U!Tens[U!Width(n)] <= n
         /\ U!Width(n) < 10 => n < U!Tens[U!Width(n) + 1]
<1> DEFINE Fits(w) == (w > 1 => U!Tens[w] <= n) /\ (w < 10 => n < U!Tens[w + 1])
<1>1. \E w \in 1..10 : Fits(w)
  <2>1. n < 10 => Fits(1)
    BY SMT DEF U!Tens
  <2>2. 10 <= n /\ n < 100 => Fits(2)
    BY SMT DEF U!Tens
  <2>3. 100 <= n /\ n < 1000 => Fits(3)
    BY SMT DEF U!Tens
  <2>4. 1000 <= n /\ n < 10000 => Fits(4)
    BY SMT DEF U!Tens
  <2>5. 10000 <= n /\ n < 100000 => Fits(5)
    BY SMT DEF U!Tens
  <2>6. 100000 <= n /\ n < 1000000 => Fits(6)
    BY SMT DEF U!Tens
  <2>7. 1000000 <= n /\ n < 10000000 => Fits(7)
    BY SMT DEF U!Tens
  <2>8. 10000000 <= n /\ n < 100000000 => Fits(8)
    BY SMT DEF U!Tens
  <2>9. 100000000 <= n /\ n < 1000000000 => Fits(9)
    BY SMT DEF U!Tens
  <2>10. 1000000000 <= n => Fits(10)
    BY SMT DEF U!Tens
  <2> HIDE DEF Fits
  <2> QED
    BY <2>1, <2>2, <2>3, <2>4, <2>5, <2>6, <2>7, <2>8, <2>9, <2>10
<1>2. U!Width(n) = CHOOSE w \in 1..10 : Fits(w)
  BY DEF U!Width
<1>3. U!Width(n) \in 1..10 /\ Fits(U!Width(n))
  <2> HIDE DEF Fits
  <2> QED
    BY <1>1, <1>2
<1> QED
  BY <1>3

LEMMA DigitsAre ==
  ASSUME NEW n \in 0..U!MaxInt, NEW w \in 1..10
  PROVE  \A i \in 1..w : (n \div U!Tens[w - i + 1]) % 10 \in 0..9
<1> SUFFICES ASSUME NEW i \in 1..w PROVE (n \div U!Tens[w - i + 1]) % 10 \in 0..9
  OBVIOUS
<1>1. w - i + 1 \in 1..10 /\ n \in Nat
  BY SMT, LargestInt
<1>2. U!Tens[w - i + 1] \in Nat \ {0}
  BY <1>1, TensAre
<1> QED
  BY <1>1, <1>2, LastDigit

\* Place by place: from the right, what is left of n when k digits are cut off.
LEMMA DigitOf ==
  ASSUME NEW n \in 0..U!MaxInt, NEW k \in 0..9
  PROVE  U!Digit(U!Digits(n), k) = (n \div U!Tens[k + 1]) % 10
<1> DEFINE w == U!Width(n)
<1>1. /\ w \in 1..10
      /\ w > 1 => U!Tens[w] <= n
      /\ w < 10 => n < U!Tens[w + 1]
  BY DigitsWidth
<1> HIDE DEF w
<1>2. U!Digits(n) = [i \in 1..w |-> (n \div U!Tens[w - i + 1]) % 10]
  BY DEF w, U!Digits
<1>3. \A i \in 1..10 : U!Tens[i] \in Nat \ {0}
  BY TensAre
<1>4. Len(U!Digits(n)) = w
  <2>1. DOMAIN U!Digits(n) = 1..w
    BY <1>2
  <2>2. \A i \in 1..w : (n \div U!Tens[w - i + 1]) % 10 \in 0..9
    BY <1>1, DigitsAre
  <2>3. U!Digits(n) \in [1..w -> 0..9]
    BY <1>2, <2>2
  <2> QED
    BY <1>1, <2>3, FunctionIsSeq
<1>5. CASE k < w
  <2>1. w - k \in 1..w /\ w - (w - k) + 1 = k + 1
    BY <1>1, <1>5
  <2>2. U!Digit(U!Digits(n), k) = U!Digits(n)[w - k]
    BY <1>4, <1>5 DEF U!Digit
  <2> QED
    BY <1>2, <2>1, <2>2
<1>6. CASE w <= k
  <2>1. n < U!Tens[k + 1]
    <3>1. w + 1 \in 2..k + 1 /\ w < 10
      BY <1>1, <1>6
    <3>2. U!Tens[w + 1] <= U!Tens[k + 1]
      <4>1. \A i, j \in {1, 2, 3, 4, 5, 6, 7, 8, 9, 10} : i <= j => U!Tens[i] <= U!Tens[j]
        BY SMT DEF U!Tens
      <4> QED
        BY <3>1, <4>1
    <3> QED
      BY SMT, <1>1, <1>3, <3>1, <3>2, LargestInt
  <2>2. (n \div U!Tens[k + 1]) = 0
    <3>1. U!Tens[k + 1] \in Nat \ {0}
      BY <1>3
    <3> QED
      BY <2>1, <3>1
  <2>3. U!Digit(U!Digits(n), k) = 0
    BY <1>1, <1>4, <1>6 DEF U!Digit
  <2> QED
    BY <2>2, <2>3
<1> QED
  BY <1>1, <1>5, <1>6

LEMMA NumberOfDigits ==
  ASSUME NEW n \in 0..U!MaxInt
  PROVE  /\ U!Digits(n) \in Numerals /\ U!Digits(n) # <<>>
         /\ U!IsInt(U!Digits(n)) /\ U!Value(U!Digits(n)) = n
<1> DEFINE w == U!Width(n)
           d == U!Digits(n)
<1>1. w \in 1..10
  BY DigitsWidth
<1>2. d \in Numerals /\ Len(d) = w
  <2> HIDE DEF w
  <2>2. \A i \in 1..w : (n \div U!Tens[w - i + 1]) % 10 \in 0..9
    BY <1>1, DigitsAre
  <2>3. d \in [1..w -> 0..9]
    BY <2>2 DEF w, U!Digits
  <2> HIDE DEF d
  <2> QED
    BY <1>1, <2>3, FunctionIsSeq DEF Numerals
<1>3. d # <<>>
  BY <1>1, <1>2
<1>4. U!Sum(d) = n
  <2>1. /\ U!Digit(d, 0) = n % 10
        /\ U!Digit(d, 1) = (n \div 10) % 10
        /\ U!Digit(d, 2) = (n \div 100) % 10
        /\ U!Digit(d, 3) = (n \div 1000) % 10
        /\ U!Digit(d, 4) = (n \div 10000) % 10
        /\ U!Digit(d, 5) = (n \div 100000) % 10
        /\ U!Digit(d, 6) = (n \div 1000000) % 10
        /\ U!Digit(d, 7) = (n \div 10000000) % 10
        /\ U!Digit(d, 8) = (n \div 100000000) % 10
        /\ U!Digit(d, 9) = (n \div 1000000000) % 10
    <3>1. \A k \in 0..9 : U!Digit(d, k) = (n \div U!Tens[k + 1]) % 10
      BY DigitOf
    <3> HIDE DEF d
    <3> QED
      BY SMT, <3>1 DEF U!Tens
  <2>2. n \in Nat /\ n < 10 * 1000000000
    BY SMT, LargestInt
  <2>3. /\ n = 10 * (n \div 10) + (n % 10)
        /\ (n \div 10) = 10 * (n \div 100) + ((n \div 10) % 10)
        /\ (n \div 100) = 10 * (n \div 1000) + ((n \div 100) % 10)
        /\ (n \div 1000) = 10 * (n \div 10000) + ((n \div 1000) % 10)
        /\ (n \div 10000) = 10 * (n \div 100000) + ((n \div 10000) % 10)
    BY SMT, <2>2
  <2>4. /\ (n \div 100000) = 10 * (n \div 1000000) + ((n \div 100000) % 10)
        /\ (n \div 1000000) = 10 * (n \div 10000000) + ((n \div 1000000) % 10)
        /\ (n \div 10000000) = 10 * (n \div 100000000) + ((n \div 10000000) % 10)
        /\ (n \div 100000000) = 10 * (n \div 1000000000) + ((n \div 100000000) % 10)
        /\ (n \div 1000000000) = (n \div 1000000000) % 10
    BY SMT, <2>2
  <2> HIDE DEF d
  <2> QED
    BY SMT, <2>1, <2>2, <2>3, <2>4 DEF U!Sum
<1>5. U!IsInt(d)
  <2> HIDE DEF d
  <2> QED
    BY <1>1, <1>2, <1>4 DEF U!IsInt
<1> QED
  BY <1>2, <1>3, <1>4, <1>5 DEF U!Value

-----------------------------------------------------------------------------
\* What Parse finds in any text: a schema without a colon, a host without a slash, a
\* port that is an int, and a path that begins with a slash.
LEMMA ParseTypes ==
  ASSUME NEW s \in Seq(Nat)
  PROVE  /\ U!Parse(s).schema \in Seq(Nat) /\ U!Parse(s).host \in Seq(Nat)
         /\ U!Parse(s).port \in 0..U!MaxInt /\ U!Parse(s).path \in Seq(Nat)
         /\ \A i \in 1..Len(U!Parse(s).schema) : U!Parse(s).schema[i] # U!Colon
         /\ \A i \in 1..Len(U!Parse(s).host) : U!Parse(s).host[i] # U!Slash
         /\ U!Parse(s).path # <<>> /\ U!Parse(s).path[1] = U!Slash
<1> DEFINE first == U!At(s, 1, U!Colon)
           hasSchema == first + 2 <= Len(s) /\ SubSeq(s, first, first + 2) = <<U!Colon, U!Slash, U!Slash>>
           cursor == IF hasSchema THEN first + 3 ELSE 1
           slash == U!At(s, cursor, U!Slash)
           colons == {i \in cursor..slash - 1 : s[i] = U!Colon} \cup {0}
           colon == U!Max(colons)
           digits == SubSeq(s, colon + 1, slash - 1)
           before == (IF colon = 0 THEN slash ELSE colon) - 1
<1>1. Len(s) \in Nat /\ U!Colon \in Nat /\ U!Slash \in Nat /\ \A i \in 1..Len(s) : s[i] \in Nat
  BY DEF U!Colon, U!Slash
<1>2. /\ U!Parse(s).schema = IF hasSchema THEN SubSeq(s, 1, first - 1) ELSE <<>>
      /\ U!Parse(s).host = SubSeq(s, cursor, before)
      /\ U!Parse(s).port = IF colon = 0 THEN 0 ELSE U!Value(U!NumberAt(digits))
      /\ U!Parse(s).path = IF slash > Len(s) THEN <<U!Slash>> ELSE SubSeq(s, slash, Len(s))
  BY DEF U!Parse
<1>3. first \in 1..Len(s) + 1 /\ \A i \in 1..first - 1 : s[i] # U!Colon
  BY <1>1, FirstFound
<1> HIDE DEF first
<1>4. cursor \in 1..Len(s) + 1
  BY <1>1, <1>3
<1> HIDE DEF cursor
<1>5. /\ slash \in cursor..Len(s) + 1 /\ (slash <= Len(s) => s[slash] = U!Slash)
      /\ \A i \in cursor..slash - 1 : s[i] # U!Slash
  <2>1. cursor \in Nat \ {0} /\ cursor <= Len(s) + 1
    BY <1>1, <1>4
  <2> QED
    BY <1>1, <2>1, FirstFound
<1> HIDE DEF slash
<1>6. colon \in colons
  <2>1. colons \in SUBSET (0..Len(s)) /\ 0 \in colons
    BY <1>1, <1>4, <1>5
  <2> HIDE DEF colons
  <2> QED
    BY <1>1, <2>1, Greatest
<1>7. colon = 0 \/ colon \in cursor..slash - 1
  BY <1>6
<1> HIDE DEF colon
<1>8. before \in cursor - 1..slash - 1
  BY <1>1, <1>4, <1>5, <1>7
<1>9. /\ U!Parse(s).schema \in Seq(Nat)
      /\ \A i \in 1..Len(U!Parse(s).schema) : U!Parse(s).schema[i] # U!Colon
  <2>1. CASE hasSchema
    <3>1. SubSeq(s, 1, first - 1) = [i \in 1..first - 1 |-> s[i]]
      BY <1>1, <1>3
    <3>2. first - 1 \in Nat /\ [i \in 1..first - 1 |-> s[i]] \in [1..first - 1 -> Nat]
      BY <1>1, <1>3
    <3>3. SubSeq(s, 1, first - 1) \in Seq(Nat) /\ Len(SubSeq(s, 1, first - 1)) = first - 1
      BY <3>1, <3>2, FunctionIsSeq
    <3>4. U!Parse(s).schema = SubSeq(s, 1, first - 1)
      BY <1>2, <2>1
    <3> QED
      BY <1>3, <3>1, <3>3, <3>4
  <2>2. CASE ~hasSchema
    BY <1>2, <2>2
  <2> QED
    BY <2>1, <2>2
<1> HIDE DEF hasSchema, before
<1>10. /\ U!Parse(s).host \in Seq(Nat)
       /\ \A i \in 1..Len(U!Parse(s).host) : U!Parse(s).host[i] # U!Slash
  <2>1. SubSeq(s, cursor, before) = [i \in 1..before - cursor + 1 |-> s[cursor + i - 1]]
    BY <1>1, <1>4, <1>5, <1>8
  <2>2. before - cursor + 1 \in Nat /\ \A i \in 1..before - cursor + 1 : cursor + i - 1 \in cursor..slash - 1
    BY <1>1, <1>4, <1>5, <1>8
  <2>3. \A i \in cursor..slash - 1 : i \in 1..Len(s)
    BY <1>1, <1>4, <1>5
  <2>4. [i \in 1..before - cursor + 1 |-> s[cursor + i - 1]] \in [1..before - cursor + 1 -> Nat]
    BY <1>1, <2>2, <2>3
  <2>5. SubSeq(s, cursor, before) \in Seq(Nat) /\ Len(SubSeq(s, cursor, before)) = before - cursor + 1
    BY <2>1, <2>2, <2>4, FunctionIsSeq
  <2> QED
    BY <1>2, <1>5, <2>1, <2>2, <2>5
<1>11. U!Parse(s).port \in 0..U!MaxInt
  <2>1. CASE colon = 0
    BY SMT, <1>2, <2>1, LargestInt
  <2>2. CASE colon # 0
    <3>1. digits \in Seq(Nat)
      BY <1>1, <1>4, <1>5, <1>7, <2>2
    <3> HIDE DEF digits
    <3>2. U!NumberAt(digits) \in Numerals
      BY <3>1, NumberRead
    <3> QED
      BY <1>2, <2>2, <3>2, ValueRange
  <2> QED
    BY <2>1, <2>2
<1>12. U!Parse(s).path \in Seq(Nat) /\ U!Parse(s).path # <<>> /\ U!Parse(s).path[1] = U!Slash
  <2>1. CASE slash > Len(s)
    BY <1>1, <1>2, <2>1
  <2>2. CASE slash <= Len(s)
    <3>1. slash \in 1..Len(s) /\ s[slash] = U!Slash
      BY <1>1, <1>4, <1>5, <2>2
    <3>2. SubSeq(s, slash, Len(s)) \in Seq(Nat) /\ SubSeq(s, slash, Len(s))[1] = s[slash]
          /\ Len(SubSeq(s, slash, Len(s))) = Len(s) - slash + 1
      BY <1>1, <3>1
    <3>3. U!Parse(s).path = SubSeq(s, slash, Len(s))
      BY <1>1, <1>2, <3>1
    <3>4. SubSeq(s, slash, Len(s)) # <<>>
      <4>1. Len(SubSeq(s, slash, Len(s))) # 0
        BY <1>1, <3>1, <3>2
      <4>2. \A q \in Seq(Nat) : Len(q) # 0 => q # <<>>
        OBVIOUS
      <4> QED
        BY <3>2, <4>1, <4>2
    <3> QED
      BY <3>1, <3>2, <3>3, <3>4
  <2> QED
    BY <1>1, <1>5, <2>1, <2>2
<1> QED
  BY <1>9, <1>10, <1>11, <1>12

-----------------------------------------------------------------------------
\* A text in four pieces: a schema, a host without colons and slashes, nothing or a
\* colon and a number, and a path.
IsSchema(a) == a \in Seq(Nat) /\ a # <<>> /\ \A i \in 1..Len(a) : a[i] # U!Colon
IsHost(h)   == h \in Seq(Nat) /\ \A i \in 1..Len(h) : h[i] # U!Colon /\ h[i] # U!Slash
IsPath(p)   == p \in Seq(Nat) /\ p # <<>> /\ p[1] = U!Slash
Behind      == <<U!Colon, U!Slash, U!Slash>>

\* z is x with y behind it.
Joins(z, x, y) ==
  /\ z \in Seq(Nat) /\ Len(z) = Len(x) + Len(y)
  /\ \A i \in 1..Len(x) : z[i] = x[i]
  /\ \A i \in 1..Len(y) : z[Len(x) + i] = y[i]

LEMMA Joined == ASSUME NEW x \in Seq(Nat), NEW y \in Seq(Nat) PROVE Joins(x \o y, x, y)
<1> DEFINE z == x \o y
<1>1. Len(x) \in Nat /\ Len(y) \in Nat
  OBVIOUS
<1>2. /\ z \in Seq(Nat) /\ Len(z) = Len(x) + Len(y)
      /\ \A i \in 1..Len(x) + Len(y) : z[i] = IF i <= Len(x) THEN x[i] ELSE y[i - Len(x)]
  BY ConcatProperties
<1> HIDE DEF z
<1>3. \A i \in 1..Len(x) : z[i] = x[i]
  BY <1>1, <1>2
<1>4. ASSUME NEW i \in 1..Len(y) PROVE z[Len(x) + i] = y[i]
  <2>1. Len(x) + i \in 1..Len(x) + Len(y) /\ ~(Len(x) + i <= Len(x)) /\ Len(x) + i - Len(x) = i
    BY <1>1
  <2> QED
    BY <1>2, <2>1
<1>5. Joins(z, x, y)
  BY <1>2, <1>3, <1>4 DEF Joins
<1> QED
  BY <1>5 DEF z

\* Where its characters are.
Places(s, a, h, d, p) ==
  /\ s \in Seq(Nat) /\ Len(s) = Len(a) + 3 + Len(h) + Len(d) + Len(p)
  /\ \A i \in 1..Len(a) : s[i] = a[i]
  /\ s[Len(a) + 1] = U!Colon /\ s[Len(a) + 2] = U!Slash /\ s[Len(a) + 3] = U!Slash
  /\ \A i \in 1..Len(h) : s[Len(a) + 3 + i] = h[i]
  /\ \A i \in 1..Len(d) : s[Len(a) + 3 + Len(h) + i] = d[i]
  /\ \A i \in 1..Len(p) : s[Len(a) + 3 + Len(h) + Len(d) + i] = p[i]

LEMMA PlacesOfPieces ==
  ASSUME NEW a \in Seq(Nat), NEW h \in Seq(Nat), NEW d \in Seq(Nat), NEW p \in Seq(Nat)
  PROVE  Places(a \o Behind \o h \o d \o p, a, h, d, p)
<1>1. Behind \in Seq(Nat) /\ Len(Behind) = 3 /\ Behind[1] = U!Colon /\ Behind[2] = U!Slash /\ Behind[3] = U!Slash
  BY DEF Behind, U!Colon, U!Slash
<1>2. PICK b : b = a \o Behind
  OBVIOUS
<1>3. PICK c : c = b \o h
  OBVIOUS
<1>4. PICK e : e = c \o d
  OBVIOUS
<1>5. PICK s : s = e \o p
  OBVIOUS
<1>6. /\ b \in Seq(Nat) /\ Len(b) = Len(a) + Len(Behind)
      /\ \A i \in 1..Len(a) : b[i] = a[i]
      /\ \A i \in 1..Len(Behind) : b[Len(a) + i] = Behind[i]
  <2>1. Joins(b, a, Behind)
    BY Zenon, <1>1, <1>2, Joined
  <2> QED
    BY Zenon, <2>1 DEF Joins
<1>7. /\ c \in Seq(Nat) /\ Len(c) = Len(b) + Len(h)
      /\ \A i \in 1..Len(b) : c[i] = b[i]
      /\ \A i \in 1..Len(h) : c[Len(b) + i] = h[i]
  <2>1. Joins(c, b, h)
    BY Zenon, <1>3, <1>6, Joined
  <2> QED
    BY Zenon, <2>1 DEF Joins
<1>8. /\ e \in Seq(Nat) /\ Len(e) = Len(c) + Len(d)
      /\ \A i \in 1..Len(c) : e[i] = c[i]
      /\ \A i \in 1..Len(d) : e[Len(c) + i] = d[i]
  <2>1. Joins(e, c, d)
    BY Zenon, <1>4, <1>7, Joined
  <2> QED
    BY Zenon, <2>1 DEF Joins
<1>9. /\ s \in Seq(Nat) /\ Len(s) = Len(e) + Len(p)
      /\ \A i \in 1..Len(e) : s[i] = e[i]
      /\ \A i \in 1..Len(p) : s[Len(e) + i] = p[i]
  <2>1. Joins(s, e, p)
    BY Zenon, <1>5, <1>8, Joined
  <2> QED
    BY Zenon, <2>1 DEF Joins
<1>10. /\ Len(a) \in Nat /\ Len(h) \in Nat /\ Len(d) \in Nat /\ Len(p) \in Nat
       /\ Len(b) = Len(a) + 3 /\ Len(c) = Len(a) + 3 + Len(h) /\ Len(e) = Len(a) + 3 + Len(h) + Len(d)
  <2>1. Len(a) \in Nat /\ Len(h) \in Nat /\ Len(d) \in Nat /\ Len(p) \in Nat
    BY Zenon, LenProperties
  <2>2. Len(b) = Len(a) + 3
    BY Zenon, <1>1, <1>6
  <2>3. Len(c) = Len(a) + 3 + Len(h)
    BY Zenon, <1>7, <2>2
  <2>4. Len(e) = Len(a) + 3 + Len(h) + Len(d)
    BY Zenon, <1>8, <2>3
  <2> QED
    BY Zenon, <2>1, <2>2, <2>3, <2>4
<1>11. \A i \in 1..Len(b) : s[i] = b[i]
  <2>1. \A i \in 1..Len(b) : i \in 1..Len(c) /\ i \in 1..Len(e)
    BY <1>10
  <2> QED
    BY Zenon, <1>7, <1>8, <1>9, <2>1
<1>12. \A i \in 1..Len(a) : s[i] = a[i]
  <2>1. \A i \in 1..Len(a) : i \in 1..Len(b)
    BY <1>10
  <2> QED
    BY <1>6, <1>11, <2>1
<1>13. \A i \in 1..3 : s[Len(a) + i] = Behind[i]
  <2>1. \A i \in 1..3 : Len(a) + i \in 1..Len(b) /\ i \in 1..Len(Behind)
    BY <1>1, <1>10
  <2> QED
    BY Zenon, <1>6, <1>11, <2>1
<1>14. \A i \in 1..Len(h) : s[Len(b) + i] = h[i]
  <2>1. \A i \in 1..Len(h) : Len(b) + i \in 1..Len(c) /\ Len(b) + i \in 1..Len(e)
    BY <1>10
  <2> QED
    BY <1>7, <1>8, <1>9, <2>1
<1>15. \A i \in 1..Len(d) : s[Len(c) + i] = d[i]
  <2>1. \A i \in 1..Len(d) : Len(c) + i \in 1..Len(e)
    BY <1>10
  <2> QED
    BY <1>8, <1>9, <2>1
<1>16. Len(s) = Len(a) + 3 + Len(h) + Len(d) + Len(p)
  BY <1>9, <1>10
<1>17. s[Len(a) + 1] = U!Colon /\ s[Len(a) + 2] = U!Slash /\ s[Len(a) + 3] = U!Slash
  <2>1. 1 \in 1..3 /\ 2 \in 1..3 /\ 3 \in 1..3
    OBVIOUS
  <2> QED
    BY Zenon, <1>1, <1>13, <2>1
<1>18. Places(s, a, h, d, p)
  BY Zenon, <1>9, <1>10, <1>12, <1>14, <1>15, <1>16, <1>17 DEF Places
<1> QED
  BY Zenon, <1>2, <1>3, <1>4, <1>5, <1>18

\* The port as it is written.
PortText(n) == IF n > 0 THEN <<U!Colon>> \o U!Digits(n) ELSE <<>>

LEMMA PortTexts ==
  ASSUME NEW n \in 0..U!MaxInt
  PROVE  /\ PortText(n) \in Seq(Nat)
         /\ n = 0 => Len(PortText(n)) = 0
         /\ n > 0 => /\ Len(PortText(n)) = 1 + Len(U!Digits(n)) /\ PortText(n)[1] = U!Colon
                     /\ \A i \in 1..Len(U!Digits(n)) : PortText(n)[1 + i] = U!Digits(n)[i]
<1>1. U!Digits(n) \in Seq(Nat)
  BY NumberOfDigits, NumeralsAreTexts
<1>2. n \in Nat
  BY SMT, LargestInt
<1>3. CASE n = 0
  BY <1>3 DEF PortText
<1>4. CASE n > 0
  <2>1. <<U!Colon>> \in Seq(Nat) /\ Len(<<U!Colon>>) = 1 /\ <<U!Colon>>[1] = U!Colon
    BY DEF U!Colon
  <2>2. PICK x : x = <<U!Colon>>
    OBVIOUS
  <2>3. Joins(x \o U!Digits(n), x, U!Digits(n))
    BY Zenon, <1>1, <2>1, <2>2, Joined
  <2>4. PortText(n) = x \o U!Digits(n)
    BY <1>4, <2>2 DEF PortText
  <2>5. Joins(PortText(n), x, U!Digits(n))
    BY Zenon, <2>3, <2>4
  <2>6. Len(x) = 1 /\ x[1] = U!Colon /\ 1 \in 1..1
    BY <2>1, <2>2
  <2>7. /\ PortText(n) \in Seq(Nat) /\ Len(PortText(n)) = Len(x) + Len(U!Digits(n))
        /\ \A i \in 1..Len(x) : PortText(n)[i] = x[i]
        /\ \A i \in 1..Len(U!Digits(n)) : PortText(n)[Len(x) + i] = U!Digits(n)[i]
    BY Zenon, <2>5 DEF Joins
  <2>8. PortText(n)[1] = U!Colon
    BY Zenon, <2>6, <2>7
  <2>9. n # 0
    BY <1>4
  <2> QED
    BY Zenon, <2>6, <2>7, <2>8, <2>9
<1> QED
  BY <1>2, <1>3, <1>4

\* Where the pieces of a text s end is where Parse ends them, when it is known which
\* characters are where: A of a schema, H of a host, D of a port, and a path.
Marked(s, A, H, D, Q) ==
  /\ A \in Nat \ {0} /\ H \in Nat /\ D \in Nat /\ Q \in Nat \ {0}
  /\ Len(s) = A + 3 + H + D + Q
  /\ \A i \in 1..A : s[i] # U!Colon
  /\ s[A + 1] = U!Colon /\ s[A + 2] = U!Slash /\ s[A + 3] = U!Slash
  /\ \A i \in A + 4..A + 3 + H : s[i] # U!Colon /\ s[i] # U!Slash
  /\ D > 0 => s[A + 4 + H] = U!Colon
  /\ \A i \in A + 5 + H..A + 3 + H + D : s[i] \in 0..9
  /\ s[A + 4 + H + D] = U!Slash

Cut(s, A, H, D) ==
  LET digits == SubSeq(s, A + 5 + H, A + 3 + H + D)
  IN [schema |-> SubSeq(s, 1, A), host |-> SubSeq(s, A + 4, A + 3 + H),
      port |-> IF D = 0 THEN 0 ELSE U!Value(U!NumberAt(digits)),
      path |-> SubSeq(s, A + 4 + H + D, Len(s)),
      normal |-> D # 0 => digits # <<>> /\ U!NumberAt(digits) = digits /\ U!IsInt(digits)]

LEMMA ParsePlaces ==
  ASSUME NEW s \in Seq(Nat), NEW A, NEW H, NEW D, NEW Q, Marked(s, A, H, D, Q)
  PROVE  U!Parse(s) = Cut(s, A, H, D)
<1> SUFFICES ASSUME A \in Nat \ {0}, H \in Nat, D \in Nat, Q \in Nat \ {0},
                    Len(s) = A + 3 + H + D + Q,
                    \A i \in 1..A : s[i] # U!Colon,
                    s[A + 1] = U!Colon, s[A + 2] = U!Slash, s[A + 3] = U!Slash,
                    \A i \in A + 4..A + 3 + H : s[i] # U!Colon /\ s[i] # U!Slash,
                    D > 0 => s[A + 4 + H] = U!Colon,
                    \A i \in A + 5 + H..A + 3 + H + D : s[i] \in 0..9,
                    s[A + 4 + H + D] = U!Slash
             PROVE  U!Parse(s) = Cut(s, A, H, D)
  BY Zenon DEF Marked
<1> DEFINE first == U!At(s, 1, U!Colon)
           hasSchema == first + 2 <= Len(s) /\ SubSeq(s, first, first + 2) = <<U!Colon, U!Slash, U!Slash>>
           cursor == IF hasSchema THEN first + 3 ELSE 1
           slash == U!At(s, cursor, U!Slash)
           colons == {i \in cursor..slash - 1 : s[i] = U!Colon} \cup {0}
           colon == U!Max(colons)
           digits == SubSeq(s, colon + 1, slash - 1)
<1>1. U!Parse(s) = [schema |-> IF hasSchema THEN SubSeq(s, 1, first - 1) ELSE <<>>,
                    host |-> SubSeq(s, cursor, (IF colon = 0 THEN slash ELSE colon) - 1),
                    port |-> IF colon = 0 THEN 0 ELSE U!Value(U!NumberAt(digits)),
                    path |-> IF slash > Len(s) THEN <<U!Slash>> ELSE SubSeq(s, slash, Len(s)),
                    normal |-> hasSchema /\ slash <= Len(s)
                               /\ (colon # 0 => digits # <<>> /\ U!NumberAt(digits) = digits /\ U!IsInt(digits))]
  BY DEF U!Parse
<1>2. U!Colon \in Nat /\ U!Slash \in Nat /\ U!Colon \notin 0..9 /\ U!Slash \notin 0..9 /\ U!Colon # U!Slash
  BY DEF U!Colon, U!Slash
<1>3. first = A + 1
  <2>1. PICK p : p = A + 1
    OBVIOUS
  <2>2. p \in 1..Len(s) /\ s[p] = U!Colon /\ \A i \in 1..p - 1 : s[i] # U!Colon
    BY <2>1
  <2>3. first = p
    BY <1>2, <2>2, FoundIs
  <2> QED
    BY <2>1, <2>3
<1> HIDE DEF first
<1>4. hasSchema
  <2>1. first + 2 <= Len(s)
    BY <1>3
  <2>2. SubSeq(s, A + 1, A + 3) = <<s[A + 1], s[A + 2], s[A + 3]>>
    <3>1. \A q \in Seq(Nat) : Len(q) = 3 => q = <<q[1], q[2], q[3]>>
      OBVIOUS
    <3>2. PICK q : q = SubSeq(s, A + 1, A + 3)
      OBVIOUS
    <3>3. q \in Seq(Nat) /\ Len(q) = 3 /\ q[1] = s[A + 1] /\ q[2] = s[A + 2] /\ q[3] = s[A + 3]
      BY <3>2
    <3> QED
      BY Zenon, <3>1, <3>2, <3>3
  <2>3. first + 2 = A + 3
    BY <1>3
  <2> QED
    BY <1>3, <2>1, <2>2, <2>3
<1>5. cursor = A + 4
  BY <1>3, <1>4
<1> HIDE DEF hasSchema, cursor
<1>6. slash = A + 4 + H + D
  <2>1. ASSUME NEW i \in A + 4..A + 4 + H + D - 1 PROVE s[i] # U!Slash
    <3>1. i \in A + 4..A + 3 + H \/ (D > 0 /\ i = A + 4 + H) \/ i \in A + 5 + H..A + 3 + H + D
      OBVIOUS
    <3> QED
      BY <1>2, <3>1
  <2>2. PICK p : p = A + 4 + H + D
    OBVIOUS
  <2>3. /\ cursor \in Nat \ {0} /\ p \in cursor..Len(s) /\ s[p] = U!Slash
        /\ \A i \in cursor..p - 1 : s[i] # U!Slash
    BY <1>5, <2>1, <2>2
  <2>4. slash = p
    BY <1>2, <2>3, FoundIs
  <2> QED
    BY <2>2, <2>4
<1> HIDE DEF slash
<1>7. colon = IF D = 0 THEN 0 ELSE A + 4 + H
  <2>1. colons \in SUBSET (0..Len(s)) /\ 0 \in colons
    <3>1. cursor \in Nat /\ slash \in Nat /\ slash <= Len(s) /\ Len(s) \in Nat
      BY <1>5, <1>6
    <3>2. \A i \in cursor..slash - 1 : i \in 0..Len(s)
      BY <3>1
    <3>3. 0 \in 0..Len(s)
      BY <3>1
    <3> QED
      BY Zenon, <3>2, <3>3
  <2>2. colon \in colons /\ \A x \in colons : colon >= x
    <3> HIDE DEF colons
    <3>1. Len(s) \in Nat
      OBVIOUS
    <3> QED
      BY <2>1, <3>1, Greatest
  <2>3. ASSUME NEW i \in colons PROVE i = 0 \/ (D > 0 /\ i = A + 4 + H)
    <3>1. i = 0 \/ (i \in A + 4..A + 3 + H + D /\ s[i] = U!Colon)
      BY <1>5, <1>6
    <3>2. CASE i \in A + 4..A + 3 + H + D /\ s[i] = U!Colon
      <4>1. i \in A + 4..A + 3 + H \/ (D > 0 /\ i = A + 4 + H) \/ i \in A + 5 + H..A + 3 + H + D
        BY <3>2
      <4> QED
        BY <1>2, <3>2, <4>1
    <3> QED
      BY <3>1, <3>2
  <2>4. D > 0 => A + 4 + H \in colons
    BY <1>5, <1>6
  <2> HIDE DEF colons, colon
  <2> QED
    BY <2>2, <2>3, <2>4
<1> HIDE DEF colon
<1>8. first - 1 = A /\ slash <= Len(s) /\ ~(slash > Len(s)) /\ slash - 1 = A + 3 + H + D
  BY <1>3, <1>6
<1>9. (IF colon = 0 THEN slash ELSE colon) - 1 = A + 3 + H
  BY <1>6, <1>7
<1>10. D # 0 => colon # 0 /\ colon + 1 = A + 5 + H
  BY <1>7
<1>11. D = 0 => colon = 0
  BY <1>7
<1> DEFINE those == SubSeq(s, A + 5 + H, A + 3 + H + D)
           sound == those # <<>> /\ U!NumberAt(those) = those /\ U!IsInt(those)
<1>12. D # 0 => digits = those
  BY <1>8, <1>10
<1> HIDE DEF digits, those
<1>13. (IF colon = 0 THEN 0 ELSE U!Value(U!NumberAt(digits))) = IF D = 0 THEN 0 ELSE U!Value(U!NumberAt(those))
  BY Zenon, <1>10, <1>11, <1>12
<1>14. (hasSchema /\ slash <= Len(s)
        /\ (colon # 0 => digits # <<>> /\ U!NumberAt(digits) = digits /\ U!IsInt(digits))) = (D # 0 => sound)
  BY Zenon, <1>4, <1>8, <1>10, <1>11, <1>12
<1> HIDE DEF sound
<1>15. U!Parse(s) = [schema |-> SubSeq(s, 1, A), host |-> SubSeq(s, A + 4, A + 3 + H),
                     port |-> IF D = 0 THEN 0 ELSE U!Value(U!NumberAt(those)),
                     path |-> SubSeq(s, A + 4 + H + D, Len(s)), normal |-> D # 0 => sound]
  BY Zenon, <1>1, <1>4, <1>5, <1>6, <1>8, <1>9, <1>13, <1>14
<1> QED
  BY Zenon, <1>15 DEF those, sound, Cut

\* A part of a text that has the characters of x is x.
LEMMA PieceIs ==
  ASSUME NEW s \in Seq(Nat), NEW x \in Seq(Nat), NEW k \in Nat, k + Len(x) <= Len(s),
         \A i \in 1..Len(x) : s[k + i] = x[i]
  PROVE  SubSeq(s, k + 1, k + Len(x)) = x
<1> DEFINE y == SubSeq(s, k + 1, k + Len(x))
<1>1. Len(x) \in Nat /\ Len(s) \in Nat
  OBVIOUS
<1>2. k + 1 \in 1..Len(s) + 1 /\ k + Len(x) \in k..Len(s) /\ k = (k + 1) - 1
  BY <1>1
<1>3. /\ y \in Seq(Nat)
      /\ Len(y) = IF k + 1 <= k + Len(x) THEN (k + Len(x)) - (k + 1) + 1 ELSE 0
      /\ \A i \in 1..(k + Len(x)) - (k + 1) + 1 : y[i] = s[(k + 1) + i - 1]
  <2>1. PICK m \in Int, n \in Int : m = k + 1 /\ n = k + Len(x)
    BY <1>1
  <2>2. \A i \in m..n : s[i] \in Nat
    BY <1>1, <2>1
  <2>3. y = SubSeq(s, m, n)
    BY Zenon, <2>1
  <2> HIDE DEF y
  <2>4. /\ y \in Seq(Nat) /\ Len(y) = IF m <= n THEN n - m + 1 ELSE 0
        /\ \A i \in 1..n - m + 1 : y[i] = s[m + i - 1]
    BY <2>2, <2>3, SubSeqProperties
  <2> QED
    BY Zenon, <2>1, <2>4
<1> HIDE DEF y
<1>4. Len(y) = Len(x)
  BY <1>1, <1>3
<1>5. \A i \in 1..Len(x) : y[i] = x[i]
  <2>1. (k + Len(x)) - (k + 1) + 1 = Len(x) /\ \A i \in 1..Len(x) : (k + 1) + i - 1 = k + i
    BY <1>1
  <2> QED
    BY <1>3, <2>1
<1>6. y = x
  BY <1>3, <1>4, <1>5, SeqEqual
<1> QED
  BY <1>6 DEF y

\* A text of four pieces is taken apart into them, and is written as Build does.
LEMMA ParsePieces ==
  ASSUME NEW a, IsSchema(a), NEW h, IsHost(h), NEW n \in 0..U!MaxInt, NEW p, IsPath(p)
  PROVE  U!Parse(a \o Behind \o h \o PortText(n) \o p) =
           [schema |-> a, host |-> h, port |-> n, path |-> p, normal |-> TRUE]
<1>1. PICK d : d = PortText(n)
  OBVIOUS
<1>2. PICK g : g = U!Digits(n)
  OBVIOUS
<1>3. PICK s : s = a \o Behind \o h \o d \o p
  OBVIOUS
<1>4. /\ g \in Seq(Nat) /\ g \in Numerals /\ g # <<>> /\ U!IsInt(g) /\ U!Value(g) = n /\ U!NumberAt(g) = g
      /\ d \in Seq(Nat) /\ (n = 0 => Len(d) = 0)
      /\ n > 0 => Len(d) = 1 + Len(g) /\ d[1] = U!Colon /\ \A i \in 1..Len(g) : d[1 + i] = g[i]
  BY <1>1, <1>2, NumberOfDigits, NumeralsAreTexts, NumberRead, PortTexts
<1>5. /\ a \in Seq(Nat) /\ h \in Seq(Nat) /\ p \in Seq(Nat) /\ a # <<>> /\ p # <<>>
      /\ \A i \in 1..Len(a) : a[i] # U!Colon
      /\ \A i \in 1..Len(h) : h[i] # U!Colon /\ h[i] # U!Slash
      /\ p[1] = U!Slash
  BY DEF IsSchema, IsHost, IsPath
<1>6. /\ s \in Seq(Nat) /\ Len(s) = Len(a) + 3 + Len(h) + Len(d) + Len(p)
      /\ \A i \in 1..Len(a) : s[i] = a[i]
      /\ s[Len(a) + 1] = U!Colon /\ s[Len(a) + 2] = U!Slash /\ s[Len(a) + 3] = U!Slash
      /\ \A i \in 1..Len(h) : s[Len(a) + 3 + i] = h[i]
      /\ \A i \in 1..Len(d) : s[Len(a) + 3 + Len(h) + i] = d[i]
      /\ \A i \in 1..Len(p) : s[Len(a) + 3 + Len(h) + Len(d) + i] = p[i]
  <2>1. Places(s, a, h, d, p)
    BY Zenon, <1>3, <1>4, <1>5, PlacesOfPieces
  <2> QED
    BY Zenon, <2>1 DEF Places
<1>7. n \in Nat
  BY SMT, LargestInt
<1>8. PICK A \in Nat \ {0}, H \in Nat, D \in Nat, Q \in Nat \ {0} :
        A = Len(a) /\ H = Len(h) /\ D = Len(d) /\ Q = Len(p)
  <2>1. Len(a) \in Nat \ {0} /\ Len(h) \in Nat /\ Len(d) \in Nat /\ Len(p) \in Nat \ {0}
    BY <1>4, <1>5, EmptySeq
  <2> QED
    BY <2>1
<1>9. n > 0 => D = 1 + Len(g) /\ Len(g) \in Nat \ {0}
  <2>1. Len(g) \in Nat \ {0}
    BY <1>4, EmptySeq
  <2> QED
    BY <1>4, <1>8, <2>1
<1>10. n = 0 => D = 0
  BY <1>4, <1>8
<1>11. \A i \in 1..Len(g) : g[i] \in 0..9
  BY <1>4 DEF Numerals
<1>12. /\ Len(s) = A + 3 + H + D + Q
       /\ \A i \in 1..H : s[A + 3 + i] = h[i] /\ h[i] # U!Colon /\ h[i] # U!Slash
       /\ \A i \in 1..Q : s[A + 3 + H + D + i] = p[i]
  BY Zenon, <1>5, <1>6, <1>8
<1>13. \A i \in 1..A : s[i] # U!Colon
  BY <1>5, <1>6, <1>8
<1>14. s[A + 1] = U!Colon /\ s[A + 2] = U!Slash /\ s[A + 3] = U!Slash
  BY <1>6, <1>8
<1>15. \A i \in A + 4..A + 3 + H : s[i] # U!Colon /\ s[i] # U!Slash
  <2>1. ASSUME NEW i \in A + 4..A + 3 + H PROVE s[i] # U!Colon /\ s[i] # U!Slash
    <3>1. PICK j \in 1..H : i = A + 3 + j
      <4>1. i - A - 3 \in 1..H /\ i = A + 3 + (i - A - 3)
        OBVIOUS
      <4> QED
        BY <4>1
    <3> QED
      BY Zenon, <1>12, <3>1
  <2> QED
    BY <2>1
<1>16. D > 0 => s[A + 4 + H] = U!Colon
  <2>1. SUFFICES ASSUME D > 0 PROVE s[A + 4 + H] = U!Colon
    OBVIOUS
  <2>2. n > 0 /\ 1 \in 1..D /\ A + 4 + H = A + 3 + H + 1
    BY <1>7, <1>10, <2>1
  <2> QED
    BY Zenon, <1>4, <1>6, <1>8, <2>2
<1>17. \A i \in A + 5 + H..A + 3 + H + D : s[i] \in 0..9
  <2>1. ASSUME NEW i \in A + 5 + H..A + 3 + H + D PROVE s[i] \in 0..9
    <3>1. n > 0
      BY <1>7, <1>10
    <3>2. PICK j \in 1..Len(g) : i = A + 3 + H + (1 + j)
      <4>1. i - A - 4 - H \in 1..Len(g) /\ i = A + 3 + H + (1 + (i - A - 4 - H))
        BY <1>9, <3>1
      <4> QED
        BY <4>1
    <3>3. 1 + j \in 1..D
      BY <1>9, <3>1
    <3>4. s[i] = d[1 + j]
      BY Zenon, <1>6, <1>8, <3>2, <3>3
    <3> QED
      BY Zenon, <1>4, <1>11, <3>1, <3>4
  <2> QED
    BY <2>1
<1>18. s[A + 4 + H + D] = U!Slash
  <2>1. 1 \in 1..Q /\ A + 4 + H + D = A + 3 + H + D + 1
    OBVIOUS
  <2>2. s[A + 3 + H + D + 1] = p[1]
    BY Zenon, <1>12, <2>1
  <2> QED
    BY <1>5, <2>1, <2>2
<1>19. SubSeq(s, 1, A) = a
  <2>1. 0 + Len(a) <= Len(s) /\ \A i \in 1..Len(a) : s[0 + i] = a[i]
    BY <1>6, <1>8, <1>12
  <2>2. SubSeq(s, 0 + 1, 0 + Len(a)) = a
    BY <1>5, <1>6, <2>1, PieceIs
  <2> QED
    BY <1>8, <2>2
<1>20. SubSeq(s, A + 4, A + 3 + H) = h
  <2>1. A + 3 \in Nat /\ (A + 3) + Len(h) <= Len(s) /\ \A i \in 1..Len(h) : s[(A + 3) + i] = h[i]
    BY <1>6, <1>8, <1>12
  <2>2. SubSeq(s, (A + 3) + 1, (A + 3) + Len(h)) = h
    BY <1>5, <1>6, <2>1, PieceIs
  <2>3. (A + 3) + 1 = A + 4 /\ (A + 3) + Len(h) = A + 3 + H
    BY <1>8
  <2> QED
    BY Zenon, <2>2, <2>3
<1>21. SubSeq(s, A + 4 + H + D, Len(s)) = p
  <2>1. PICK k \in Nat : k = A + 3 + H + D
    OBVIOUS
  <2>2. k + Len(p) <= Len(s) /\ \A i \in 1..Len(p) : s[k + i] = p[i]
    BY <1>6, <1>8, <1>12, <2>1
  <2>3. SubSeq(s, k + 1, k + Len(p)) = p
    BY <1>5, <1>6, <2>2, PieceIs
  <2>4. k + 1 = A + 4 + H + D /\ k + Len(p) = Len(s)
    BY <1>8, <1>12, <2>1
  <2> QED
    BY Zenon, <2>3, <2>4
<1>22. n > 0 => SubSeq(s, A + 5 + H, A + 3 + H + D) = g
  <2>1. SUFFICES ASSUME n > 0 PROVE SubSeq(s, A + 5 + H, A + 3 + H + D) = g
    OBVIOUS
  <2>2. PICK k \in Nat : k = A + 4 + H
    OBVIOUS
  <2>3. k + Len(g) <= Len(s)
    BY <1>9, <1>12, <2>1, <2>2
  <2>4. \A i \in 1..Len(g) : s[k + i] = g[i]
    <3>1. ASSUME NEW i \in 1..Len(g) PROVE s[k + i] = g[i]
      <4>1. 1 + i \in 1..D /\ k + i = A + 3 + H + (1 + i)
        BY <1>9, <2>1, <2>2
      <4> QED
        BY Zenon, <1>4, <1>6, <1>8, <2>1, <4>1
    <3> QED
      BY <3>1
  <2>5. SubSeq(s, k + 1, k + Len(g)) = g
    BY <1>4, <1>6, <2>3, <2>4, PieceIs
  <2>6. k + 1 = A + 5 + H /\ k + Len(g) = A + 3 + H + D
    BY <1>9, <2>1, <2>2
  <2> QED
    BY Zenon, <2>5, <2>6
<1>23. PICK q : q = SubSeq(s, A + 5 + H, A + 3 + H + D)
  OBVIOUS
<1>24. U!Parse(s) = [schema |-> SubSeq(s, 1, A), host |-> SubSeq(s, A + 4, A + 3 + H),
                     port |-> IF D = 0 THEN 0 ELSE U!Value(U!NumberAt(q)),
                     path |-> SubSeq(s, A + 4 + H + D, Len(s)),
                     normal |-> D # 0 => q # <<>> /\ U!NumberAt(q) = q /\ U!IsInt(q)]
  <2>1. Marked(s, A, H, D, Q)
    BY Zenon, <1>8, <1>12, <1>13, <1>14, <1>15, <1>16, <1>17, <1>18 DEF Marked
  <2>2. U!Parse(s) = Cut(s, A, H, D)
    BY Zenon, <1>6, <2>1, ParsePlaces
  <2> QED
    BY Zenon, <1>23, <2>2 DEF Cut
<1>25. D # 0 => n > 0 /\ q = g
  BY <1>7, <1>10, <1>22, <1>23
<1>26. D = 0 => n = 0
  BY <1>7, <1>9
<1>27. (IF D = 0 THEN 0 ELSE U!Value(U!NumberAt(q))) = n
  BY Zenon, <1>4, <1>25, <1>26
<1>28. (D # 0 => q # <<>> /\ U!NumberAt(q) = q /\ U!IsInt(q)) = TRUE
  BY Zenon, <1>4, <1>25
<1>29. U!Parse(s) = [schema |-> a, host |-> h, port |-> n, path |-> p, normal |-> TRUE]
  BY Zenon, <1>19, <1>20, <1>21, <1>24, <1>27, <1>28
<1> QED
  BY Zenon, <1>1, <1>3, <1>29

\* Every text that is set is one, and a host in the model's words is one of the proof's.
LEMMA TextsAre ==
  /\ \A n \in Nat : \A s \in U!Texts(n) : s \in Seq(Nat)
  /\ MaxText \in Nat /\ Ports \subseteq 0..U!MaxInt
  /\ \A s \in Seq(Nat) : U!Plain(s) <=> \A i \in 1..Len(s) : s[i] # U!Colon /\ s[i] # U!Slash
<1>1. Chars \subseteq Nat /\ MaxText \in Nat /\ Ports \subseteq 0..U!MaxPort
  BY DataAssumption DEF U!UrlAssumption
<1>2. ASSUME NEW n \in Nat, NEW s \in U!Texts(n) PROVE s \in Seq(Nat)
  <2>1. PICK l \in 0..n : s \in [1..l -> Chars]
    BY <1>2 DEF U!Texts
  <2>2. l \in Nat /\ s \in [1..l -> Nat]
    <3>1. Chars \subseteq Nat
      BY Zenon, <1>1
    <3>2. \A i \in 1..l : s[i] \in Nat
      BY <2>1, <3>1
    <3>3. l \in Nat
      BY <2>1
    <3> QED
      BY <2>1, <3>2, <3>3
  <2> QED
    BY <2>2, FunctionIsSeq
<1>3. Ports \subseteq 0..U!MaxInt
  <2>1. U!MaxPort <= U!MaxInt /\ U!MaxInt \in Nat /\ U!MaxPort \in Nat
    BY SMT DEF U!MaxInt, U!MaxPort
  <2> QED
    BY SMT, <1>1, <2>1
<1>4. ASSUME NEW s \in Seq(Nat)
      PROVE  U!Plain(s) <=> \A i \in 1..Len(s) : s[i] # U!Colon /\ s[i] # U!Slash
  <2>1. DOMAIN s = 1..Len(s)
    OBVIOUS
  <2> QED
    BY <2>1 DEF U!Plain
<1> QED
  BY Zenon, <1>1, <1>2, <1>3, <1>4

NoColon(s)   == \A i \in 1..Len(s) : s[i] # U!Colon
HostOf(h, n) == IF h = <<>> /\ n = 0 THEN <<>> ELSE U!Or(h, <<U!LocalHost>>)

Written(c, h, n, p) == U!Or(c, <<U!Https>>) \o Behind \o HostOf(h, n) \o PortText(n) \o U!Rooted(p)

LEMMA BuildWrites == ASSUME NEW c, NEW h, NEW n, NEW p PROVE U!Build(c, h, n, p) = Written(c, h, n, p)
BY Zenon DEF U!Build, Written, Behind, HostOf, PortText

\* What Build makes of parts, and what is read of it: the parts, with https for no
\* schema, localhost for no host in front of a port, and a slash before the path.
LEMMA Built ==
  ASSUME NEW c \in Seq(Nat), NEW h \in Seq(Nat), NEW n \in 0..U!MaxInt, NEW p \in Seq(Nat)
  PROVE  /\ U!Or(c, <<U!Https>>) \in Seq(Nat) /\ HostOf(h, n) \in Seq(Nat) /\ U!Rooted(p) \in Seq(Nat)
         /\ IsPath(U!Rooted(p))
         /\ U!Build(c, h, n, p) = Written(c, h, n, p)
         /\ U!Build(c, h, n, p) \in Seq(Nat)
<1>1. <<U!Https>> \in Seq(Nat) /\ <<U!LocalHost>> \in Seq(Nat) /\ <<U!Slash>> \in Seq(Nat)
  BY DEF U!Https, U!LocalHost, U!Slash
<1>2. U!Or(c, <<U!Https>>) \in Seq(Nat) /\ HostOf(h, n) \in Seq(Nat)
  BY <1>1 DEF U!Or, HostOf
<1>3. IsPath(U!Rooted(p))
  <2>1. CASE p # <<>> /\ p[1] = U!Slash
    BY <2>1 DEF U!Rooted, IsPath
  <2>2. CASE ~(p # <<>> /\ p[1] = U!Slash)
    <3>1. PICK x : x = <<U!Slash>>
      OBVIOUS
    <3>2. x \in Seq(Nat) /\ Len(x) = 1 /\ x[1] = U!Slash /\ 1 \in 1..1
      BY <1>1, <3>1
    <3>3. Joins(x \o p, x, p)
      BY Zenon, <3>2, Joined
    <3>4. U!Rooted(p) = x \o p
      BY Zenon, <2>2, <3>1 DEF U!Rooted
    <3> HIDE DEF IsPath
    <3>5. PICK z : z = x \o p
      OBVIOUS
    <3>6. z \in Seq(Nat) /\ z[1] = U!Slash
      BY Zenon, <3>2, <3>3, <3>5 DEF Joins
    <3>7. z # <<>>
      <4>1. Len(z) = 1 + Len(p) /\ Len(p) \in Nat
        BY <3>2, <3>3, <3>5 DEF Joins
      <4> QED
        BY <3>6, <4>1
    <3> QED
      BY Zenon, <3>4, <3>5, <3>6, <3>7 DEF IsPath
  <2> QED
    BY Zenon, <2>1, <2>2
<1>4. U!Build(c, h, n, p) = Written(c, h, n, p)
  BY Zenon, BuildWrites
<1>5. PortText(n) \in Seq(Nat) /\ U!Rooted(p) \in Seq(Nat)
  BY Zenon, <1>3, PortTexts DEF IsPath
<1>6. U!Build(c, h, n, p) \in Seq(Nat)
  <2>1. Places(U!Or(c, <<U!Https>>) \o Behind \o HostOf(h, n) \o PortText(n) \o U!Rooted(p),
               U!Or(c, <<U!Https>>), HostOf(h, n), PortText(n), U!Rooted(p))
    BY Zenon, <1>2, <1>5, PlacesOfPieces
  <2> QED
    BY Zenon, <1>4, <2>1 DEF Places, Written
<1> QED
  BY Zenon, <1>2, <1>3, <1>4, <1>5, <1>6

\* Parts that a text can be made of are adopted; and made of what was adopted, the
\* text is the same.
LEMMA Adopts ==
  ASSUME NEW c \in Seq(Nat), NoColon(c), NEW h, IsHost(h), NEW n \in 0..U!MaxInt, NEW p \in Seq(Nat)
  PROVE  /\ U!Parse(U!Build(c, h, n, p)) =
              [schema |-> U!Or(c, <<U!Https>>), host |-> HostOf(h, n), port |-> n, path |-> U!Rooted(p),
               normal |-> TRUE]
         /\ U!Adopted(U!Build(c, h, n, p)) = U!Made(U!Or(c, <<U!Https>>), HostOf(h, n), n, U!Rooted(p))
         /\ IsSchema(U!Or(c, <<U!Https>>)) /\ IsHost(HostOf(h, n)) /\ IsPath(U!Rooted(p))
         /\ n > 0 => HostOf(h, n) # <<>>
<1>1. h \in Seq(Nat)
  BY DEF IsHost
<1>2. IsSchema(U!Or(c, <<U!Https>>))
  <2>1. <<U!Https>> \in Seq(Nat) /\ <<U!Https>> # <<>> /\ NoColon(<<U!Https>>)
    BY DEF U!Https, U!Colon, NoColon
  <2>2. U!Or(c, <<U!Https>>) \in Seq(Nat) /\ U!Or(c, <<U!Https>>) # <<>> /\ NoColon(U!Or(c, <<U!Https>>))
    BY Zenon, <2>1 DEF U!Or
  <2> QED
    BY Zenon, <2>2 DEF IsSchema, NoColon
<1>3. IsHost(<<U!LocalHost>>) /\ IsHost(<<>>) /\ <<U!LocalHost>> # <<>>
  BY DEF U!LocalHost, U!Colon, U!Slash, IsHost
<1>4. IsHost(HostOf(h, n))
  BY Zenon, <1>3 DEF HostOf, U!Or
<1>5. n > 0 => HostOf(h, n) # <<>>
  <2>1. n > 0 => n # 0
    OBVIOUS
  <2> QED
    BY Zenon, <1>3, <2>1 DEF HostOf, U!Or
<1>6. IsPath(U!Rooted(p)) /\ U!Rooted(p) \in Seq(Nat)
  BY Zenon, <1>1, Built
<1>7. U!Build(c, h, n, p) = Written(c, h, n, p)
  BY Zenon, BuildWrites
<1>8. U!Parse(U!Build(c, h, n, p)) =
        [schema |-> U!Or(c, <<U!Https>>), host |-> HostOf(h, n), port |-> n, path |-> U!Rooted(p),
         normal |-> TRUE]
  BY Zenon, <1>2, <1>4, <1>6, <1>7, ParsePieces DEF Written
<1>9. U!Build(U!Or(c, <<U!Https>>), HostOf(h, n), n, U!Rooted(p)) = U!Build(c, h, n, p)
  <2>1. U!Or(U!Or(c, <<U!Https>>), <<U!Https>>) = U!Or(c, <<U!Https>>)
    BY Zenon DEF U!Or
  <2>2. HostOf(HostOf(h, n), n) = HostOf(h, n)
    BY Zenon, <1>3 DEF HostOf, U!Or
  <2>3. U!Rooted(U!Rooted(p)) = U!Rooted(p)
    BY Zenon, <1>6 DEF IsPath, U!Rooted
  <2>4. U!Build(U!Or(c, <<U!Https>>), HostOf(h, n), n, U!Rooted(p))
        = Written(U!Or(c, <<U!Https>>), HostOf(h, n), n, U!Rooted(p))
    BY Zenon, BuildWrites
  <2> QED
    BY Zenon, <1>7, <2>1, <2>2, <2>3, <2>4 DEF Written
<1>10. U!Adopted(U!Build(c, h, n, p)) = U!Made(U!Or(c, <<U!Https>>), HostOf(h, n), n, U!Rooted(p))
  <2>1. PICK s : s = U!Build(c, h, n, p)
    OBVIOUS
  <2>2. PICK r : r = U!Parse(s)
    OBVIOUS
  <2>3. U!Adopted(s) = IF ~r.normal THEN url
                       ELSE [conn |-> s, schema |-> r.schema, host |-> r.host, port |-> r.port, path |-> r.path]
    BY Zenon, <2>2 DEF U!Adopted
  <2>4. r.normal /\ r.schema = U!Or(c, <<U!Https>>) /\ r.host = HostOf(h, n) /\ r.port = n /\ r.path = U!Rooted(p)
    BY <1>8, <2>1, <2>2
  <2> QED
    BY Zenon, <1>9, <2>1, <2>3, <2>4 DEF U!Made
<1> QED
  BY Zenon, <1>2, <1>4, <1>5, <1>6, <1>8, <1>10

\* A schema has no colon; and unless a text with a colon in its host was set, the host
\* has none, and the text is what Build makes of the parts and would make again.
UrlInv ==
  /\ U!TypeOK /\ NoColon(url.schema)
  /\ ~odd => IsHost(url.host)
  /\ ~odd /\ url.conn # <<>> =>
       /\ url = U!Made(url.schema, url.host, url.port, url.path)
       /\ IsSchema(url.schema) /\ IsPath(url.path) /\ (url.port > 0 => url.host # <<>>)

LEMMA UrlInit == U!Init => UrlInv
<1> SUFFICES ASSUME U!Init PROVE UrlInv
  OBVIOUS
<1>1. /\ odd = FALSE /\ url.conn = <<>> /\ url.schema = <<>> /\ url.host = <<>> /\ url.port = 0
      /\ url.path = <<>>
  BY DEF U!Init
<1>2. 0 \in 0..U!MaxInt
  BY SMT, LargestInt
<1>3. IsHost(<<>>) /\ NoColon(<<>>) /\ <<>> \in Seq(Nat)
  BY DEF IsHost, NoColon
<1> QED
  BY Zenon, <1>1, <1>2, <1>3 DEF UrlInv, U!TypeOK

\* Whatever parts are set, and whether or not their text is adopted, the types stay
\* right.
UrlTyped(u) ==
  /\ u.conn \in Seq(Nat) /\ u.schema \in Seq(Nat) /\ u.host \in Seq(Nat)
  /\ u.port \in 0..U!MaxInt /\ u.path \in Seq(Nat) /\ NoColon(u.schema)

LEMMA AdoptedTypes ==
  ASSUME UrlTyped(url), NEW c \in Seq(Nat), NEW h \in Seq(Nat), NEW n \in 0..U!MaxInt, NEW p \in Seq(Nat)
  PROVE  UrlTyped(U!Adopted(U!Build(c, h, n, p)))
<1>1. PICK s : s = U!Build(c, h, n, p)
  OBVIOUS
<1>2. s \in Seq(Nat)
  BY Zenon, <1>1, Built
<1>3. PICK r : r = U!Parse(s)
  OBVIOUS
<1>4. /\ r.schema \in Seq(Nat) /\ r.host \in Seq(Nat) /\ r.port \in 0..U!MaxInt /\ r.path \in Seq(Nat)
      /\ NoColon(r.schema)
  BY Zenon, <1>2, <1>3, ParseTypes DEF NoColon
<1>5. U!Adopted(s) = IF ~r.normal THEN url
                     ELSE [conn |-> s, schema |-> r.schema, host |-> r.host, port |-> r.port, path |-> r.path]
  BY Zenon, <1>3 DEF U!Adopted
<1>6. CASE ~r.normal
  BY Zenon, <1>1, <1>5, <1>6
<1>7. CASE r.normal
  <2>1. PICK u : u = [conn |-> s, schema |-> r.schema, host |-> r.host, port |-> r.port, path |-> r.path]
    OBVIOUS
  <2>2. u.conn = s /\ u.schema = r.schema /\ u.host = r.host /\ u.port = r.port /\ u.path = r.path
    BY <2>1
  <2>3. U!Adopted(s) = u
    BY Zenon, <1>5, <1>7, <2>1
  <2> QED
    BY Zenon, <1>1, <1>2, <1>4, <2>2, <2>3 DEF UrlTyped
<1> QED
  BY Zenon, <1>6, <1>7

\* Setting parts whose host is one.
LEMMA UrlSet ==
  ASSUME UrlTyped(url), NEW c \in Seq(Nat), NoColon(c), NEW h \in Seq(Nat), NEW n \in 0..U!MaxInt,
         NEW p \in Seq(Nat), url' = U!Adopted(U!Build(c, h, n, p)), odd' \in BOOLEAN, ~odd' => IsHost(h)
  PROVE  UrlInv'
<1>1. UrlTyped(url')
  BY Zenon, AdoptedTypes
<1>2. U!TypeOK' /\ NoColon(url.schema')
  BY Zenon, <1>1 DEF U!TypeOK, UrlTyped
<1>3. ASSUME ~odd'
      PROVE  /\ IsHost(url.host') /\ url' = U!Made(url.schema', url.host', url.port', url.path')
             /\ IsSchema(url.schema') /\ IsPath(url.path') /\ (url.port' > 0 => url.host' # <<>>)
  <2>1. PICK x, y, z : x = U!Or(c, <<U!Https>>) /\ y = HostOf(h, n) /\ z = U!Rooted(p)
    OBVIOUS
  <2>2. /\ url' = U!Made(x, y, n, z) /\ IsSchema(x) /\ IsHost(y) /\ IsPath(z)
        /\ n > 0 => y # <<>>
    BY Zenon, <1>3, <2>1, Adopts
  <2>3. url.schema' = x /\ url.host' = y /\ url.port' = n /\ url.path' = z
    BY <2>2 DEF U!Made
  <2> QED
    BY Zenon, <2>2, <2>3
<1> QED
  BY Zenon, <1>2, <1>3 DEF UrlInv

LEMMA UrlStep == UrlInv /\ [U!Next]_(U!urlVars) => UrlInv'
<1> SUFFICES ASSUME UrlInv, [U!Next]_(U!urlVars) PROVE UrlInv'
  OBVIOUS
<1>1. UrlTyped(url) /\ odd \in BOOLEAN /\ (~odd => IsHost(url.host))
  BY Zenon DEF UrlInv, U!TypeOK, UrlTyped
<1>2. /\ url.schema \in Seq(Nat) /\ url.host \in Seq(Nat) /\ url.port \in 0..U!MaxInt /\ url.path \in Seq(Nat)
      /\ NoColon(url.schema)
  BY Zenon, <1>1 DEF UrlTyped
<1>3. 1 \in Nat /\ 2 \in Nat
  OBVIOUS
<1>4. \A s \in Seq(Nat) : U!Plain(s) => IsHost(s) /\ NoColon(s)
  BY Zenon, TextsAre DEF IsHost, NoColon
<1>5. CASE U!SetConnectionString
  <2>1. PICK s \in U!Texts(MaxText), default \in {<<>>, <<U!Https>>} :
          url' = U!ConnectionString(s, default) /\ odd' = ~U!Plain(U!Parse(s).host)
    BY Zenon, <1>5 DEF U!SetConnectionString
  <2>2. s \in Seq(Nat)
    BY Zenon, TextsAre
  <2>3. PICK p : p = U!Parse(s)
    OBVIOUS
  <2>4. /\ p.schema \in Seq(Nat) /\ p.host \in Seq(Nat) /\ p.port \in 0..U!MaxInt /\ p.path \in Seq(Nat)
        /\ NoColon(p.schema)
    BY Zenon, <2>2, <2>3, ParseTypes DEF NoColon
  <2>5. U!Or(p.schema, default) \in Seq(Nat) /\ NoColon(U!Or(p.schema, default))
    <3>1. <<>> \in Seq(Nat) /\ <<U!Https>> \in Seq(Nat) /\ NoColon(<<>>) /\ NoColon(<<U!Https>>)
      BY DEF U!Https, U!Colon, NoColon
    <3> QED
      BY Zenon, <2>4, <3>1 DEF U!Or
  <2>6. url' = U!Adopted(U!Build(U!Or(p.schema, default), p.host, p.port, p.path))
    BY Zenon, <2>1, <2>3 DEF U!ConnectionString
  <2>7. odd' \in BOOLEAN /\ (~odd' => IsHost(p.host))
    BY Zenon, <1>4, <2>1, <2>3, <2>4
  <2> QED
    BY Zenon, <1>1, <2>4, <2>5, <2>6, <2>7, UrlSet
<1>6. CASE U!SetSchema
  <2>1. PICK s \in U!Texts(1) : U!Plain(s) /\ url' = U!WithSchema(s) /\ odd' = odd
    BY Zenon, <1>6 DEF U!SetSchema
  <2>2. s \in Seq(Nat) /\ NoColon(s)
    BY Zenon, <1>3, <1>4, <2>1, TextsAre
  <2>3. url' = U!Adopted(U!Build(s, url.host, url.port, url.path))
    BY Zenon, <2>1 DEF U!WithSchema
  <2> QED
    BY Zenon, <1>1, <1>2, <2>1, <2>2, <2>3, UrlSet
<1>7. CASE U!SetHost
  <2>1. PICK s \in U!Texts(1) : U!Plain(s) /\ url' = U!WithHost(s) /\ odd' = FALSE
    BY Zenon, <1>7 DEF U!SetHost
  <2>2. s \in Seq(Nat) /\ IsHost(s)
    BY Zenon, <1>3, <1>4, <2>1, TextsAre
  <2>3. url' = U!Adopted(U!Build(url.schema, s, url.port, url.path))
    BY Zenon, <2>1 DEF U!WithHost
  <2> QED
    BY Zenon, <1>1, <1>2, <2>1, <2>2, <2>3, UrlSet
<1>8. CASE U!SetPort
  <2>1. PICK n \in Ports : url' = U!WithPort(n) /\ odd' = odd
    BY Zenon, <1>8 DEF U!SetPort
  <2>2. n \in 0..U!MaxInt
    BY TextsAre
  <2>3. url' = U!Adopted(U!Build(url.schema, url.host, n, url.path))
    BY Zenon, <2>1 DEF U!WithPort
  <2> QED
    BY Zenon, <1>1, <1>2, <2>1, <2>2, <2>3, UrlSet
<1>9. CASE U!SetPath
  <2>1. PICK s \in U!Texts(2) : url' = U!WithPath(s) /\ odd' = odd
    BY Zenon, <1>9 DEF U!SetPath
  <2>2. s \in Seq(Nat)
    BY Zenon, <1>3, TextsAre
  <2>3. url' = U!Adopted(U!Build(url.schema, url.host, url.port, s))
    BY Zenon, <2>1 DEF U!WithPath
  <2> QED
    BY Zenon, <1>1, <1>2, <2>1, <2>2, <2>3, UrlSet
<1>10. CASE UNCHANGED U!urlVars
  <2>1. url' = url /\ odd' = odd
    BY <1>10 DEF U!urlVars
  <2> QED
    BY Zenon, <2>1 DEF UrlInv, U!TypeOK
<1> QED
  BY Zenon, <1>5, <1>6, <1>7, <1>8, <1>9, <1>10 DEF U!Next

LEMMA UrlConcludes == UrlInv => U!TypeOK /\ U!PartsAgree
<1> SUFFICES ASSUME UrlInv PROVE U!TypeOK /\ U!PartsAgree
  OBVIOUS
<1>1. U!TypeOK
  BY Zenon DEF UrlInv
<1>2. PICK c, h, n, p : c = url.schema /\ h = url.host /\ n = url.port /\ p = url.path
  OBVIOUS
<1>3. c \in Seq(Nat) /\ h \in Seq(Nat) /\ n \in 0..U!MaxInt /\ p \in Seq(Nat) /\ NoColon(c)
  BY Zenon, <1>2 DEF UrlInv, U!TypeOK
<1> DEFINE NeededBy(port, host) == IF port = 0 THEN host ELSE U!Or(host, <<U!LocalHost>>)
<1>4. ASSUME url.conn # <<>>, ~odd
      PROVE  /\ url = U!Made(c, h, n, p)
             /\ U!ConnectionString(url.conn, <<>>) = url
             /\ \A s \in U!Texts(1) : U!Plain(s) =>
                  /\ U!WithSchema(s) = U!Made(U!Or(s, <<U!Https>>), h, n, p)
                  /\ U!WithHost(s) = U!Made(c, NeededBy(n, s), n, p)
             /\ \A m \in Ports : U!WithPort(m) = U!Made(c, NeededBy(m, h), m, p)
             /\ \A s \in U!Texts(2) : U!WithPath(s) = U!Made(c, h, n, U!Rooted(s))
  <2>1. url = U!Made(c, h, n, p) /\ IsSchema(c) /\ IsHost(h) /\ IsPath(p) /\ (n > 0 => h # <<>>)
    BY Zenon, <1>2, <1>4 DEF UrlInv
  <2>2. /\ c # <<>> /\ U!Or(c, <<U!Https>>) = c /\ U!Or(c, <<>>) = c
        /\ p # <<>> /\ U!Rooted(p) = p
    BY Zenon, <2>1 DEF IsSchema, IsPath, U!Or, U!Rooted
  <2>3. n \in Nat
    BY SMT, <1>3, LargestInt
  <2>4. HostOf(h, n) = h
    <3>1. n = 0 \/ h # <<>>
      BY <2>1, <2>3
    <3> QED
      BY Zenon, <3>1 DEF HostOf, U!Or
  <2>5. ASSUME NEW s, NEW m PROVE HostOf(s, m) = NeededBy(m, s)
    BY Zenon DEF HostOf, U!Or
  <2> HIDE DEF NeededBy
  <2>6. \A s \in Seq(Nat) : U!Plain(s) => IsHost(s) /\ NoColon(s)
    BY Zenon, TextsAre DEF IsHost, NoColon
  <2>7. 1 \in Nat /\ 2 \in Nat
    OBVIOUS
  <2>8. U!ConnectionString(url.conn, <<>>) = url
    <3>1. url.conn = U!Build(c, h, n, p)
      BY <2>1 DEF U!Made
    <3>2. PICK r : r = U!Parse(url.conn)
      OBVIOUS
    <3>3. r = [schema |-> c, host |-> h, port |-> n, path |-> p, normal |-> TRUE]
      <4>1. U!Parse(U!Build(c, h, n, p)) =
              [schema |-> U!Or(c, <<U!Https>>), host |-> HostOf(h, n), port |-> n, path |-> U!Rooted(p),
               normal |-> TRUE]
        BY Zenon, <1>3, <2>1, Adopts
      <4> QED
        BY Zenon, <2>2, <2>4, <3>1, <3>2, <4>1
    <3>4. r.schema = c /\ r.host = h /\ r.port = n /\ r.path = p
      BY <3>3
    <3>5. U!ConnectionString(url.conn, <<>>) = U!Adopted(U!Build(c, h, n, p))
      BY Zenon, <2>2, <3>2, <3>4 DEF U!ConnectionString
    <3>6. U!Adopted(U!Build(c, h, n, p)) = U!Made(c, h, n, p)
      <4>1. U!Adopted(U!Build(c, h, n, p)) = U!Made(U!Or(c, <<U!Https>>), HostOf(h, n), n, U!Rooted(p))
        BY Zenon, <1>3, <2>1, Adopts
      <4> QED
        BY Zenon, <2>2, <2>4, <4>1
    <3> QED
      BY Zenon, <2>1, <3>5, <3>6
  <2>9. ASSUME NEW s \in U!Texts(1), U!Plain(s)
        PROVE  /\ U!WithSchema(s) = U!Made(U!Or(s, <<U!Https>>), h, n, p)
               /\ U!WithHost(s) = U!Made(c, NeededBy(n, s), n, p)
    <3>1. s \in Seq(Nat) /\ IsHost(s) /\ NoColon(s)
      BY Zenon, <2>6, <2>7, <2>9, TextsAre
    <3>2. U!Adopted(U!Build(s, h, n, p)) = U!Made(U!Or(s, <<U!Https>>), h, n, p)
      <4>1. U!Adopted(U!Build(s, h, n, p)) = U!Made(U!Or(s, <<U!Https>>), HostOf(h, n), n, U!Rooted(p))
        BY Zenon, <1>3, <2>1, <3>1, Adopts
      <4> QED
        BY Zenon, <2>2, <2>4, <4>1
    <3>3. U!Adopted(U!Build(c, s, n, p)) = U!Made(c, NeededBy(n, s), n, p)
      <4>1. U!Adopted(U!Build(c, s, n, p)) = U!Made(U!Or(c, <<U!Https>>), HostOf(s, n), n, U!Rooted(p))
        BY Zenon, <1>3, <3>1, Adopts
      <4> QED
        BY Zenon, <2>2, <2>5, <4>1
    <3> QED
      BY Zenon, <1>2, <3>2, <3>3 DEF U!WithSchema, U!WithHost
  <2>10. ASSUME NEW m \in Ports PROVE U!WithPort(m) = U!Made(c, NeededBy(m, h), m, p)
    <3>1. m \in 0..U!MaxInt
      BY TextsAre
    <3>2. U!Adopted(U!Build(c, h, m, p)) = U!Made(c, NeededBy(m, h), m, p)
      <4>1. U!Adopted(U!Build(c, h, m, p)) = U!Made(U!Or(c, <<U!Https>>), HostOf(h, m), m, U!Rooted(p))
        BY Zenon, <1>3, <2>1, <3>1, Adopts
      <4> QED
        BY Zenon, <2>2, <2>5, <4>1
    <3> QED
      BY Zenon, <1>2, <3>2 DEF U!WithPort
  <2>11. ASSUME NEW s \in U!Texts(2) PROVE U!WithPath(s) = U!Made(c, h, n, U!Rooted(s))
    <3>1. s \in Seq(Nat)
      BY Zenon, <2>7, TextsAre
    <3>2. U!Adopted(U!Build(c, h, n, s)) = U!Made(c, h, n, U!Rooted(s))
      <4>1. U!Adopted(U!Build(c, h, n, s)) = U!Made(U!Or(c, <<U!Https>>), HostOf(h, n), n, U!Rooted(s))
        BY Zenon, <1>3, <2>1, <3>1, Adopts
      <4> QED
        BY Zenon, <2>2, <2>4, <4>1
    <3> QED
      BY Zenon, <1>2, <3>2 DEF U!WithPath
  <2> QED
    BY Zenon, <2>1, <2>8, <2>9, <2>10, <2>11
<1>5. U!PartsAgree
  BY Zenon, <1>2, <1>4 DEF U!PartsAgree
<1> QED
  BY <1>1, <1>5

-----------------------------------------------------------------------------
(* Twitch, of which TwitchProofs has the proofs.                           *)

K == INSTANCE TwitchProofs WITH pc <- twitchPc

LEMMA TwitchInit == ASSUME Init PROVE K!IInv
<1>1. K!Init /\ K!TwitchAssumption
  BY ScriptAssumption
  DEF Init, TW!Init, K!Init, TW!Idle, K!Idle, TW!TwitchAssumption, K!TwitchAssumption
<1> QED
  BY <1>1, K!InitHolds

LEMMA TwitchStep == ASSUME K!IInv, [TW!Next]_(TW!vars) PROVE K!IInv'
<1>1. K!TwitchAssumption
  BY ScriptAssumption DEF TW!TwitchAssumption, K!TwitchAssumption
<1>2. [K!Next]_(K!vars)
  BY DEF TW!Next, TW!vars, TW!wsVars, TW!Turn, TW!Events, TW!Switch, TW!Resumes, TW!TickInputs,
      TW!TickOutputs, TW!Try, TW!OnConnect, TW!Fails, TW!Welcome, TW!OnDisconnect, TW!Quietly,
      TW!Disconnected, TW!AtRest, TW!Idle, TW!At, TW!Started, TW!Connect, TW!Goes, TW!Ends,
      TW!Finish, TW!GiveUp, TW!Dies, TW!StoredIsValid, TW!StoredIsRefused, TW!Granted,
      TW!GrantedIsValid, TW!Refused, TW!Subscribed, TW!Resume, TW!Lk!Try, TW!Lk!OnConnect, TW!Lk!OnConnectFailed, TW!Lk!Closed,
      TW!Lk!OnDisconnect, TW!Lk!Disabled, K!Lk!Try, K!Lk!OnConnect, K!Lk!OnConnectFailed, K!Lk!Closed,
      K!Lk!OnDisconnect, K!Lk!Disabled, K!Next, K!vars, K!wsVars, K!Turn,
      K!Events, K!Switch, K!Resumes, K!TickInputs, K!TickOutputs, K!Try, K!OnConnect, K!Fails,
      K!Welcome, K!OnDisconnect, K!Quietly, K!Disconnected, K!AtRest, K!Idle, K!At, K!Started,
      K!Connect, K!Goes, K!Ends, K!Finish, K!GiveUp, K!Dies, K!StoredIsValid, K!StoredIsRefused,
      K!Granted, K!GrantedIsValid, K!Refused, K!Subscribed, K!Resume
<1> QED
  BY <1>1, <1>2, K!StepKeeps

LEMMA TwitchConcludes == ASSUME K!IInv PROVE TW!TypeOK /\ TW!TwitchHolds
<1>1. TW!TypeOK
  BY DEF K!IInv, K!TypeOK, K!States, TW!TypeOK, TW!States
<1>2. TW!TokensChecked /\ TW!OneConnects
  BY DEF K!IInv, K!TokensChecked, K!OneConnects, K!Connecting, K!Working,
         TW!TokensChecked, TW!OneConnects, TW!Connecting, TW!Working
<1> QED
  BY <1>1, <1>2 DEF TW!TwitchHolds

-----------------------------------------------------------------------------
(* Promises, of which PromisesProofs has the proofs.                       *)

C == INSTANCE PromisesProofs

LEMMA Waiting == C!NamesAssumption /\ C!TimeAssumption
BY WaitAssumption DEF P!NamesAssumption, P!TimeAssumption, C!NamesAssumption, C!TimeAssumption,
   P!Main, P!True, C!Main, C!True

LEMMA PromisesInit == ASSUME Init PROVE C!IInv
<1>1. P!Init
  BY DEF Init
<1>2. C!Init
  BY <1>1 DEF P!Init, C!Init
<1> QED
  BY <1>2, Waiting, C!InitIInv

LEMMA PromisesStep == ASSUME C!IInv, [P!Next]_(P!vars) PROVE C!IInv'
<1> USE DEF P!vars, P!threadVars, P!promiseVars, P!historyVars, C!vars, C!threadVars, C!promiseVars, C!historyVars,
            P!Executing, P!running, P!Callers, P!Parked, P!Main, P!True, P!Answered, P!Due,
            C!Executing, C!running, C!Callers, C!Parked, C!Main, C!True, C!Answered, C!Due
<1>1. P!Script => C!Script
  BY DEF P!Script, P!NewSingle, P!NewListed, P!Defaults, P!Put, P!Fulfill, P!FulfillKey, P!FulfillAll, P!Reset,
         P!WaitOutside, P!Call, P!Mark, P!Await,
         C!Script, C!NewSingle, C!NewListed, C!Defaults, C!Put, C!Fulfill, C!FulfillKey, C!FulfillAll, C!Reset,
         C!WaitOutside, C!Call, C!Mark, C!Await
<1>2. ASSUME NEW c \in Coroutines, P!Leave(c) PROVE C!Leave(c)
  BY <1>2 DEF P!Leave, P!Yield, P!Wait, P!WaitDefault, P!Finish, P!Park, P!Await,
         C!Leave, C!Yield, C!Wait, C!WaitDefault, C!Finish, C!Park, C!Await
<1>3. P!Loop => C!Loop
  BY DEF P!Loop, P!StartPass, P!EndPass, P!EndTick, P!Skip, P!Resume, P!WakesUp, P!Checked, P!LongestTimeout,
         C!Loop, C!StartPass, C!EndPass, C!EndTick, C!Skip, C!Resume, C!WakesUp, C!Checked, C!LongestTimeout
<1>4. ASSUME NEW k \in Keys, P!Collect(k) PROVE C!Collect(k)
  BY <1>4 DEF P!Collect, C!Collect
<1>5. [C!Next]_(C!vars)
  BY <1>1, <1>2, <1>3, <1>4 DEF P!Next, C!Next
<1> QED
  BY <1>5, Waiting, C!NextIInv

LEMMA PromisesConclude == ASSUME C!IInv PROVE P!TypeOK
BY DEF C!IInv, C!TypeOK, P!TypeOK, P!True, C!True

-----------------------------------------------------------------------------
(* The parts, put together.                                                *)

\* A step is one of the part that moves, and keeps which one that is.
LEMMA Parting ==
  ASSUME [Next]_vars
  PROVE  /\ part' = part
         /\ part = "promises"   => [P!Next]_(P!vars)
         /\ part = "streamdeck" => [SD!Next]_(SD!vars)
         /\ part = "window"     => [W!Next]_(W!vars)
         /\ part = "vnc"        => [V!Next]_(V!vars)
         /\ part = "tls"        => [T!Next]_(T!tlsVars)
         /\ part = "rectangle"  => [R!Next]_rect
         /\ part = "list"       => [L!Next]_(L!vars)
         /\ part = "buffer"     => [B!Next]_(B!bufferVars)
         /\ part = "secrets"    => [S!Next]_(S!secretVars)
         /\ part = "log"        => [EL!Next]_(EL!logVars)
         /\ part = "url"        => [U!Next]_(U!urlVars)
         /\ part = "obs"        => [O!Next]_(O!vars)
         /\ part = "twitch"     => [TW!Next]_(TW!vars)
<1>1. CASE UNCHANGED vars
  <2>1. /\ UNCHANGED part
        /\ UNCHANGED deckVars /\ UNCHANGED windowVars /\ UNCHANGED vncVars /\ UNCHANGED tlsVars
        /\ UNCHANGED rect /\ UNCHANGED listVars /\ UNCHANGED bufferVars
        /\ UNCHANGED obsVars /\ UNCHANGED twitchVars
        /\ UNCHANGED promisesVars /\ UNCHANGED secretVars /\ UNCHANGED logVars /\ UNCHANGED urlVars
    BY <1>1 DEF vars
  <2>2. UNCHANGED SD!vars
    BY <2>1 DEF deckVars, SD!vars, SD!connectorVars, SD!usbVars, SD!historyVars
  <2>3. UNCHANGED W!vars
    BY <2>1 DEF windowVars, W!vars, W!tickVars, W!wantVars, W!sdlVars, W!historyVars
  <2>4. UNCHANGED O!vars
    BY <2>1 DEF obsVars, O!vars, O!serverVars, O!handlerVars
  <2>5. UNCHANGED TW!vars
    BY <2>1 DEF twitchVars, TW!vars, TW!wsVars
  <2>6. UNCHANGED V!vars
    BY <2>1 DEF vncVars, V!vars
  <2>7. UNCHANGED T!tlsVars /\ UNCHANGED L!vars /\ UNCHANGED B!bufferVars
    BY <2>1 DEF tlsVars, T!tlsVars, listVars, L!vars, bufferVars, B!bufferVars
  <2>8. UNCHANGED P!vars /\ UNCHANGED S!secretVars
    BY <2>1 DEF promisesVars, P!vars, P!threadVars, P!promiseVars, P!historyVars, secretVars, S!secretVars
  <2>9. UNCHANGED U!urlVars /\ UNCHANGED EL!logVars
    BY <2>1 DEF urlVars, U!urlVars, logVars, EL!logVars
  <2> QED
    BY <2>1, <2>2, <2>3, <2>4, <2>5, <2>6, <2>7, <2>8, <2>9
<1>2. CASE Next
  BY <1>2 DEF Next, Moves
<1> QED
  BY <1>1, <1>2

\* Whichever reads and writes lose Stream Decks of different sizes, the script knows
\* whether there is one and of all buttons that are taken for pressed; and no event
\* that the watch of a window is called with is lost, handled twice or out of order.
THEOREM DevicesAreRight == Spec => []DevicesHold
<1> DEFINE I == Of("streamdeck", DeckInv) /\ Of("window", WindowInv)
<1>1. Init => I
  BY DeckInit, WindowInit DEF Of
<1>2. I /\ [Next]_vars => I'
  BY Parting, DeckStep, WindowStep DEF Of
<1>3. I => DevicesHold
  BY DEF Of, DevicesHold, DeckInv, WindowInv
<1> QED
  BY <1>1, <1>2, <1>3, PTL DEF Spec

\* Whatever viewers and the script do and whatever fails: between turns the surface of
\* the VNC server has the size that the script was told, unless it has asked for
\* another one since; no redraw of the card is forgotten; and what the script was told
\* of a button is what the next event is compared with.
THEOREM VncIsRight == Spec => []VncHolds
<1> DEFINE I == Of("vnc", VncInv)
<1>1. Init => I
  BY VncInit DEF Of
<1>2. I /\ [Next]_vars => I'
  BY Parting, VncStep DEF Of
<1>3. I => VncHolds
  BY DEF Of, VncHolds, VncInv
<1> QED
  BY <1>1, <1>2, <1>3, PTL DEF Spec

\* Through the handshake, reads of any length, failures, the alert and the end of the
\* session: what the application has read and what the library holds for it are the
\* bytes of the server's first records, in their order, and what has gone out is what
\* the client's end and the application gave.
THEOREM StreamsAreIntact == Spec => []StreamsIntact
<1> DEFINE I == Of("tls", TlsInv)
<1>1. Init => I
  BY TlsInit DEF Of, Init
<1>2. I /\ [Next]_vars => I'
  BY Parting, TlsStep DEF Of
<1>3. I => StreamsIntact
  BY TlsConcludes DEF Of, StreamsIntact
<1> QED
  BY <1>1, <1>2, <1>3, PTL DEF Spec

\* The geometry of rectangles is that of their sets of points; and whatever is added
\* to a list and erased from it while its slots are reused, every rectangle has a slot
\* of its own, no slot is lost, a walk through the list meets each that stays, and the
\* queries find what is there.
THEOREM RectanglesAreRight == Spec => []RectanglesHold
<1> DEFINE I == Of("rectangle", R!TypeOK) /\ Of("list", ListInv)
<1>1. Init => I
  BY RectangleInit, ListInit DEF Of, Init
<1>2. I /\ [Next]_vars => I'
  BY Parting, RectangleStep, ListStep DEF Of
<1>3. I => RectanglesHold
  BY RectanglesConclude, ListConcludes DEF Of, RectanglesHold
<1> QED
  BY <1>1, <1>2, <1>3, PTL DEF Spec

\* Whatever is written to a buffer, read, read again, flushed and moved, it holds and
\* gives the bytes that were written, in their order, and bytes come back from their
\* hexadecimal form and from base64; a secret is what was stored for its key last, or what the user
\* has set, whatever is stored for others and however often the file cannot be read
\* or is cut short, which may only lose it; and a log gives the entries that were
\* appended, in their order, and makes none up, but for what an end of the process in
\* the middle of an entry leaves on its line.
THEOREM DataIsKept == Spec => []DataKept
<1> DEFINE I == Of("buffer", BufferInv) /\ Of("secrets", SecretInv) /\ Of("log", LogInv)
<1>1. Init => I
  BY BufferInit, SecretInit, LogInit DEF Of, Init
<1>2. I /\ [Next]_vars => I'
  BY Parting, BufferStep, SecretStep, LogStep DEF Of
<1>3. I => DataKept
  BY BufferConcludes, SecretConcludes, LogConcludes DEF Of, DataKept
<1> QED
  BY <1>1, <1>2, <1>3, PTL DEF Spec

\* Whatever texts and parts are set, in whatever order: the text of a URL is the one
\* that its parts make, is taken apart into them again, and each part can be set on its
\* own and is what was set, unless a text with two colons in its host was set.
THEOREM UrlsAgree == Spec => []PartsAgree
<1> DEFINE I == Of("url", UrlInv)
<1>1. Init => I
  BY UrlInit DEF Of, Init
<1>2. I /\ [Next]_vars => I'
  BY Parting, UrlStep DEF Of
<1>3. I => PartsAgree
  BY UrlConcludes DEF Of, PartsAgree
<1> QED
  BY <1>1, <1>2, <1>3, PTL DEF Spec

\* The OBS script is told the truth about its connection, and once everything is
\* answered and read its copy agrees with OBS, however often the connection was lost;
\* the Twitch script holds to its tokens and to its coroutines.
THEOREM ScriptsAreRight == Spec => []ScriptsHold
<1> DEFINE I == Of("obs", ObsInv) /\ Of("twitch", K!IInv)
<1>1. Init => I
  BY ObsInit, TwitchInit DEF Of
<1>2. I /\ [Next]_vars => I'
  BY Parting, ObsStep, TwitchStep DEF Of
<1>3. I => ScriptsHold
  BY ObsConcludes, TwitchConcludes DEF Of, ScriptsHold
<1> QED
  BY <1>1, <1>2, <1>3, PTL DEF Spec

\* Every part is in a state of its type, whichever of them moves.
THEOREM TypesAreRight == Spec => []TypesOK
<1> DEFINE I == /\ Of("promises", C!IInv) /\ Of("streamdeck", DeckInv) /\ Of("window", WindowInv)
                /\ Of("vnc", VncInv) /\ Of("tls", TlsInv) /\ Of("rectangle", R!TypeOK)
                /\ Of("list", ListInv) /\ Of("buffer", BufferInv) /\ Of("secrets", SecretInv)
                /\ Of("log", LogInv) /\ Of("url", UrlInv) /\ Of("obs", ObsInv) /\ Of("twitch", K!IInv)
<1>1. Init => I
  BY PromisesInit, DeckInit, WindowInit, VncInit, TlsInit, RectangleInit, ListInit, BufferInit,
     SecretInit, LogInit, UrlInit, ObsInit, TwitchInit DEF Of, Init
<1>2. I /\ [Next]_vars => I'
  BY Parting, PromisesStep, DeckStep, WindowStep, VncStep, TlsStep, RectangleStep, ListStep, BufferStep,
     SecretStep, LogStep, UrlStep, ObsStep, TwitchStep DEF Of
<1>3. I => TypesOK
  <2>1. /\ DeckInv => SD!TypeOK
        /\ WindowInv => W!TypeOK
        /\ VncInv => V!TypeOK
        /\ ListInv => L!TypeOK
        /\ SecretInv => S!TypeOK
    BY DEF DeckInv, WindowInv, VncInv, ListInv, SecretInv
  <2> QED
    BY <2>1, PromisesConclude, TlsConcludes, BufferConcludes, LogConcludes, UrlConcludes, ObsConcludes,
       TwitchConcludes DEF Of, TypesOK
<1> QED
  BY <1>1, <1>2, <1>3, PTL DEF Spec
=============================================================================
