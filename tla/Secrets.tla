------------------------------- MODULE Secrets -------------------------------
(***************************************************************************)
(* Secrets of a script: secrets.conf in its sandbox and in the directory   *)
(* of the user's configuration (src/src/deck_util.cpp).                    *)
(*                                                                         *)
(* A line is a key and a value.  A value is what is left of it when it is  *)
(* trimmed, which may be nothing, and whether there is a blank around it.  *)
(* Comments and lines without both parts are keys that nobody asks for.    *)
(***************************************************************************)
EXTENDS Integers, Sequences, Selection

CONSTANTS
  Keys,     \* keys that scripts use
  Cores,    \* trimmed values
  Begins(_),\* the trimmed beginnings of such a value that are shorter than it
  Comment,  \* the key of a line that is no setting
  Nothing   \* no value

SecretsAssumption ==
  /\ Comment \notin Keys /\ Nothing \notin Cores
  /\ \A c \in Cores : Begins(c) \subseteq Cores /\ \A d \in Begins(c) : Begins(d) \subseteq Begins(c)

VARIABLES
  sandbox,  \* secrets.conf of the sandbox
  user,     \* the one of the user, which the program never writes
  last,     \* the value that was last stored for each key; Nothing if it was empty
  unsure,   \* keys stored before the file could not be read, or was cut short
  cut       \* keys in whose line it was cut short since they were stored

secretVars == <<sandbox, user, last, unsure, cut>>

Texts  == [core : Cores \cup {Nothing}, blank : BOOLEAN]
Line    == [key : Keys \cup {Comment}, value : Texts]
TypeOK  ==
  /\ sandbox \in Seq([key : Keys, value : Texts]) /\ user \in {<<>>} \cup {<<l>> : l \in Line}
  /\ last \in [Keys -> Cores \cup {Nothing}] /\ unsure \subseteq Keys /\ cut \subseteq Keys

Init ==
  /\ sandbox = <<>> /\ user \in {<<>>} \cup {<<l>> : l \in Line}
  /\ last = [k \in Keys |-> Nothing] /\ unsure = {} /\ cut = {}

-----------------------------------------------------------------------------
Trim(v)     == [v EXCEPT !.blank = FALSE]
IsEmpty(v)  == v = [core |-> Nothing, blank |-> FALSE]

\* Keys and values are trimmed; a line without either is dropped.
ParseSettings(lines) ==
  Only([i \in DOMAIN lines |-> [lines[i] EXCEPT !.value = Trim(@)]],
       {i \in DOMAIN lines : lines[i].key # Comment /\ ~IsEmpty(Trim(lines[i].value))})
Written(settings) == Only(settings, {i \in DOMAIN settings : ~IsEmpty(settings[i].value)})

\* The first setting of a key is replaced where it stands, a new one is added.
FirstOf(settings, k) == CHOOSE i \in DOMAIN settings :
  settings[i].key = k /\ \A j \in 1 .. i - 1 : settings[j].key # k
HasKey(settings, k) == \E i \in DOMAIN settings : settings[i].key = k

Replaced(settings, k, v) ==
  IF HasKey(settings, k) THEN [settings EXCEPT ![FirstOf(settings, k)].value = v]
  ELSE Append(settings, [key |-> k, value |-> v])

\* load_file: a file that cannot be read counts as an empty one.
Loaded(readable) == IF readable THEN sandbox ELSE <<>>

\* What is there of the lines if the process ends while they are written: some of them,
\* and perhaps the next one up to somewhere in its value.  A line that ends before that
\* has no value and is dropped by parse_settings.
CutBetween(lines) == sandbox' \in {SubSeq(lines, 1, n) : n \in 0 .. Len(lines)}
CutWithin(lines, n, c) ==
  /\ lines[n].value.core # Nothing /\ c \in Begins(lines[n].value.core)
  /\ sandbox' = Append(SubSeq(lines, 1, n - 1), [key |-> lines[n].key, value |-> [core |-> c, blank |-> FALSE]])

\* store_secret.  What cannot be read is replaced; a file that
\* cannot be opened for writing stays, and the call fails.  The file is emptied
\* before it is written: only a part of it is there if the process ends meanwhile.
StoreSecret(k, v) == \E readable, whole \in BOOLEAN :
  LET settings == ParseSettings(Loaded(readable))
      same == HasKey(settings, k) /\ settings[FirstOf(settings, k)].value = v
      lines == Written(Replaced(settings, k, v))
  IN
  /\ \/ same /\ whole /\ UNCHANGED sandbox /\ cut' = cut \ {k}
     \/ ~same /\ whole /\ sandbox' = lines /\ cut' = cut \ {k}
     \/ ~same /\ ~whole /\ CutBetween(lines) /\ cut' = cut \ {k}
     \/ /\ ~same /\ ~whole
        /\ \E n \in DOMAIN lines, c \in Cores :
             CutWithin(lines, n, c) /\ cut' = (cut \ {k}) \cup {lines[n].key}
  /\ last' = [last EXCEPT ![k] = v.core]
  /\ unsure' = IF ~whole THEN Keys ELSE IF ~readable THEN Keys \ {k} ELSE unsure \ {k}
  /\ UNCHANGED user

\* retrieve_secret: the sandbox first, then the user's file.
ValueIn(lines, k) ==
  LET settings == ParseSettings(lines)
  IN IF HasKey(settings, k) THEN settings[FirstOf(settings, k)].value.core ELSE Nothing
RetrieveSecret(k) == IF ValueIn(sandbox, k) # Nothing THEN ValueIn(sandbox, k) ELSE ValueIn(user, k)

Next == \E k \in Keys, v \in Texts : StoreSecret(k, v)
Spec == Init /\ [][Next]_secretVars

-----------------------------------------------------------------------------
\* A secret is what was stored for its key last, or what the user has set if that
\* was nothing, however many others are stored meanwhile.  If the file could once
\* not be read or was cut short it may be lost, but then it is the user's; and if it was cut
\* short in the line of this key, it may be a beginning of what was stored: never an
\* older value, and never that of another key.
SecretsKept == \A k \in Keys :
  LET set == IF last[k] # Nothing THEN last[k] ELSE ValueIn(user, k)
      lost == IF k \in unsure THEN {ValueIn(user, k)} ELSE {}
      part == IF k \in cut /\ last[k] # Nothing THEN Begins(last[k]) ELSE {}
  IN RetrieveSecret(k) \in {set} \cup lost \cup part
=============================================================================
