----------------------------- MODULE TableStore ------------------------------
(***************************************************************************)
(* Tables that scripts keep in files of the sandbox                        *)
(* (src/src/deck_util.cpp, src/src/util_text.cpp).                         *)
(*                                                                         *)
(* A file is its tokens.  The process may end while it writes it, which    *)
(* leaves a part of what was to be written, cut between two tokens or in   *)
(* one; what the script held is then gone.                                 *)
(***************************************************************************)
EXTENDS Json

CONSTANTS
  Tables,      \* tables of the script
  Atoms,       \* strings, numbers and booleans
  Beginnings(_), \* what a beginning of an atom's text may be read as: a shorter number, an
               \* empty string, or a string that ends in the middle of an escape
  Fields,      \* fields of tables
  MaxList,     \* bound: how long lists become
  MaxChanges   \* bound: how often the script changes its tables

TableAssumption == {MaxList, MaxChanges} \subseteq Nat /\ Fields \subseteq Nat \ 0 .. MaxList

VARIABLES
  heap,     \* the script's tables
  changes,  \* how often it has changed them
  file,     \* what is in the file
  stored    \* the table that was stored last, as a tree, and whether that was cut short

tableVars == <<heap, changes, file, stored>>

Empty   == [list |-> <<>>, fields |-> <<>>]
Scalars == {Atom(a) : a \in Atoms}
Contents == Scalars \cup {Function} \cup {Table(t) : t \in Tables}

TypeOK ==
  /\ \A t \in Tables : heap[t].list \in Seq(Contents) /\ DOMAIN heap[t].fields \subseteq Fields
  /\ changes \in 0 .. MaxChanges /\ Len(file) \in Nat

Init ==
  /\ heap = [t \in Tables |-> Empty] /\ changes = 0
  /\ file = <<>> /\ stored = [tree |-> Nil, cut |-> FALSE]

-----------------------------------------------------------------------------
\* What a value means, of which JSON is the written form: a table within itself is
\* nil, what cannot be converted is left out, a table with a list is only that.
RECURSIVE Meaning(_, _)
Meaning(v, seen) ==
  LET list == heap[v[2]].list  fields == heap[v[2]].fields
      at == {i \in DOMAIN list : Convertible(list[i])}
      in(w) == Meaning(w, seen \cup {v[2]})
      full == IF list # <<>>
              THEN [i \in 1 .. Cardinality(at) |->
                      in(list[CHOOSE j \in at : Cardinality({k \in at : k <= j}) = i])]
              ELSE [k \in {k \in DOMAIN fields : Convertible(fields[k])} |-> in(fields[k])]
  IN IF v[1] # "table" THEN Scalar(v)
     ELSE IF v[2] \in seen THEN Nil
     ELSE Tree([k \in {j \in DOMAIN full : full[j] # Nil} |-> full[k]])

\* A list that begins with a function has a comma in front: it cannot be read back, and
\* neither can inf and nan.
RECURSIVE Readable(_, _)
Readable(v, seen) ==
  IF v[1] # "table" THEN Scalar(v) # Infinite
  ELSE v[2] \in seen \/ LET list == heap[v[2]].list  fields == heap[v[2]].fields IN
     /\ list # <<>> => Convertible(list[1]) \/ \A i \in DOMAIN list : ~Convertible(list[i])
     /\ \A w \in (IF list # <<>> THEN ToSet(list) ELSE {fields[k] : k \in DOMAIN fields}) :
          Convertible(w) => Readable(w, seen \cup {v[2]})

-----------------------------------------------------------------------------
\* The script fills its tables.
Change == \E t \in Tables, v \in Contents :
  /\ changes < MaxChanges /\ changes' = changes + 1
  /\ \/ Len(heap[t].list) < MaxList /\ heap' = [heap EXCEPT ![t].list = Append(@, v)]
     \/ \E k \in Fields : heap' = [heap EXCEPT ![t].fields = With(@, k, v)]
  /\ UNCHANGED <<file, stored>>

\* The process ends, and another one begins.
Restarted == heap' = [t \in Tables |-> Empty]

\* What a token that is cut short is taken for: most parts of a text have no end and
\* are refused, but some are another atom.  Behind a key that ends like these, reading goes
\* on behind the text.
Unended == Token("unended")
Behind  == Token("behind")
PartsOf(token) ==
  CASE token[1] = "atom" -> {Unended} \cup {Atom(b) : b \in Beginnings(token[2])}
    [] token[1] = "key"  -> {Unended, Behind}
    [] token \in {Nil, Infinite} -> {Unended}
    [] OTHER -> {}

\* Mutant of CutShort: the file is not emptied.
CutShortOver(text) == {SubSeq(text, 1, n) \o SubSeq(file, n + 1, Len(file)) : n \in 0 .. Len(text) - 1}

\* save_file: the file is emptied when it is opened, and then written.
CutShort(text) ==
  UNION {{SubSeq(text, 1, n)} \cup {Append(SubSeq(text, 1, n), t) : t \in PartsOf(text[n + 1])}
         : n \in 0 .. Len(text) - 1}
StoreTable(t) ==
  LET text == ToJson(heap, Table(t), {}, TRUE) IN
  /\ \/ /\ file' = text /\ stored' = [tree |-> Meaning(Table(t), {}), cut |-> ~Readable(Table(t), {})]
        /\ UNCHANGED heap
     \/ /\ file' \in CutShort(text) /\ stored' = [tree |-> Meaning(Table(t), {}), cut |-> TRUE]
        /\ Restarted
  /\ UNCHANGED changes

-----------------------------------------------------------------------------
\* retrieve_table: nil without a file or with an empty one.
RetrieveTable == IF file = <<>> THEN Read(Nil, 1) ELSE FromText(file)

Next == Change \/ (\E t \in Tables : StoreTable(t))
Spec == Init /\ [][Next]_tableVars

-----------------------------------------------------------------------------
\* What is written is read back as what it means, to its last token, pretty or not,
\* unless a list begins with what cannot be converted or a number is inf or nan: what it
\* means is the same but for numbers, which are rounded, or left out if they are too long.
JsonReturns == \A v \in Contents, pretty \in BOOLEAN :
  Convertible(v) =>
    LET text == ToJson(heap, v, {}, pretty)
    IN FromText(text) = IF Readable(v, {}) THEN Read(Meaning(v, {}), Len(text) + 1) ELSE Failed

\* Is tree what is left of whole if its text is cut: all but the end, where an atom may
\* be only the beginning of one?
RECURSIVE Cut(_, _)
Cut(tree, whole) ==
  \/ tree = whole
  \/ tree[1] = "atom" /\ whole[1] = "atom" /\ tree[2] \in Beginnings(whole[2])
  \/ /\ tree[1] = "tree" /\ whole[1] = "tree" /\ DOMAIN tree[2] \subseteq DOMAIN whole[2]
     /\ \A k \in DOMAIN tree[2] : Cut(tree[2][k], whole[2][k])
     /\ \A k, j \in DOMAIN tree[2] : k < j => tree[2][k] = whole[2][k]

\* A stored table is retrieved as what it means.  If the process ended meanwhile it is
\* nothing, an error, or the table up to somewhere, of which only the last atom may be one that
\* was not stored.  Nothing is said of what is read behind the end of the text.
TableKept ==
  /\ ~stored.cut => RetrieveTable.ok /\ RetrieveTable.v = stored.tree
  /\ stored.cut /\ RetrieveTable.ok /\ Behind \notin ToSet(file)
       => RetrieveTable.v = Nil \/ Cut(RetrieveTable.v, stored.tree)

TablesHold == JsonReturns /\ TableKept
=============================================================================
