------------------------------- MODULE MCApart -------------------------------
(***************************************************************************)
(* Apart for TLC, with the part that has recursive operators, tables; and  *)
(* JSON for what is written to an event log.                               *)
(***************************************************************************)
EXTENDS Apart

CONSTANTS
  Shorter,                          \* a beginning of every other value
  Tables, Fields, MaxList, HeapChanges,
  Text, Number, TooLong, Infinity,  \* atoms of tables
  NoRoom, NoNumeral,
  Rest                              \* what is left of Number

VARIABLES heap, heapChanges, file, stored

tableVars == <<heap, heapChanges, file, stored>>
allVars   == <<vars, tableVars>>

\* Of the atoms, a number is rounded; what is read of a part is not told apart.
Atoms         == {Text, Number, TooLong, Infinity}
Rounded(a)    == CASE a = TooLong -> NoRoom [] a = Infinity -> NoNumeral [] a = Number -> Rest [] OTHER -> a
Beginnings(a) == IF a \in {Text, Rest} THEN {Shorter} ELSE {}

TS == INSTANCE TableStore WITH changes <- heapChanges, MaxChanges <- HeapChanges

\* Of the values of secrets, one is a beginning of all others.
CoreBegins(c) == {Shorter} \ {c}

ASSUME TablesAssumption == TS!TableAssumption

\* Values for the log: an atom; a table with a list; and one that cannot be read back,
\* for it begins with a function.
AnAtom   == TS!Atom(Text)
Lists    == [table |-> <<AnAtom, TS!Function>>, broken |-> <<TS!Function, AnAtom>>]
JsonHeap == [name \in DOMAIN Lists |-> [list |-> Lists[name], fields |-> <<>>]]
Written(v) == TS!ToJson(JsonHeap, v, {}, FALSE)
JsonTexts  == {Written(AnAtom), Written(TS!Table("table")), Written(TS!Table("broken"))}
ParsedJson(line) == TS!FromText(line)

AllInit == Init /\ TS!Init

AllNext ==
  \/ Next /\ UNCHANGED tableVars
  \/ part = "tables" /\ TS!Next /\ UNCHANGED vars

\* A step of AllNext is one of Next or leaves vars alone: AllSpec implies Spec.
AllSpec == AllInit /\ [][AllNext]_allVars /\ Fairness

-----------------------------------------------------------------------------
\* What holds of tables: TableStore says of what.
StoresHold == Of("tables", TS!TypeOK /\ TS!TablesHold)
=============================================================================
