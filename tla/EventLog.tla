------------------------------ MODULE EventLog ------------------------------
(***************************************************************************)
(* An event log of a script: a file of the sandbox to which values are     *)
(* appended, a line each (src/src/deck_util.cpp, src/src/util_text.cpp).   *)
(*                                                                         *)
(* The file is its tokens.  The process may end while it appends, which    *)
(* leaves a part of the entry, cut between two tokens.  How values are     *)
(* written and read is up to the constants: in Json, as JSON.              *)
(***************************************************************************)
EXTENDS Integers, Sequences, Selection

CONSTANTS
  LogTexts,   \* what values are written as
  NewLine,    \* the end of a line
  Parsed(_),  \* what is read from a line: whether that succeeds, and the value
  MaxAppends  \* bound: entries

Marks == UNION {{text[i] : i \in DOMAIN text} : text \in LogTexts}
LogAssumption ==
  /\ LogTexts \subseteq Seq(Marks) \ {<<>>} /\ NewLine \notin Marks
  /\ ~Parsed(<<>>).ok /\ MaxAppends \in Nat

VARIABLES
  file,    \* what is in the file
  entries  \* history: what was appended, on which line it begins, and whether it was cut short

logVars == <<file, entries>>

Entry == [text : LogTexts, line : Nat, cut : BOOLEAN]
TypeOK == file \in Seq(Marks \cup {NewLine}) /\ entries \in Seq(Entry) /\ Len(entries) <= MaxAppends

Init == file = <<>> /\ entries = <<>>

-----------------------------------------------------------------------------
\* split: what is between the ends of lines, also when there is nothing.
LineEnds == {i \in DOMAIN file : file[i] = NewLine} \cup {Len(file) + 1}
Begin(n) == IF n = 1 THEN 1 ELSE At(LineEnds, n - 1) + 1
Lines    == [n \in 1 .. Cardinality(LineEnds) |-> SubSeq(file, Begin(n), At(LineEnds, n) - 1)]

\* traverse_event_log with a function that returns nothing: what it is called with.
TraverseEventLog ==
  Only([n \in DOMAIN Lines |-> Parsed(Lines[n]).v],
       {n \in DOMAIN Lines : Lines[n] # <<>> /\ Parsed(Lines[n]).ok})

\* retrieve_event_log: the last lines but for the empty ones at the end, all if limit
\* is 0.  One of them that cannot be read fails the call.
RetrieveEventLog(limit) ==
  LET used  == {n \in DOMAIN Lines : Lines[n] # <<>>}
      last  == IF used = {} THEN 0 ELSE At(used, Cardinality(used))
      start == IF limit > 0 /\ limit < last THEN last - limit ELSE 0
  IN [ok |-> \A i \in 1 .. last - start : Parsed(Lines[start + i]).ok,
      values |-> [i \in 1 .. last - start |-> Parsed(Lines[start + i]).v]]

-----------------------------------------------------------------------------
\* append_to_file: the text and the end of its line.  If the process ends before
\* anything is written, it is as if it had not been called.
Appended(text) == file \o text \o <<NewLine>>
AppendEventLog(text) ==
  LET Now(cut) == Append(entries, [text |-> text, line |-> Len(Lines), cut |-> cut])
  IN /\ Len(entries) < MaxAppends
     /\ \/ file' = Appended(text) /\ entries' = Now(FALSE)
        \/ \E n \in 1 .. Len(text) : file' = file \o SubSeq(text, 1, n) /\ entries' = Now(TRUE)

Next == \E text \in LogTexts : AppendEventLog(text)
Spec == Init /\ [][Next]_logVars

-----------------------------------------------------------------------------
\* An end of the process while it appends costs the log that entry and the one after
\* it, which goes onto the same line: all others that can be read are traversed, in
\* their order, and if that is all, nothing else is.  Nothing is made up: a line on
\* which no entry was cut short is an entry.  If retrieving succeeds, it gives what is
\* traversed, and the last ones on demand.
Alone(i) == ~entries[i].cut /\ (i > 1 => ~entries[i - 1].cut)
Value(i) == Parsed(entries[i].text).v
LogKept ==
  LET read == TraverseEventLog
      all  == RetrieveEventLog(0)
      sure == {i \in DOMAIN entries : Alone(i) /\ Parsed(entries[i].text).ok}
  IN /\ \E place \in [sure -> DOMAIN read] : \A i \in sure :
          /\ read[place[i]] = Value(i)
          /\ \A j \in sure : i < j => place[i] < place[j]
     /\ sure = DOMAIN entries => read = [i \in DOMAIN entries |-> Value(i)]
     /\ \A n \in DOMAIN Lines : Lines[n] # <<>> =>
          \E i \in DOMAIN entries : entries[i].line = n /\ (entries[i].cut \/ Lines[n] = entries[i].text)
     /\ all.ok => all.values = read
     /\ \A limit \in 1 .. MaxAppends : all.ok =>
          RetrieveEventLog(limit).values = SubSeq(read, IF limit < Len(read) THEN Len(read) - limit + 1 ELSE 1, Len(read))
=============================================================================
