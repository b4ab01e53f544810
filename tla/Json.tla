-------------------------------- MODULE Json --------------------------------
(***************************************************************************)
(* Lua values as JSON and back (src/src/util_text.cpp), token by token.    *)
(*                                                                         *)
(* A value is a pair: an atom, a function, which JSON has no form for, or a*)
(* table by its name.  The heap has for each table its list, which starts  *)
(* at index 1 and has no gaps, and its fields.  A field is a number above  *)
(* all indices, in the order in which the keys sort.                       *)
(*                                                                         *)
(* What is parsed is a tree: a table in place of its name, a function of   *)
(* its keys in which nothing is nil.                                       *)
(***************************************************************************)
EXTENDS Integers, SequencesExt, FiniteSetsExt

CONSTANTS
  Rounded(_),  \* what is written for an atom: the same, but for a number, which is rounded to
               \* 8 decimals, or is one of these:
  NoRoom,      \* too long for the buffer
  NoNumeral    \* inf or nan

Nil        == <<"nil", 0>>
Function   == <<"function", 0>>
Atom(a)    == <<"atom", a>>
Table(t)   == <<"table", t>>
Tree(f)    == <<"tree", f>>
Token(c)   == <<c, 0>>
Key(k)     == <<"key", k>>
Blank      == Token(" ")
Infinite   == Token("inf")

Convertible(v) == v # Function

\* A number without room becomes null; inf and nan are written, and cannot be read.
Scalar(v) ==
  IF v[1] # "atom" THEN v
  ELSE CASE Rounded(v[2]) = NoRoom -> Nil [] Rounded(v[2]) = NoNumeral -> Infinite
         [] OTHER -> Atom(Rounded(v[2]))

-----------------------------------------------------------------------------
\* convert_to_json_impl.  A table that is met within itself becomes null.  The comma
\* before an element depends on its index, not on whether there is one before it.
RECURSIVE ToJson(_, _, _, _)
ToJson(heap, v, seen, pretty) ==
  LET indent == IF pretty THEN <<Blank>> ELSE <<>>
      list == heap[v[2]].list  fields == heap[v[2]].fields
      In(w) == ToJson(heap, w, seen \cup {v[2]}, pretty)
      Element(i) == IF ~Convertible(list[i]) THEN <<>>
                    ELSE (IF i > 1 THEN <<Token(",")>> ELSE <<>>) \o indent \o In(list[i])
      keys == SetToSortSeq({k \in DOMAIN fields : Convertible(fields[k])}, LAMBDA a, b : a < b)
      Member(i) == (IF i > 1 THEN <<Token(",")>> ELSE <<>>) \o indent
                   \o <<Key(keys[i]), Token(":")>> \o indent \o In(fields[keys[i]])
  IN IF v[1] # "table" THEN << Scalar(v) >>
     ELSE IF v[2] \in seen THEN << Nil >>
     ELSE IF list # <<>>
          THEN <<Token("[")>> \o FlattenSeq([i \in DOMAIN list |-> Element(i)]) \o indent \o <<Token("]")>>
     ELSE <<Token("{")>> \o FlattenSeq([i \in DOMAIN keys |-> Member(i)])
          \o (IF keys = <<>> THEN <<>> ELSE indent) \o <<Token("}")>>

-----------------------------------------------------------------------------
\* convert_from_json_impl: the value that is read from s at i, and where it ends, or
\* that it fails.
Failed       == [ok |-> FALSE, v |-> Nil, at |-> 0]
Read(v, at)  == [ok |-> TRUE, v |-> v, at |-> at]
SkipBlanks(s, i) == Min({j \in i .. Len(s) + 1 : j = Len(s) + 1 \/ s[j] # Blank})
\* Storing nil stores nothing.
With(f, k, v) == IF v = Nil THEN [j \in DOMAIN f \ {k} |-> f[j]]
                 ELSE [j \in DOMAIN f \cup {k} |-> IF j = k THEN v ELSE f[j]]

RECURSIVE FromJson(_, _), Elements(_, _, _, _), Members(_, _, _, _)
FromJson(s, i) ==
  LET at == SkipBlanks(s, i) IN
  IF at > Len(s) THEN Failed
  ELSE CASE s[at] = Token("[") -> Elements(s, at + 1, 0, <<>>)
         [] s[at] = Token("{") -> Members(s, at + 1, TRUE, <<>>)
         [] s[at][1] = "key" -> Read(Atom(s[at][2]), at + 1)
         [] s[at][1] \in {"atom", "nil"} -> Read(s[at], at + 1)
         [] OTHER -> Failed

\* Both loops end as if they had met the bracket where the text ends right after
\* an element or after the bracket that opens.
Elements(s, i, n, f) ==
  LET at == SkipBlanks(s, i)
      from == IF n > 0 THEN at + 1 ELSE at
      e == FromJson(s, from)
  IN IF i > Len(s) THEN Read(Tree(f), i + 1)
     ELSE IF at > Len(s) THEN Failed
     ELSE IF s[at] = Token("]") THEN Read(Tree(f), at + 1)
     ELSE IF (n > 0 /\ s[at] # Token(",")) \/ ~e.ok THEN Failed
     ELSE Elements(s, e.at, n + 1, With(f, n + 1, e.v))

Members(s, i, first, f) ==
  LET at == SkipBlanks(s, i)
      from == SkipBlanks(s, IF first THEN at ELSE at + 1)
      colon == SkipBlanks(s, from + 1)
      e == FromJson(s, colon + 1)
  IN IF i > Len(s) THEN Read(Tree(f), i + 1)
     ELSE IF at > Len(s) THEN Failed
     ELSE IF s[at] = Token("}") THEN Read(Tree(f), at + 1)
     ELSE IF (~first /\ s[at] # Token(",")) \/ from > Len(s) THEN Failed
     ELSE IF s[from][1] # "key" \/ colon > Len(s) THEN Failed
     ELSE IF s[colon] # Token(":") \/ ~e.ok THEN Failed
     ELSE Members(s, e.at, FALSE, With(f, s[from][2], e.v))

FromText(s) == FromJson(s, 1)
=============================================================================
