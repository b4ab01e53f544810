--------------------------------- MODULE Url ---------------------------------
(***************************************************************************)
(* URLs (src/src/util_url.cpp): a text and its parts.                      *)
(*                                                                         *)
(* A text is a sequence of numbers: a digit is itself, and Colon, Slash    *)
(* and letters are numbers above.  Names that the code writes itself, like *)
(* localhost, are a letter each.  No port is written with a sign.          *)
(***************************************************************************)
EXTENDS Integers, Sequences, FiniteSetsExt

CONSTANTS
  Chars,    \* what texts are made of
  MaxText,  \* bound: the length of a text that is set
  Ports     \* ports that are set

Colon     == 10
Slash     == 11
LocalHost == 12
Https     == 13
MaxInt    == 2147483647
MaxPort   == 65535

UrlAssumption == Chars \subseteq Nat /\ MaxText \in Nat /\ Ports \subseteq 0 .. MaxPort

VARIABLES
  url,  \* the connection string and its parts
  odd   \* history: the text that was set had a colon in its host, which was not set since

urlVars == <<url, odd>>

Texts(n) == UNION {[1 .. l -> Chars] : l \in 0 .. n}
Plain(s) == \A i \in DOMAIN s : s[i] \notin {Colon, Slash}
TypeOK ==
  /\ url.conn \in Seq(Nat) /\ url.schema \in Seq(Nat) /\ url.host \in Seq(Nat)
  /\ url.port \in 0 .. MaxInt /\ url.path \in Seq(Nat) /\ odd \in BOOLEAN

-----------------------------------------------------------------------------
\* build_connection_string
Tens      == <<1, 10, 100, 1000, 10000, 100000, 1000000, 10000000, 100000000, 1000000000>>
Width(n)  == CHOOSE w \in 1 .. 10 : (w > 1 => Tens[w] <= n) /\ (w < 10 => n < Tens[w + 1])
Digits(n) == [i \in 1 .. Width(n) |-> (n \div Tens[Width(n) - i + 1]) % 10]
Or(s, default) == IF s = <<>> THEN default ELSE s
Rooted(path)   == IF path # <<>> /\ path[1] = Slash THEN path ELSE <<Slash>> \o path

\* Mutant of Build: a port without a host is left out.
BuildHostOnly(schema, host, port, path) ==
  Or(schema, <<Https>>) \o <<Colon, Slash, Slash>> \o host
  \o (IF port > 0 /\ host # <<>> THEN <<Colon>> \o Digits(port) ELSE <<>>)
  \o Rooted(path)

Build(schema, host, port, path) ==
  Or(schema, <<Https>>) \o <<Colon, Slash, Slash>>
  \o (IF host = <<>> /\ port = 0 THEN <<>> ELSE Or(host, <<LocalHost>>))
  \o (IF port > 0 THEN <<Colon>> \o Digits(port) ELSE <<>>)
  \o Rooted(path)

\* std::from_chars: the number that the text begins with, 0 if there is none or if it
\* is too large.
NumberAt(s) == SubSeq(s, 1, Max({n \in 0 .. Len(s) : \A i \in 1 .. n : s[i] < 10}))
Digit(s, k) == IF k < Len(s) THEN s[Len(s) - k] ELSE 0
Sum(s)  == Digit(s, 0) + 10 * Digit(s, 1) + 100 * Digit(s, 2) + 1000 * Digit(s, 3) + 10000 * Digit(s, 4)
           + 100000 * Digit(s, 5) + 1000000 * Digit(s, 6) + 10000000 * Digit(s, 7)
           + 100000000 * Digit(s, 8) + 1000000000 * Digit(s, 9)
IsInt(s) == (\A k \in 10 .. Len(s) - 1 : Digit(s, k) = 0) /\ Sum(s) <= MaxInt
Value(s) == IF IsInt(s) THEN Sum(s) ELSE 0

\* parse_connection_string: the parts, and whether the text is written as Build does.
At(s, from, c) == Min({i \in from .. Len(s) : s[i] = c} \cup {Len(s) + 1})
Parse(s) ==
  LET first == At(s, 1, Colon)
      hasSchema == first + 2 <= Len(s) /\ SubSeq(s, first, first + 2) = <<Colon, Slash, Slash>>
      cursor == IF hasSchema THEN first + 3 ELSE 1
      slash == At(s, cursor, Slash)
      colon == Max({i \in cursor .. slash - 1 : s[i] = Colon} \cup {0})
      digits == SubSeq(s, colon + 1, slash - 1)
  IN [schema |-> IF hasSchema THEN SubSeq(s, 1, first - 1) ELSE <<>>,
      host |-> SubSeq(s, cursor, (IF colon = 0 THEN slash ELSE colon) - 1),
      port |-> IF colon = 0 THEN 0 ELSE Value(NumberAt(digits)),
      path |-> IF slash > Len(s) THEN <<Slash>> ELSE SubSeq(s, slash, Len(s)),
      normal |-> hasSchema /\ slash <= Len(s)
                 /\ (colon # 0 => digits # <<>> /\ NumberAt(digits) = digits /\ IsInt(digits))]

-----------------------------------------------------------------------------
Init == odd = FALSE /\ url = [conn |-> <<>>, schema |-> <<>>, host |-> <<>>, port |-> 0, path |-> <<>>]

\* set_connection_string_normalized: nothing changes if the text is not normal, which
\* a build with assertions ends at.
Adopted(s) ==
  LET p == Parse(s)
  IN IF ~p.normal THEN url
     ELSE [conn |-> s, schema |-> p.schema, host |-> p.host, port |-> p.port, path |-> p.path]

ConnectionString(s, default) ==
  LET p == Parse(s) IN Adopted(Build(Or(p.schema, default), p.host, p.port, p.path))
WithSchema(s) == Adopted(Build(s, url.host, url.port, url.path))
WithHost(s)   == Adopted(Build(url.schema, s, url.port, url.path))
WithPort(n)   == Adopted(Build(url.schema, url.host, n, url.path))
WithPath(s)   == Adopted(Build(url.schema, url.host, url.port, s))

SetConnectionString == \E s \in Texts(MaxText), default \in {<<>>, <<Https>>} :
  url' = ConnectionString(s, default) /\ odd' = ~Plain(Parse(s).host)
SetSchema == \E s \in Texts(1) : Plain(s) /\ url' = WithSchema(s) /\ UNCHANGED odd
SetHost   == \E s \in Texts(1) : Plain(s) /\ url' = WithHost(s) /\ odd' = FALSE
SetPort   == \E n \in Ports : url' = WithPort(n) /\ UNCHANGED odd
SetPath   == \E s \in Texts(2) : url' = WithPath(s) /\ UNCHANGED odd

Next == SetConnectionString \/ SetSchema \/ SetHost \/ SetPort \/ SetPath
Spec == Init /\ [][Next]_urlVars

-----------------------------------------------------------------------------
Made(schema, host, port, path) ==
  [conn |-> Build(schema, host, port, path), schema |-> schema, host |-> host, port |-> port, path |-> path]

\* The text and the parts tell the same: the text is made from its parts, and setting
\* it again changes nothing.  Each part can be set on its own, is what was set, and
\* leaves the others alone, but for a host that a port needs.  A whole text with two
\* colons in its host is an exception: its host has a colon, or is missing in front
\* of a port, or what is left of it ends in a port with zeros in front.
PartsAgree == url.conn # <<>> /\ ~odd =>
  LET NeededBy(port, host) == IF port = 0 THEN host ELSE Or(host, <<LocalHost>>)
  IN /\ url = Made(url.schema, url.host, url.port, url.path)
     /\ ConnectionString(url.conn, <<>>) = url
     /\ \A s \in Texts(1) : Plain(s) =>
          /\ WithSchema(s) = Made(Or(s, <<Https>>), url.host, url.port, url.path)
          /\ WithHost(s) = Made(url.schema, NeededBy(url.port, s), url.port, url.path)
     /\ \A n \in Ports : WithPort(n) = Made(url.schema, NeededBy(n, url.host), n, url.path)
     /\ \A s \in Texts(2) : WithPath(s) = Made(url.schema, url.host, url.port, Rooted(s))
=============================================================================
