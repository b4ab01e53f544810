------------------------------ MODULE Rectangle ------------------------------
(***************************************************************************)
(* Rectangles of a script (src/src/deck_rectangle.cpp).                    *)
(*                                                                         *)
(* The code treats the two directions alike, x with width and y with       *)
(* height, so that a rectangle is a span for each of them.  A span is      *)
(* where it begins and how long it is; its points are at .. at + len - 1.  *)
(* An assignment that the code refuses with an error changes nothing and   *)
(* is left out.                                                            *)
(***************************************************************************)
EXTENDS Integers, FiniteSetsExt

CONSTANTS
  Rectangles,  \* those a script holds
  MaxAt,       \* bound: rectangles begin in -MaxAt .. MaxAt
  MaxLen       \* bound: the largest width and height

RectangleAssumption == MaxAt \in Nat /\ MaxLen \in Nat

VARIABLE rect  \* for each rectangle its spans

Axes     == {"x", "y"}
Span     == [at : -MaxAt .. MaxAt, len : 0 .. MaxLen]
TypeOK   == rect \in [Rectangles -> [Axes -> Span]]

End(s)          == s.at + s.len
Has(s, p)       == p >= s.at /\ p < End(s)
Valid(r)        == \A a \in Axes : r[a].len > 0
Contains(r, p)  == \A a \in Axes : Has(r[a], p[a])

\* C++ divides towards zero.
Half(n) == IF n < 0 THEN -((-n) \div 2) ELSE n \div 2

\* What centered(), clip() and merge do in one direction.
CenteredSpan(object, frame) == [at |-> frame.at + Half(frame.len - object.len), len |-> object.len]

ClipSpan(l, r) ==
  LET left == Max({l.at, r.at})  right == Min({End(l), End(r)})
  IN IF left < right THEN [at |-> left, len |-> right - left]
     ELSE [at |-> IF l.at < right THEN End(l) ELSE l.at, len |-> 0]
MergeSpan(s, o) ==
  LET left == Min({s.at, o.at})
  IN [at |-> left, len |-> Max({End(s), End(o)}) - left]

Centered(object, frame) == [a \in Axes |-> CenteredSpan(object[a], frame[a])]
Clip(l, r)              == [a \in Axes |-> ClipSpan(l[a], r[a])]
Merge(s, o)             == [a \in Axes |-> MergeSpan(s[a], o[a])]
Empty                   == [a \in Axes |-> [at |-> 0, len |-> 0]]

-----------------------------------------------------------------------------
Init == rect = [r \in Rectangles |-> Empty]

\* The rectangle becomes value, if it stays within the bound.
Becomes(r, value) ==
  /\ value \in [Axes -> Span]
  /\ rect' = [rect EXCEPT ![r] = value]

\* newindex: x or y, w or h, and right or bottom, which may not precede the start.
SetStart(r, a, v) == Becomes(r, [rect[r] EXCEPT ![a].at = v])
SetLength(r, a, v) == v >= 0 /\ Becomes(r, [rect[r] EXCEPT ![a].len = v])
SetEnd(r, a, v) == v >= rect[r][a].at /\ Becomes(r, [rect[r] EXCEPT ![a].len = v - rect[r][a].at])
Coordinates == -MaxAt .. MaxLen
Assign == \E r \in Rectangles, a \in Axes, v \in Coordinates :
  SetStart(r, a, v) \/ SetLength(r, a, v) \/ SetEnd(r, a, v)

\* set_position, set_size and move take both directions at once.
Place(r, v)  == Becomes(r, [a \in Axes |-> [rect[r][a] EXCEPT !.at = v[a]]])
Resize(r, v) == (\A a \in Axes : v[a] >= 0) /\ Becomes(r, [a \in Axes |-> [rect[r][a] EXCEPT !.len = v[a]]])
Move(r, v)   == Becomes(r, [a \in Axes |-> [rect[r][a] EXCEPT !.at = @ + v[a]]])
Change == \E r \in Rectangles, v \in [Axes -> Coordinates] : Place(r, v) \/ Resize(r, v) \/ Move(r, v)

\* centered, merge and clip with another rectangle or itself, dup, reset.
Combine == \E r, o \in Rectangles :
  \/ Becomes(r, Centered(rect[r], rect[o]))
  \/ Becomes(r, Merge(rect[r], rect[o]))
  \/ Becomes(r, Clip(rect[r], rect[o]))
Dup   == \E r, o \in Rectangles : Becomes(r, rect[o])
Reset == \E r \in Rectangles : Becomes(r, Empty)

Next == Assign \/ Change \/ Combine \/ Dup \/ Reset
Spec == Init /\ [][Next]_rect

-----------------------------------------------------------------------------
\* clip(): the points of the result are those that both have, it is valid if there
\* are any, and it stays within the first one even where there are none.
Points == [Axes -> -MaxAt .. MaxAt + MaxLen]
ClipIsIntersection == \A r, o \in Rectangles :
  LET c == Clip(rect[r], rect[o])  common == {p \in Points : Contains(rect[r], p) /\ Contains(rect[o], p)} IN
  /\ {p \in Points : Contains(c, p)} = common /\ (Valid(c) <=> common # {})
  /\ \A a \in Axes : c[a].len >= 0 /\ c[a].at >= rect[r][a].at /\ End(c[a]) <= End(rect[r][a])

\* merge: the result covers both, and has an edge of one of them on each side.
MergeIsHull == \A r, o \in Rectangles, a \in Axes :
  LET m == MergeSpan(rect[r][a], rect[o][a]) both == {rect[r][a], rect[o][a]} IN
  /\ \A s \in both : m.at <= s.at /\ End(s) <= End(m)
  /\ m.at \in {s.at : s \in both} /\ End(m) \in {End(s) : s \in both}

\* centered(): what sticks out or is left over differs by one at most.
CentredEvenly == \A r, o \in Rectangles, a \in Axes :
  LET c == CenteredSpan(rect[r][a], rect[o][a])
  IN (c.at - rect[o][a].at) - (End(rect[o][a]) - End(c)) \in {-1, 0, 1}

\* The code's arithmetic on edges does what it means on points.
GeometryHolds == ClipIsIntersection /\ MergeIsHull /\ CentredEvenly
=============================================================================
