---------------------------- MODULE RectangleList ----------------------------
(***************************************************************************)
(* A list of rectangles (src/src/deck_rectangle_list.cpp).                 *)
(*                                                                         *)
(* The list is m_refs, a vector of references that luaL_ref gave for slots *)
(* in the instance table, whose free slots form a chain.  foreach walks    *)
(* the vector with iterators while it calls the script, which may change   *)
(* the list meanwhile: the vector is modelled as memory, with what erase   *)
(* and clear leave behind its end, and with what is read after it had to   *)
(* move to a larger block.                                                 *)
(***************************************************************************)
EXTENDS Integers, Sequences, SequencesExt, FiniteSets, Selection

CONSTANTS
  Rectangles,   \* those the script puts into the list
  MaxSize,      \* bound: the length of the list
  MaxChanges,   \* bound: how often the script changes the list within foreach
  Gone          \* what is read at a slot that is free

ListAssumption == MaxSize \in Nat /\ MaxChanges \in Nat /\ Gone \notin Rectangles

VARIABLES
  cells,   \* the memory of m_refs, as long as its capacity
  size,    \* m_refs.size()
  slots,   \* the instance table: for each slot a rectangle, or Gone
  free,    \* the free slots, the one that is taken next first
  walk     \* foreach: where it is, its iterators, what the script was given, and so on

vars == <<cells, size, slots, free, walk>>

refs  == SubSeq(cells, 1, size)
List  == [i \in 1 .. size |-> slots[cells[i]]]
Idle  == [at |-> "idle", iter |-> 0, end |-> 0, started |-> <<>>, given |-> <<>>, answer |-> Gone,
          erased |-> FALSE, moved |-> FALSE, changes |-> 0]

Walks == [at : {"idle", "next", "called", "done"}, iter : Nat, end : Nat, started : Seq(Rectangles),
          given : Seq(Rectangles \cup {Gone}), answer : Rectangles \cup {Gone},
          erased : BOOLEAN, moved : BOOLEAN, changes : 0 .. MaxChanges]
TypeOK ==
  /\ slots \in Seq(Rectangles \cup {Gone}) /\ Len(slots) <= MaxSize /\ free \in Seq(DOMAIN slots)
  /\ cells \in Seq(DOMAIN slots) /\ Len(cells) <= 2 * MaxSize /\ size \in 0 .. Len(cells)
  /\ walk \in Walks

Init == cells = <<>> /\ size = 0 /\ slots = <<>> /\ free = <<>> /\ walk = Idle

\* luaL_ref: the first free slot, or a new one behind all others.
TakenSlot == IF free = <<>> THEN Len(slots) + 1 ELSE Head(free)
\* What is behind the end of a new block is nothing that was stored; 1 stands for it.
Grown == [i \in 1 .. (IF size = 0 THEN 1 ELSE 2 * size) |-> IF i <= size THEN cells[i] ELSE 1]

\* The script changes the list, within foreach or not.
Changed(erased, moved) == IF walk.at = "called"
  THEN /\ walk.changes < MaxChanges
       /\ walk' = [walk EXCEPT !.erased = @ \/ erased, !.moved = @ \/ moved, !.changes = @ + 1]
  ELSE walk' = walk

\* add(): a reference is pushed back, the vector moves if it is full.
Add(r) ==
  LET block == IF size = Len(cells) THEN Grown ELSE cells IN
  /\ size < MaxSize
  /\ cells' = [block EXCEPT ![size + 1] = TakenSlot]
  /\ size' = size + 1
  /\ slots' = [s \in 1 .. (IF free = <<>> THEN Len(slots) + 1 ELSE Len(slots)) |->
                 IF s = TakenSlot THEN r ELSE slots[s]]
  /\ free' = IF free = <<>> THEN <<>> ELSE Tail(free)
  /\ Changed(FALSE, size = Len(cells))

\* Mutant of Erase: remove() does not give the slot back.
EraseKeepsSlot(r) == \E i \in 1 .. size :
  /\ List[i] = r /\ \A j \in 1 .. i - 1 : List[j] # r
  /\ cells' = [c \in DOMAIN cells |-> IF c \in i .. size - 1 THEN cells[c + 1] ELSE cells[c]]
  /\ size' = size - 1
  /\ Changed(TRUE, FALSE)
  /\ UNCHANGED <<slots, free>>

\* remove(): the first reference to the rectangle is erased, those behind it
\* move up by one, and the last cell keeps what it had.
Erase(r) == \E i \in 1 .. size :
  /\ List[i] = r /\ \A j \in 1 .. i - 1 : List[j] # r
  /\ slots' = [slots EXCEPT ![cells[i]] = Gone]
  /\ free' = <<cells[i]>> \o free
  /\ cells' = [c \in DOMAIN cells |-> IF c \in i .. size - 1 THEN cells[c + 1] ELSE cells[c]]
  /\ size' = size - 1
  /\ Changed(TRUE, FALSE)

\* clear(): all references are given back in their order; the memory stays.
Clear ==
  /\ size > 0
  /\ slots' = [s \in DOMAIN slots |-> IF s \in ToSet(refs) THEN Gone ELSE slots[s]]
  /\ free' = Reverse(refs) \o free
  /\ size' = 0
  /\ Changed(TRUE, FALSE)
  /\ UNCHANGED cells

-----------------------------------------------------------------------------
\* any() and reverse_any(): the first or last rectangle of which hit is told, or Gone.
Hits(hit) == {i \in 1 .. size : List[i] \in hit}
FoundAt(hit, reverse) == CHOOSE i \in Hits(hit) : \A j \in Hits(hit) : IF reverse THEN j <= i ELSE i <= j
AnyContains(hit, reverse) == IF Hits(hit) = {} THEN Gone ELSE List[FoundAt(hit, reverse)]
AllContains(hit) == Only(List, Hits(hit))

\* Where the instance table holds a number of the chain of free slots: luaL_unref keeps
\* the first at 0 and, in each free slot, the next.
Chained(k) == free # <<>> /\ (k = 0 \/ \E i \in 1 .. Len(free) - 1 : free[i] = k)

\* list[k]: what the instance table holds under k, and only if that is nothing, the
\* rectangle at k, counted from 0 (index).  Gone stands for a number of the chain, too.
AtIndex(k) ==
  IF k \in DOMAIN slots /\ slots[k] # Gone THEN slots[k]
  ELSE IF ~Chained(k) /\ k >= 0 /\ k < size THEN List[k + 1]
  ELSE Gone

\* list.first and list.last
AtEnd(back) == IF size = 0 THEN Gone ELSE slots[IF back THEN cells[size] ELSE cells[1]]

\* foreach: the iterators are taken at the beginning, and not again.
Begin ==
  /\ walk.at = "idle"
  /\ walk' = [Idle EXCEPT !.at = "next", !.iter = 1, !.end = size + 1, !.started = List]
  /\ UNCHANGED <<cells, size, slots, free>>

\* What the slot at the iterator holds, or anything once the vector has moved and
\* its old block was freed.
AtIter == IF walk.moved THEN Rectangles \cup {Gone} ELSE {slots[cells[walk.iter]]}

\* The function is called with the next rectangle.  It may change the list.
Call ==
  /\ walk.at = "next" /\ walk.iter < walk.end
  /\ \E r \in AtIter : walk' = [walk EXCEPT !.at = "called", !.given = Append(@, r)]
  /\ UNCHANGED <<cells, size, slots, free>>

\* It has failed or returned false: the next one.
Return ==
  /\ walk.at = "called"
  /\ walk' = [walk EXCEPT !.at = "next", !.iter = @ + 1]
  /\ UNCHANGED <<cells, size, slots, free>>

\* It has returned true: the answer is read at the iterator again.
ReturnFound ==
  /\ walk.at = "called"
  /\ \E r \in AtIter : walk' = [walk EXCEPT !.at = "done", !.answer = r]
  /\ UNCHANGED <<cells, size, slots, free>>

EndOfWalk ==
  /\ \/ walk.at = "done"
     \/ walk.at = "next" /\ walk.iter = walk.end
  /\ walk' = Idle
  /\ UNCHANGED <<cells, size, slots, free>>

Script == walk.at \in {"idle", "called"} /\ ((\E r \in Rectangles : Add(r) \/ Erase(r)) \/ Clear)
Next == Script \/ Begin \/ Call \/ Return \/ ReturnFound \/ EndOfWalk
Spec == Init /\ [][Next]_vars

-----------------------------------------------------------------------------
\* Every reference of the list has a slot of its own with a rectangle in it, and
\* all other slots are free, each once: no rectangle is lost or kept for ever.
SlotsOwned ==
  /\ IsInjective(refs) /\ IsInjective(free)
  /\ ToSet(refs) \cup ToSet(free) = DOMAIN slots /\ ToSet(refs) \cap ToSet(free) = {}
  /\ \A s \in DOMAIN slots : (s \in ToSet(free)) <=> (slots[s] = Gone)

\* any() finds the first of those that all() lists, reverse_any() the last, and these
\* are the ends of the list if all of it is hit.
QueriesAgree == \A hit \in SUBSET Rectangles :
  LET all == AllContains(hit) IN
  /\ all = <<>> <=> AnyContains(hit, FALSE) = Gone
  /\ all # <<>> => AnyContains(hit, FALSE) = Head(all) /\ AnyContains(hit, TRUE) = Last(all)
  /\ hit = Rectangles => all = List
       /\ AnyContains(hit, FALSE) = AtEnd(FALSE) /\ AnyContains(hit, TRUE) = AtEnd(TRUE)

\* list[k] finds every rectangle of the list at some k, and none that is not in the list.
\* It need not be the one at k: the slots of the instance table go before the order.
IndexFinds == {AtIndex(k) : k \in 0 .. Len(slots)} \ {Gone} = ToSet(List)

\* foreach gives the script the rectangles that were in the list when it began, in
\* their order and each once, as long as the script has neither removed nor cleared
\* anything meanwhile, nor added more than the vector had room for.  The answer is then the
\* last one given.
WalksTheList == ~walk.erased /\ ~walk.moved =>
  /\ walk.given = SubSeq(walk.started, 1, Len(walk.given))
  /\ walk.at = "next" /\ walk.iter = walk.end => walk.given = walk.started
  /\ walk.answer # Gone => walk.answer = Last(walk.given)

ListHolds == SlotsOwned /\ WalksTheList /\ QueriesAgree /\ IndexFinds
=============================================================================
