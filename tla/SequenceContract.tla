--------------------------- MODULE SequenceContract ---------------------------
(***************************************************************************)
(* What the double-ended containers promise their callers: the container   *)
(* is a sequence, and each call changes it as the **Effects**, **Returns** *)
(* and **Exceptions** clauses of its documentation say.  There is no       *)
(* memory, no capacity and no index here.                                  *)
(*                                                                         *)
(* call is the latest call: which member function, its arguments (at: a    *)
(* position relative to begin(), n: a count, xs: the elements to store),   *)
(* whether it returned or threw, and the position of the iterator it       *)
(* returned.                                                               *)
(*                                                                         *)
(* A call that throws has no effect: this is the strong guarantee that is  *)
(* documented for elements that can be moved without throwing.  Excepted   *)
(* are operations that are not held to it, although their documentation    *)
(* makes no exception: if they throw, a part of their effect may remain.   *)
(* With an operation in Excepted this module promises less than the        *)
(* documentation; with none, what it says.                                 *)
(***************************************************************************)
EXTENDS Integers, Sequences

CONSTANTS
  Element,
  SegmentSize,     \* of a batch_deque; 1 otherwise
  GrowsByPushing,  \* ranges are pushed to an end first, one element at a time
  Excepted         \* of insert, stable_insert and assign

VARIABLES
  seq,
  offset,  \* the place of the first element in its segment
  call

Returned(op) == call'.op = op /\ call'.out = "ok"
Threw(op)    == call'.op = op /\ call'.out = "threw"

\* s with xs inserted before the element at position `at`, counted from 0
Splice(s, at, xs) == SubSeq(s, 1, at) \o xs \o SubSeq(s, at + 1, Len(s))

\* s without the n elements from position `at` on
Cut(s, at, n) == SubSeq(s, 1, at) \o SubSeq(s, at + n + 1, Len(s))

SameElement(n, x) == [i \in 1 .. n |-> x]

Init ==
  /\ seq \in Seq(Element)
  /\ call.op = "construct"

EmplaceFront == Returned("emplace_front") /\ seq' = call'.xs \o seq
EmplaceBack  == Returned("emplace_back") /\ seq' = seq \o call'.xs
PopFront     == Returned("pop_front") /\ seq # << >> /\ seq' = Cut(seq, 0, 1)
PopBack      == Returned("pop_back") /\ seq # << >> /\ seq' = Cut(seq, Len(seq) - 1, 1)
Clear        == Returned("clear") /\ seq' = << >>

ResizeFront ==
  /\ Returned("resize_front")
  /\ seq' = IF call'.n > Len(seq)
            THEN SameElement(call'.n - Len(seq), call'.xs[1]) \o seq
            ELSE Cut(seq, 0, Len(seq) - call'.n)

ResizeBack ==
  /\ Returned("resize_back")
  /\ seq' = IF call'.n > Len(seq)
            THEN seq \o SameElement(call'.n - Len(seq), call'.xs[1])
            ELSE SubSeq(seq, 1, call'.n)

\* reserve_front, reserve_back and shrink_to_fit are about memory only.
Reallocate ==
  /\ \E op \in {"reserve_front", "reserve_back", "shrink_to_fit"} : Returned(op)
  /\ seq' = seq

\* emplace, insert: the iterator returned points to the first new element.
Insert ==
  /\ Returned("insert")
  /\ call'.at \in 0 .. Len(seq)
  /\ seq' = Splice(seq, call'.at, call'.xs)
  /\ call'.ret = call'.at

\* A range insertion that throws has no effect ("Strong exception guarantee if `T` is
\* `NothrowConstructible` and `NothrowAssignable`").  Excepted, it may have inserted the
\* first k elements, in place, or have pushed k to the end nearer to the position.
InsertThrew ==
  /\ \E op \in {"insert", "stable_insert"} : Threw(op)
  /\ \E k \in 0 .. Len(call'.xs) - 1 :
       /\ k > 0 => call'.op \in Excepted
       /\ IF GrowsByPushing
          THEN \/ seq' = seq \o SubSeq(call'.xs, 1, k)
               \/ seq' = SubSeq(call'.xs, Len(call'.xs) - k + 1, Len(call'.xs)) \o seq
          ELSE seq' = Splice(seq, call'.at, SubSeq(call'.xs, 1, k))

\* The first element begins a segment for this purpose, and so does the end.
BeginsSegment(i) == i \in {0, Len(seq)} \/ (offset + i) % SegmentSize = 0

\* stable_insert: the range goes to the nearest segment boundary at or before the hint,
\* and elements that are all the same may follow it, to fill a segment; Excepted, more
\* of them.  The iterator points to the first new element.
StableInsert ==
  /\ Returned("stable_insert")
  /\ \E x \in Element :
       LET filling == Len(seq') - Len(seq) - Len(call'.xs)
       IN  /\ filling >= 0
           /\ filling < SegmentSize \/ "stable_insert" \in Excepted
           /\ seq' = Splice(seq, call'.ret, call'.xs \o SameElement(filling, x))
  /\ call'.ret \in 0 .. call'.at
  /\ BeginsSegment(call'.ret)
  /\ \A i \in call'.ret + 1 .. call'.at : ~BeginsSegment(i)

\* erase: the iterator returned points behind the last element erased.
Erase ==
  /\ Returned("erase")
  /\ call'.at \in 0 .. Len(seq) - call'.n
  /\ seq' = Cut(seq, call'.at, call'.n)
  /\ call'.ret = call'.at

Assign == Returned("assign") /\ seq' = call'.xs

\* An assignment that throws has no effect ("Strong exception guarantee if `T` is nothrow
\* copy assignable from `*first` and `NothrowConstructible`").  Excepted, it may have
\* replaced some elements by new ones, or all of them by the first of the new ones.
AssignThrew ==
  /\ Threw("assign")
  /\ \/ seq' = seq
     \/ /\ "assign" \in Excepted
        /\ Len(seq') = Len(seq)
        /\ \A i \in 1 .. Len(seq) :
             seq'[i] = seq[i] \/ \E j \in 1 .. Len(call'.xs) : seq'[i] = call'.xs[j]
     \/ /\ "assign" \in Excepted /\ GrowsByPushing
        /\ \E k \in 0 .. Len(call'.xs) - 1 : seq' = SubSeq(call'.xs, 1, k)

\* The others throw without an effect or not at all.
StrongThrew ==
  /\ call'.out = "threw"
  /\ call'.op \notin {"insert", "stable_insert", "assign", "erase", "pop_front", "pop_back", "clear"}
  /\ seq' = seq

Next ==
  \/ EmplaceFront \/ EmplaceBack \/ PopFront \/ PopBack \/ Clear
  \/ ResizeFront \/ ResizeBack \/ Reallocate
  \/ Insert \/ InsertThrew \/ StableInsert \/ Erase \/ Assign \/ AssignThrew \/ StrongThrew

Spec == Init /\ [][Next]_<<seq, call>>

=============================================================================
