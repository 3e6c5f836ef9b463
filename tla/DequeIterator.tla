----------------------------- MODULE DequeIterator -----------------------------
(***************************************************************************)
(* The arithmetic of batch_deque's iterators.  An iterator is a record     *)
(*                                                                         *)
(*   at     _p_segment, as the number of the slot of the map it points to  *)
(*   index  _index, the place of the element within that segment           *)
(*                                                                         *)
(* _index and segment_size have an unsigned type with Word values, the     *)
(* distance n of a jump is of the signed type of the same width.  Where    *)
(* the code mixes the two, n is converted to the unsigned one.             *)
(***************************************************************************)
EXTENDS Integers

CONSTANTS
  SegmentSize,  \* BatchDequePolicy::segment_size
  Word          \* the number of values of size_type

ASSUME SegmentAssumption ==
  /\ SegmentSize \in Nat \ {0, 1}
  /\ Word \in Nat /\ Word >= 2 * SegmentSize

It(at, index) == [at |-> at, index |-> index]

\* The conversions between size_type and difference_type.
Unsigned(n) == n % Word
Signed(n)   == IF n < Word \div 2 THEN n ELSE n - Word

\* The quotient of C++, which truncates towards zero.
Quotient(a, b) == IF a >= 0 THEN a \div b ELSE -((-a) \div b)

\* The place of the element in the row of all segments: what an iterator means.
Position(i) == i.at * SegmentSize + i.index

\* Mutant: the index may reach the size of the segment.
IncrementPastSegment(i) ==
  IF i.index = SegmentSize THEN It(i.at + 1, 0) ELSE It(i.at, i.index + 1)

Increment(i) ==
  IF i.index + 1 = SegmentSize THEN It(i.at + 1, 0) ELSE It(i.at, i.index + 1)

Decrement(i) ==
  IF i.index # 0 THEN It(i.at, i.index - 1) ELSE It(i.at - 1, SegmentSize - 1)

\* Mutant: the quotient rounds towards zero also for negative n.
AdvanceRoundingUp(i, n) ==
  IF n >= 0
  THEN It(i.at + (Unsigned(i.index + n) \div SegmentSize),
          Unsigned(i.index + n) % SegmentSize)
  ELSE It(i.at + Quotient(i.index + n, SegmentSize),
          Unsigned(i.index + (Unsigned(n) % SegmentSize)) % SegmentSize)

\* advance(n): `n % segment_size` is computed in the unsigned type.
Advance(i, n) ==
  IF n >= 0
  THEN It(i.at + (Unsigned(i.index + n) \div SegmentSize),
          Unsigned(i.index + n) % SegmentSize)
  ELSE It(i.at + Quotient(1 - SegmentSize + i.index + n, SegmentSize),
          Unsigned(i.index + (Unsigned(n) % SegmentSize)) % SegmentSize)

\* Mutant: the segment of the first iterator is counted in full.
DistanceToFromSegmentStart(a, b) == SegmentSize * (b.at - a.at) + b.index

\* a.distance_to(b)
DistanceTo(a, b) ==
  Signed(Unsigned(SegmentSize * (b.at - a.at - 1) + b.index
                  + (SegmentSize - a.index)))

-----------------------------------------------------------------------------
(***************************************************************************)
(* deque_segment_iterator: data() and data_size() are the elements of one  *)
(* segment.  begin and end are those of the container.                     *)
(***************************************************************************)
SegmentBegin(begin) == begin

SegmentEnd(end) == It(end.at + (IF end.index > 0 THEN 1 ELSE 0), 0)

DataSize(i, end) ==
  IF i.at # end.at THEN SegmentSize - i.index ELSE end.index - i.index

SegmentIncrement(i) == It(i.at + 1, 0)

\* Mutant: the first element of the first segment is not looked up.
SegmentDecrementToStart(i, begin) == It(i.at - 1, 0)

\* An iterator past the first segment has index 0.
SegmentDecrement(i, begin) ==
  It(i.at - 1, IF i.at - 1 = begin.at THEN begin.index ELSE i.index)

SegmentAdvance(i, n) == It(i.at + n, 0)

\* The positions from data() to data() + data_size().
SegmentData(i, end) == Position(i) .. Position(i) + DataSize(i, end) - 1

=============================================================================
