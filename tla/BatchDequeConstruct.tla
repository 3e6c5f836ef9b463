-------------------------- MODULE BatchDequeConstruct --------------------------
(***************************************************************************)
(* The construction of a batch_deque, step by step: batch_deque(n), the    *)
(* constructor from forward iterators and the copy constructor, with their *)
(* exception handlers and destructor_impl.  BatchDequeOps has only what    *)
(* they lead to.                                                           *)
(*                                                                         *)
(* Each segment obtained or returned and each element constructed or       *)
(* destroyed is a step.                                                    *)
(***************************************************************************)
EXTENDS BatchDequeOps, Guards

CONSTANTS
  MaxElements,       \* bound: the number of elements
  Forms,             \* the constructors called: among "count", "range", "copy"
  AllocatorThrowsIn  \* those in which allocate_segment may throw

VARIABLES
  request,   \* which constructor, the elements, the index of the first one
  pc,        \* what comes next
  segments,  \* the segments in _map, in order
  allocated, \* the segments obtained and not returned
  mem,       \* what each cell of each segment holds
  full,      \* the number of segments that were filled
  guard,     \* how much of the segment at hand was filled, see FillOne
  last,      \* _end
  cursor     \* destroy_elements: how far it is

constructVars ==
  <<request, pc, segments, allocated, mem, full, guard, last, cursor>>

-----------------------------------------------------------------------------
Start   == It(0, request.index)
PastAll == Advance(Start, Len(request.xs))

\* The number of segments; a copy of an empty batch_deque that begins within a
\* segment gets one.
Needed ==
  IF request.form = "copy" THEN SegmentEnd(PastAll).at - SegmentBegin(Start).at
  ELSE SegmentCount(Len(request.xs))

\* The cells to fill in the segment at hand, and their elements
FirstCell    == IF full = 0 THEN request.index ELSE 0
CellsToFill  == IF full = PastAll.at THEN PastAll.index - FirstCell
                ELSE SegmentSize - FirstCell
Elem(cell)   == request.xs[full * SegmentSize + cell - request.index + 1]

\* Elements constructed, when no guard destroys them
ElementsSoFar == full * SegmentSize + guard.count

At(n) == segments[n + 1]

ConstructInit ==
  /\ \E form \in Forms, n \in 0 .. MaxElements, index \in Indices :
       /\ form # "copy" => index = 0
       /\ \E xs \in [1 .. n -> Values] :
            /\ form = "count" => \A i \in 1 .. n : xs[i] = Default
            /\ request = [form |-> form, xs |-> xs, index |-> index]
  /\ pc = "segment"
  /\ segments = << >> /\ allocated = {}
  /\ mem = [s \in Segments |-> EmptySegment]
  /\ full = 0
  /\ guard = NewGuard(0)
  /\ last = PastAll
  /\ cursor = Start

-----------------------------------------------------------------------------
\* allocate_segment() and _map.unsafe_push_back
NextSegment ==
  /\ pc = "segment" /\ Len(segments) < Needed
  /\ LET s == CHOOSE s \in Segments \ allocated :
                \A t \in Segments \ allocated : s =< t
     IN  /\ segments' = Append(segments, s)
         /\ allocated' = allocated \cup {s}
  /\ guard' = NewGuard(FirstCell)
  /\ pc' = "fill"
  /\ UNCHANGED <<request, mem, full, last, cursor>>

NextSegmentThrows ==
  /\ pc = "segment" /\ Len(segments) < Needed
  /\ request.form \in AllocatorThrowsIn
  /\ pc' = "handler"
  /\ UNCHANGED <<request, segments, allocated, mem, full, guard, last, cursor>>

\* opt_copy, one element; batch_deque(n) counts the elements instead of guarding them.
FillOne ==
  /\ pc = "fill" /\ guard.count < CellsToFill
  /\ LET cell == guard.at + guard.count
     IN  mem' = [mem EXCEPT ![At(full)][cell] = Elem(cell)]
  /\ guard' = Extend(guard)
  /\ UNCHANGED <<request, pc, segments, allocated, full, last, cursor>>

FillThrows ==
  /\ pc = "fill" /\ guard.count < CellsToFill
  /\ pc' = IF request.form = "count" THEN "handler" ELSE "unwind"
  /\ UNCHANGED <<request, segments, allocated, mem, full, guard, last, cursor>>

SegmentFilled ==
  /\ pc = "fill" /\ guard.count = CellsToFill
  /\ full' = full + 1
  /\ guard' = Release(guard)
  /\ pc' = "segment"
  /\ UNCHANGED <<request, segments, allocated, mem, last, cursor>>

Complete ==
  /\ pc = "segment" /\ Len(segments) = Needed
  /\ pc' = "done"
  /\ UNCHANGED <<request, segments, allocated, mem, full, guard, last, cursor>>

\* ~construction_guard of opt_copy
Unwind ==
  /\ pc = "unwind"
  /\ IF Spent(guard) THEN pc' = "handler" /\ UNCHANGED <<mem, guard>>
     ELSE /\ mem' = [mem EXCEPT ![At(full)][guard.at] = Raw]
          /\ guard' = AfterOne(guard)
          /\ pc' = pc
  /\ UNCHANGED <<request, segments, allocated, full, last, cursor>>

\* Mutant: the elements of the last segment are forgotten.
CountHandlerWholeSegments ==
  /\ pc = "handler" /\ request.form = "count"
  /\ last' = Advance(Start, full * SegmentSize)
  /\ pc' = "destroy"
  /\ UNCHANGED <<request, segments, allocated, mem, full, guard, cursor>>

\* The handler of batch_deque(n): all elements constructed are between _begin and
\* the new _end.
CountHandler ==
  /\ pc = "handler" /\ request.form = "count"
  /\ last' = Advance(Start, ElementsSoFar)
  /\ pc' = "destroy"
  /\ UNCHANGED <<request, segments, allocated, mem, full, guard, cursor>>

\* Mutant: a copy does not tell its first segment from the others.
EndAfterFailureOfMap(slots) == It(slots, 0)

\* _end after the failure, with so many segments in the map
EndAfterFailure(slots) ==
  IF request.form = "copy" /\ full = 0 THEN Start ELSE It(slots, 0)

\* The handlers of the other two: the last segment of the map is returned first.
\* back() and pop_back() of an empty map are undefined.
RangeHandler ==
  /\ pc = "handler" /\ request.form # "count"
  /\ IF segments = << >>
     THEN pc' = "undefined" /\ UNCHANGED <<segments, allocated, last>>
     ELSE LET rest == SubSeq(segments, 1, Len(segments) - 1)
          IN  /\ allocated' = allocated \ {segments[Len(segments)]}
              /\ segments' = rest
              /\ last' = EndAfterFailure(Len(rest))
              /\ pc' = "destroy"
  /\ UNCHANGED <<request, mem, full, guard, cursor>>

\* destroy_elements(begin(), end()); a position outside of the map is undefined.
DestroyOne ==
  /\ pc = "destroy" /\ cursor # last
  /\ IF cursor.at >= Len(segments)
     THEN pc' = "undefined" /\ UNCHANGED <<mem, cursor>>
     ELSE /\ mem' = [mem EXCEPT ![At(cursor.at)][cursor.index] = Raw]
          /\ cursor' = Increment(cursor)
          /\ pc' = pc
  /\ UNCHANGED <<request, segments, allocated, full, guard, last>>

\* deallocate_segments(), one segment
FreeOne ==
  /\ pc = "destroy" /\ cursor = last /\ segments # << >>
  /\ allocated' = allocated \ {At(0)}
  /\ segments' = SubSeq(segments, 2, Len(segments))
  \* the iterators are not used any more
  /\ UNCHANGED <<request, pc, mem, full, guard, last, cursor>>

Rethrow ==
  /\ pc = "destroy" /\ cursor = last /\ segments = << >>
  /\ pc' = "threw"
  /\ UNCHANGED <<request, segments, allocated, mem, full, guard, last, cursor>>

ConstructStep ==
  \/ NextSegment \/ NextSegmentThrows \/ FillOne \/ FillThrows \/ SegmentFilled \/ Complete
  \/ Unwind \/ CountHandler \/ RangeHandler \/ DestroyOne \/ FreeOne \/ Rethrow

ConstructSpec == ConstructInit /\ [][ConstructStep]_constructVars

-----------------------------------------------------------------------------
\* A segment is returned to the allocator with no object in it.
FreesEmpty == \A s \in allocated \ allocated' : mem[s] = EmptySegment

\* What the caller sees, which at first is nothing, and what the call is to make of it
Nothing ==
  [allocated |-> {}, mem |-> [s \in Segments |-> EmptySegment],
   segments |-> << >>, end |-> It(0, 0)]

Seen ==
  CASE pc = "done"  -> [allocated |-> allocated, mem |-> mem,
                        segments |-> segments, end |-> last]
    [] pc = "threw" -> [allocated |-> allocated, mem |-> mem,
                        segments |-> segments, end |-> It(0, 0)]
    [] OTHER        -> Nothing

Wanted ==
  LET d == Built(Needed, request.index, request.xs)
  IN  [allocated |-> d.allocated, mem |-> d.mem,
       segments |-> [i \in 1 .. d.map.back |-> d.map.slots[i - 1]], end |-> d.end]

=============================================================================
