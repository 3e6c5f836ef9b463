------------------------------ MODULE BatchDeque ------------------------------
(***************************************************************************)
(* One batch_deque and a caller that may call any member function with any *)
(* arguments its preconditions allow, in any order.  dq is the object, see *)
(* BatchDequeOps; call records the latest call as SequenceContract reads   *)
(* it.                                                                     *)
(*                                                                         *)
(* A call that can throw has two outcomes, one disjunct each: it returns,  *)
(* or the allocator of the map, that of the segments, or an element throws.*)
(***************************************************************************)
EXTENDS BatchDequeOps

CONSTANTS
  MaxLen,         \* bound: the largest size() a caller brings about by pushing
  MaxRange,       \* bound: the longest range passed to insert or stable_insert
  MaxStable,      \* bound: the largest size() brought about by stable_insert
  Calls,          \* bound: the operations the caller uses
  Excepted        \* documented promises that are not asked for, of NotKept

\* What is documented and not kept: that these have no effect if they throw, where
\* moving an element does not throw, and that stable_insert fills one segment at most.
NotKept == {"insert", "stable_insert", "assign"}

ASSUME BoundsAssumption == {MaxLen, MaxRange, MaxStable} \subseteq Nat
ASSUME ExceptedAssumption == Excepted \subseteq NotKept

VARIABLES dq, call

vars == <<dq, call>>

\* The ranges of at most n elements
Ranges(n) == UNION {[1 .. m -> Values] : m \in 0 .. n}

Call(op, at, n, xs, out, ret) ==
  [op |-> op, at |-> at, n |-> n, xs |-> xs, out |-> out, ret |-> ret]

\* The call returns an iterator to the element at place ret.
Returns(op, at, n, xs, outcomes, ret) ==
  /\ op \in Calls
  /\ dq' \in outcomes
  /\ call' = Call(op, at, n, xs, "ok", ret)

\* The call returns no iterator.
Completes(op, n, xs, outcomes) == Returns(op, 0, n, xs, outcomes, 0)

\* The call throws.
Throws(op, at, n, xs, outcomes) ==
  /\ op \in Calls
  /\ dq' \in outcomes
  /\ call' = Call(op, at, n, xs, "threw", 0)

-----------------------------------------------------------------------------
\* Any constructor that returns; a copy has its elements where the original had them.
Init ==
  /\ \E xs \in Ranges(MaxLen) :
       \/ SegmentCount(Len(xs)) =< MaxSegments /\ dq = Constructed(xs)
       \/ \E index \in Indices :
            /\ SegmentCount(index + Len(xs)) =< MaxSegments
            /\ dq = Built(MaxSegments, index, xs)
  /\ call = Call("construct", 0, 0, << >>, "ok", 0)

\* emplace_front, push_front and, with free capacity, unsafe_push_front
EmplaceFrontCall(x) ==
  /\ SizeOf(dq) < MaxLen
  /\ \/ /\ EmplaceFrontOk(dq)
        /\ Completes("emplace_front", 1, <<x>>, {EmplaceFront(dq, x)})
     \/ Throws("emplace_front", 0, 1, <<x>>, EmplaceFrontThrew(dq))

\* emplace_back, push_back and, with free capacity, unsafe_push_back
EmplaceBackCall(x) ==
  /\ SizeOf(dq) < MaxLen
  /\ \/ /\ EmplaceBackOk(dq)
        /\ Completes("emplace_back", 1, <<x>>, {EmplaceBack(dq, x)})
     \/ Throws("emplace_back", 0, 1, <<x>>, EmplaceBackThrew(dq))

PopFrontCall ==
  /\ dq.begin # dq.end
  /\ Completes("pop_front", 1, << >>, {PopFront(dq)})

PopBackCall ==
  /\ dq.begin # dq.end
  /\ Completes("pop_back", 1, << >>, {PopBack(dq)})

ClearCall == Completes("clear", 0, << >>, {Clear(dq)})

\* resize_front(sz), resize_front(sz, c)
ResizeFrontCall(sz, x) ==
  \/ Completes("resize_front", sz, <<x>>, ResizeFront(dq, sz, x))
  \/ /\ sz > SizeOf(dq)
     /\ Throws("resize_front", 0, sz, <<x>>, ResizeFrontThrew(dq, sz, x))

\* resize, resize_back(sz), resize_back(sz, c)
ResizeBackCall(sz, x) ==
  \/ Completes("resize_back", sz, <<x>>, ResizeBack(dq, sz, x))
  \/ /\ sz > SizeOf(dq)
     /\ Throws("resize_back", 0, sz, <<x>>, ResizeBackThrew(dq, sz, x))

ReserveFrontCall(n) ==
  \/ Completes("reserve_front", n, << >>, ReserveFront(dq, n))
  \/ Throws("reserve_front", 0, n, << >>, ReserveFrontThrew(dq, n))

\* reserve, reserve_back
ReserveBackCall(n) ==
  \/ Completes("reserve_back", n, << >>, ReserveBack(dq, n))
  \/ Throws("reserve_back", 0, n, << >>, ReserveBackThrew(dq, n))

ShrinkToFitCall == Completes("shrink_to_fit", 0, << >>, {ShrinkToFit(dq)})

\* emplace(pos, args), insert(pos, x)
EmplaceCall(index, x) ==
  /\ SizeOf(dq) < MaxLen
  /\ \/ /\ EmplaceOk(dq, index)
        /\ Returns("insert", index, 1, <<x>>, {Emplace(dq, index, x)}, index)
     \/ Throws("insert", index, 1, <<x>>, EmplaceThrew(dq, index, x))

\* insert(pos, first, last), insert(pos, n, x), insert(pos, il)
InsertCall(index, xs, bidirectional) ==
  /\ SizeOf(dq) + Len(xs) =< MaxLen
  /\ \/ Returns("insert", index, Len(xs), xs,
                InsertRange(dq, index, xs, bidirectional), index)
     \/ Throws("insert", index, Len(xs), xs,
               InsertRangeThrew(dq, index, xs, bidirectional))

\* insert(pos, n, x) with x the i-th element
InsertAliasedCall(index, n, i) ==
  /\ SizeOf(dq) + n =< MaxLen
  /\ Returns("insert", index, n, Copies(n, Contents(dq)[i]),
             InsertAliased(dq, index, n, i), index)

StableInsertCall(index, xs, bidirectional) ==
  LET after == StableInsert(dq, index, xs, bidirectional)
  IN  /\ \A e \in after : SizeOf(e) =< MaxStable
      /\ \/ Returns("stable_insert", index, Len(xs), xs, after,
                    StablePosition(dq, index))
         \/ Throws("stable_insert", index, Len(xs), xs,
                   StableInsertThrew(dq, index, xs, bidirectional))

\* erase(pos), erase(first, last)
EraseCall(index, n) ==
  \/ Returns("erase", index, n, << >>, {EraseRange(dq, index, n)}, index)
  \/ Throws("erase", index, n, << >>, EraseThrew(dq, index, n))

\* assign(first, last), assign(n, u), assign(il), assignment of an initializer list;
\* `bytes`: the overload that copies trivially copyable elements.  Where the assertion
\* of overwrite_buffer fails there is no state after the call.
AssignCall(xs, bytes) ==
  /\ bytes => ~ShiftMayThrow
  /\ BeginsInFirstSegment(dq) \/ (~bytes /\ dq.begin = dq.end)
  /\ \/ Completes("assign", Len(xs), xs, Assign(dq, xs, bytes))
     \/ Throws("assign", 0, Len(xs), xs, AssignThrew(dq, xs, bytes))

Next ==
  \/ \E x \in Values :
       \/ EmplaceFrontCall(x)
       \/ EmplaceBackCall(x)
       \/ \E sz \in 0 .. MaxLen : ResizeFrontCall(sz, x) \/ ResizeBackCall(sz, x)
       \/ \E index \in 0 .. SizeOf(dq) : EmplaceCall(index, x)
  \/ PopFrontCall
  \/ PopBackCall
  \/ ClearCall
  \/ \E n \in 0 .. MaxSegments * SegmentSize : ReserveFrontCall(n) \/ ReserveBackCall(n)
  \/ ShrinkToFitCall
  \/ \E index \in 0 .. SizeOf(dq), xs \in Ranges(MaxRange), b \in BOOLEAN :
       InsertCall(index, xs, b) \/ StableInsertCall(index, xs, b)
  \/ \E index \in 0 .. SizeOf(dq), n \in 1 .. MaxRange, i \in 1 .. SizeOf(dq) :
       InsertAliasedCall(index, n, i)
  \/ \E index \in 0 .. SizeOf(dq), n \in 0 .. SizeOf(dq) :
       index + n =< SizeOf(dq) /\ EraseCall(index, n)
  \/ \E xs \in Ranges(MaxLen), bytes \in BOOLEAN : AssignCall(xs, bytes)

Spec == Init /\ [][Next]_vars

-----------------------------------------------------------------------------
\* Every data member has its type, and the latest call returned or threw.
TypeOK ==
  /\ dq \in DequeType
  /\ call.out \in {"ok", "threw"}

\* After every call, one that threw included, batch_deque::invariants_ok() holds, the
\* map's own invariant too, and the end iterator never points into a segment that is
\* not there: whatever moved the map's slots has brought both iterators along.
WellFormed ==
  /\ InvariantsOk(dq) /\ Map!InvariantsOk(dq.map)
  /\ dq.end.at = dq.map.back => dq.end.index = 0

\* After every call each segment obtained from the allocator is in the map once, and
\* the map holds nothing else: none leaks, none is freed twice.
EachSegmentOnce == SegmentsOwned(dq)

\* After every call the cells from begin to end hold objects, and no other cell of any
\* segment, freed ones included, does: no element leaks or is destroyed twice.
ObjectsLive == LiveExactly(dq)

\* Whatever the elements' place in the segments, a jump of either sign from any of
\* them to any other, the end included, is the one iterator of that place, and so is
\* a step: equal() compares the two members.  distance_to gives back the length of the
\* jump, also where it is negative: the order of iterators is that of the elements.
At(p) == It(p \div SegmentSize, p % SegmentSize)

IteratorIsPosition ==
  \A p, q \in First(dq) .. Past(dq) :
    /\ Advance(At(p), q - p) = At(q)
    /\ DistanceTo(At(p), At(q)) = q - p
    /\ q = p + 1 => Increment(At(p)) = At(q) /\ Decrement(At(q)) = At(p)

\* Iterating over the segments, forward and backward, visits each element once: data()
\* and data_size() of a segment iterator are the elements in its segment and nothing
\* else, in the first and the last segment too.
SegmentIsItsElements ==
  LET last == SegmentEnd(dq.end).at - dq.begin.at
      forward[k \in 0 .. last] ==
        IF k = 0 THEN SegmentBegin(dq.begin) ELSE SegmentIncrement(forward[k - 1])
      backward[k \in 0 .. last] ==
        IF k = last THEN SegmentEnd(dq.end)
        ELSE SegmentDecrement(backward[k + 1], dq.begin)
      inSegment(a) == {p \in First(dq) .. Past(dq) - 1 : p \div SegmentSize = a}
  IN  \A k \in 0 .. last :
        /\ forward[k] = backward[k]
        /\ k < last => SegmentData(forward[k], dq.end) = inSegment(dq.begin.at + k)
        /\ k > 0 => SegmentAdvance(forward[0], k) = forward[k]

Contract == INSTANCE SequenceContract WITH
              Element <- Object, GrowsByPushing <- TRUE,
              seq <- Contents(dq), offset <- dq.begin.index

\* The elements from begin() to end() and the iterator returned are what the
\* documentation promises of the call, for every way the segments, the free capacity
\* at both ends and the map may lie; a call that threw had no effect, unless it is
\* Excepted.  With insert, stable_insert and assign Excepted this is less than the
\* documentation promises of them: an insertion may keep what it pushed to an end, an
\* assignment what it replaced, and stable_insert may add more than fills a segment.
ImplementsContract == Contract!Spec

\* Operations at the ends, also when the map is reallocated, leave every element that
\* stays at its address ("thus avoiding moving or copying each element upon
\* reallocation"); so does stable_insert between two segments.
AtEnds == {"emplace_front", "emplace_back", "pop_front", "pop_back", "resize_front",
           "resize_back", "reserve_front", "reserve_back", "shrink_to_fit"}

\* The first elements of the two sequences are the same, or the last ones; of the
\* shorter one, all of them.
SameAtAnEnd(old, new) ==
  LET m == Smaller(Len(old), Len(new))
      LastOf(s) == SubSeq(s, Len(s) - m + 1, Len(s))
  IN  SubSeq(new, 1, m) = SubSeq(old, 1, m) \/ LastOf(new) = LastOf(old)

ElementsStay ==
  [][LET old == Addresses(dq)
         new == Addresses(dq')
     IN  /\ call'.op \in AtEnds => SameAtAnEnd(old, new)
         /\ call'.op = "stable_insert" /\ call'.out = "ok"
              /\ (call'.ret > 0 \/ Len(call'.xs) = 0) =>
              \A i \in DOMAIN old : \E j \in DOMAIN new : new[j] = old[i]]_vars

\* Basic exception guarantee, when moving or assigning an element can throw too: the
\* object can still be used and destroyed, its segments are owned, every element of
\* it is an object.
BasicGuarantee ==
  /\ WellFormed
  /\ EachSegmentOnce
  /\ \A p \in First(dq) .. Past(dq) - 1 : Cell(dq, p) # Raw

=============================================================================
