------------------------------- MODULE Devector -------------------------------
(***************************************************************************)
(* One devector and a caller that may call any member function with any    *)
(* arguments its preconditions allow, in any order.  dv is the object, see *)
(* DevectorOps; call records the latest call as SequenceContract reads it. *)
(*                                                                         *)
(* A call that can throw has two outcomes, one disjunct each: it returns,  *)
(* or an allocation, the growth policy or an element throws.               *)
(***************************************************************************)
EXTENDS DevectorOps

CONSTANTS
  MaxLen,   \* bound: the largest size() a caller brings about
  MaxRange, \* bound: the longest range passed to insert
  Excepted  \* documented promises that are not asked for, of NotKept

\* What is documented and not kept: that these two have no effect if they throw, where
\* moving an element does not throw, and that room which reserve_back made is still
\* there after resize_front reallocated.
NotKept == {"insert", "assign", "resize_front"}

ASSUME BoundsAssumption == MaxLen \in Size /\ MaxRange \in Nat
ASSUME ExceptedAssumption == Excepted \subseteq NotKept

VARIABLES dv, call

vars == <<dv, call>>

\* The ranges of at most n elements
Ranges(n) == UNION {[1 .. m -> Values] : m \in 0 .. n}

Call(op, at, n, xs, out, ret) ==
  [op |-> op, at |-> at, n |-> n, xs |-> xs, out |-> out, ret |-> ret]

\* The call returns; `slot` is where the iterator it returns points.
Returns(op, at, n, xs, after, slot) ==
  /\ dv' = after
  /\ call' = Call(op, at, n, xs, "ok", slot - after.front)

\* The call returns no iterator.
Completes(op, n, xs, after) ==
  /\ dv' = after
  /\ call' = Call(op, 0, n, xs, "ok", 0)

\* The call throws.
Throws(op, at, n, xs, outcomes) ==
  /\ dv' \in outcomes
  /\ call' = Call(op, at, n, xs, "threw", 0)

-----------------------------------------------------------------------------
\* A constructor with `reserve_only_tag`, the default one, or one with elements.
Init ==
  /\ \/ \E m, n \in 0 .. MaxLen : m + n =< MaxSize /\ dv = Reserved(m, n)
     \/ \E xs \in Ranges(MaxLen) : dv = Constructed(xs)
  /\ call = Call("construct", 0, 0, << >>, "ok", 0)

\* emplace_front, push_front and, with free capacity, unsafe_push_front
EmplaceFrontCall(x) ==
  /\ SizeOf(dv) < MaxLen
  /\ \/ /\ EmplaceFrontOk(dv)
        /\ Completes("emplace_front", 1, <<x>>, EmplaceFront(dv, x))
     \/ Throws("emplace_front", 0, 1, <<x>>, {dv})

\* emplace_back, push_back and, with free capacity, unsafe_push_back
EmplaceBackCall(x) ==
  /\ SizeOf(dv) < MaxLen
  /\ \/ /\ EmplaceBackOk(dv)
        /\ Completes("emplace_back", 1, <<x>>, EmplaceBack(dv, x))
     \/ Throws("emplace_back", 0, 1, <<x>>, {dv})

PopFrontCall ==
  /\ SizeOf(dv) > 0
  /\ Completes("pop_front", 1, << >>, PopFront(dv, 1))

PopBackCall ==
  /\ SizeOf(dv) > 0
  /\ Completes("pop_back", 1, << >>, PopBack(dv, 1))

ClearCall == Completes("clear", 0, << >>, Clear(dv))

\* resize_front(sz), resize_front(sz, c)
ResizeFrontCall(sz, x) ==
  /\ sz =< FrontCapacity(dv) \/ sz + BackFree(dv) =< SizeMax
  /\ \/ /\ ResizeFrontOk(dv, sz)
        /\ Completes("resize_front", sz, <<x>>, ResizeFront(dv, sz, x))
     \/ /\ sz > SizeOf(dv)
        /\ Throws("resize_front", 0, sz, <<x>>, {dv})

\* resize, resize_back(sz), resize_back(sz, c)
ResizeBackCall(sz, x) ==
  /\ sz =< BackCapacity(dv) \/ sz + FrontFree(dv) =< SizeMax
  /\ \/ /\ ResizeBackOk(dv, sz)
        /\ Completes("resize_back", sz, <<x>>, ResizeBack(dv, sz, x))
     \/ /\ sz > SizeOf(dv)
        /\ Throws("resize_back", 0, sz, <<x>>, {dv})

ReserveFrontCall(n) ==
  /\ n =< FrontCapacity(dv) \/ n + BackFree(dv) =< SizeMax
  /\ \/ /\ ReserveFrontOk(dv, n)
        /\ Completes("reserve_front", n, << >>, ReserveFront(dv, n))
     \/ /\ n > FrontCapacity(dv)
        /\ Throws("reserve_front", 0, n, << >>, {dv})

\* reserve, reserve_back
ReserveBackCall(n) ==
  /\ n =< BackCapacity(dv) \/ n + FrontFree(dv) =< SizeMax
  /\ \/ /\ ReserveBackOk(dv, n)
        /\ Completes("reserve_back", n, << >>, ReserveBack(dv, n))
     \/ /\ n > BackCapacity(dv)
        /\ Throws("reserve_back", 0, n, << >>, {dv})

ShrinkToFitCall ==
  \/ Completes("shrink_to_fit", 0, << >>, ShrinkToFit(dv))
  \/ /\ ShrinkToFit(dv) # dv
     /\ Throws("shrink_to_fit", 0, 0, << >>, {dv})

\* emplace(pos, args), insert(pos, x)
EmplaceCall(index, x) ==
  /\ SizeOf(dv) < MaxLen
  /\ \/ /\ EmplaceOk(dv)
        /\ Returns("insert", index, 1, <<x>>, Emplace(dv, index, x),
                   EmplaceReturns(dv, index))
     \/ Throws("insert", index, 1, <<x>>, EmplaceThrew(dv, index))

\* insert(pos, first, last), insert(pos, n, x), insert(pos, il)
InsertCall(index, xs) ==
  /\ SizeOf(dv) + Len(xs) =< MaxLen
  /\ FreeSlots(dv) >= Len(xs) \/ dv.cap + Len(xs) =< SizeMax
  /\ \/ /\ InsertRangeOk(dv, Len(xs))
        /\ Returns("insert", index, Len(xs), xs, InsertRange(dv, index, xs),
                   InsertReturns(dv, index, xs))
     \/ Throws("insert", index, Len(xs), xs, InsertRangeThrew(dv, index, xs))

\* erase(pos), erase(first, last)
EraseCall(index, n) ==
  LET first == dv.front + index
      last  == first + n
  IN  \/ Returns("erase", index, n, << >>, EraseRange(dv, first, last),
                 EraseReturns(dv, first, last))
      \/ Throws("erase", index, n, << >>, EraseThrew(dv, first, last))

\* assign(first, last), assign(n, u), assign(il)
AssignCall(xs) ==
  \/ /\ AssignOk(dv, Len(xs))
     /\ Completes("assign", Len(xs), xs, Assign(dv, xs))
  \/ Throws("assign", 0, Len(xs), xs, AssignThrew(dv, xs))

Next ==
  \/ \E x \in Values :
       \/ EmplaceFrontCall(x)
       \/ EmplaceBackCall(x)
       \/ \E sz \in 0 .. MaxLen : ResizeFrontCall(sz, x) \/ ResizeBackCall(sz, x)
       \/ \E index \in 0 .. SizeOf(dv) : EmplaceCall(index, x)
  \/ PopFrontCall
  \/ PopBackCall
  \/ ClearCall
  \/ \E n \in Size : ReserveFrontCall(n) \/ ReserveBackCall(n)
  \/ ShrinkToFitCall
  \/ \E index \in 0 .. SizeOf(dv), xs \in Ranges(MaxRange) : InsertCall(index, xs)
  \/ \E index \in 0 .. SizeOf(dv), n \in 0 .. SizeOf(dv) :
       index + n =< SizeOf(dv) /\ EraseCall(index, n)
  \/ \E xs \in Ranges(MaxLen) : AssignCall(xs)

Spec == Init /\ [][Next]_vars

-----------------------------------------------------------------------------
\* Every data member has its type, and the latest call returned or threw.
TypeOK ==
  /\ dv \in DevectorType
  /\ call.out \in {"ok", "threw"}

\* After every call, one that threw included, devector::invariants_ok() holds and
\* the destructor and the next reallocation hand _buffer to the allocator exactly
\* if it came from there.
WellFormed == InvariantsOk(dv) /\ BufferMatches(dv)

\* After every call the slots between _front_index and _back_index hold objects
\* and no other slot does: no call leaks an element, destroys one twice, reads or
\* assigns to raw memory that it leaves inside the indices.
ObjectsLive == LiveExactly(dv)

Contract == INSTANCE SequenceContract WITH
              Element <- Object, GrowsByPushing <- FALSE, SegmentSize <- 1,
              seq <- Contents(dv), offset <- 0

\* The elements from begin() to end(), and the iterator returned, are what the
\* documentation promises of the call, whatever path the code took through the free
\* slots on both sides; a call that threw had no effect, unless it is Excepted.  With
\* insert and assign Excepted this is less than the documentation promises of the two:
\* an insertion may keep a first part of its range, an assignment what it replaced.
ImplementsContract == Contract!Spec

\* An operation at the ends that does not reallocate moves no element: pointers and
\* iterators to the elements that stay are good ("Invalidates iterators if
\* reallocation is needed"), the ones into the middle included.
AtEnds == {"emplace_front", "emplace_back", "pop_front", "pop_back",
           "resize_front", "resize_back", "reserve_front", "reserve_back"}

EndsMoveNothing ==
  [][call'.op \in AtEnds /\ dv'.cap = dv.cap =>
       \A a \in Address :
         dv.slots[a] # Raw /\ dv'.slots[a] # Raw => dv'.slots[a] = dv.slots[a]]_vars

\* Basic exception guarantee, when even moving an element can throw: the object is
\* still one that can be used and destroyed, every element of it is an object.
BasicGuarantee ==
  /\ WellFormed
  /\ \A a \in Address : dv.front =< a /\ a < dv.back => dv.slots[a] # Raw

=============================================================================
