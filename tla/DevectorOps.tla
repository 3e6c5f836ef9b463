----------------------------- MODULE DevectorOps -----------------------------
(***************************************************************************)
(* The member functions of boost::double_ended::devector, as operators on  *)
(* one devector object.  An object is a record with the four data members  *)
(* of the class and the memory the elements live in:                       *)
(*                                                                         *)
(*   cap    _storage._capacity            front  _front_index              *)
(*   back   _back_index                   buf    what _buffer points to:   *)
(*   slots  what each slot of _buffer            "small" (the buffer       *)
(*          holds                                inside the object, the    *)
(*                                               null pointer when there   *)
(*                                               is none) or "heap"        *)
(*                                                                         *)
(* A slot holds an object, or is Raw: allocated, with no object in it.     *)
(* Unspec stands for an object that was moved from: alive, of no known     *)
(* value.                                                                  *)
(*                                                                         *)
(* Each operation Op(d, ...) is the object after the call.  For one that   *)
(* can throw, OpThrew(d, ...) is the set of the objects the call can leave *)
(* behind when an element's constructor, the allocator or, if              *)
(* ShiftMayThrow, an assignment throws.                                    *)
(***************************************************************************)
EXTENDS Integers, Sequences

CONSTANTS
  Values,             \* what the caller stores
  Raw,                \* a slot without an object
  Unspec,             \* an object of unspecified value
  SBuf,               \* SmallBufferPolicy::size
  SizeMax,            \* the largest value of size_type
  MaxSize,            \* max_size(): min(max_size of the allocator, SizeMax)
  NewCapacity,        \* GrowthPolicy::new_capacity, as a function
  ShouldShrink(_, _), \* GrowthPolicy::should_shrink(size, capacity)
  SelfMoveKeeps,      \* `x = std::move(x)` leaves the value of x alone
  ShiftMayThrow       \* moving or assigning an element can throw

Size    == 0 .. MaxSize
Address == 0 .. MaxSize - 1
Object  == Values \cup {Unspec}
Slot    == Object \cup {Raw}

\* The policy may return any size_type, 4 * capacity wrapped around included;
\* at the very largest size_type it must not claim that nothing has to grow.
ASSUME SizesAssumption ==
  /\ SizeMax \in Nat /\ MaxSize \in Nat /\ MaxSize =< SizeMax
  /\ SBuf \in Size
  /\ NewCapacity \in [Size -> 0 .. SizeMax]
  /\ MaxSize = SizeMax => NewCapacity[MaxSize] # MaxSize
  /\ \A s, c \in Size : ShouldShrink(s, c) \in BOOLEAN
  /\ SelfMoveKeeps \in BOOLEAN
  /\ ShiftMayThrow \in BOOLEAN

ASSUME MarkersAssumption ==
  /\ Raw \notin Values \cup {Unspec}
  /\ Unspec \notin Values

DevectorType ==
  [cap : Size, front : Size, back : Size,
   slots : [Address -> Slot], buf : {"small", "heap"}]

-----------------------------------------------------------------------------
\* Observers

SizeOf(d)        == d.back - d.front
FrontFree(d)     == d.front
BackFree(d)      == d.cap - d.back
FrontCapacity(d) == d.back
BackCapacity(d)  == d.cap - d.front

\* The sequence from begin() to end().
Contents(d) == [i \in 1 .. SizeOf(d) |-> d.slots[d.front + i - 1]]

IsSmall(d) == SBuf > 0 /\ d.cap =< SBuf

\* _buffer is not null.
HasBuffer(d) == d.buf = "heap" \/ SBuf > 0

\* deallocate_buffer() would hand _buffer to the allocator.
MustFree(d) == ~IsSmall(d) /\ HasBuffer(d)

\* devector::invariants_ok()
InvariantsOk(d) ==
  /\ d.cap > 0 => HasBuffer(d)
  /\ d.front =< d.back
  /\ d.back =< d.cap
  /\ SBuf =< d.cap

\* What the asserts do not see: the buffer is freed exactly if it was allocated.
BufferMatches(d) == d.buf = "heap" <=> MustFree(d)

\* The slots between the indices hold objects, no other slot does: every object
\* is destroyed once, and none is destroyed that was not constructed.
LiveExactly(d) ==
  \A a \in Address : d.slots[a] # Raw <=> d.front =< a /\ a < d.back

-----------------------------------------------------------------------------
\* Memory

NoObjects == [a \in Address |-> Raw]

\* Construct, or copy assign, the elements of xs from slot `at` on.
Put(s, at, xs) ==
  [a \in Address |->
     IF at =< a /\ a < at + Len(xs) THEN xs[a - at + 1] ELSE s[a]]

\* destroy_elements(lo, hi)
Destroy(s, lo, hi) ==
  [a \in Address |-> IF lo =< a /\ a < hi THEN Raw ELSE s[a]]

\* opt_move_or_copy: the objects lo .. hi-1 of one buffer, constructed again
\* from slot `at` of another one.
Transfer(src, lo, hi, dst, at) ==
  [a \in Address |->
     IF at =< a /\ a < at + (hi - lo) THEN src[lo + (a - at)] ELSE dst[a]]

\* std::move, std::move_backward, move_if_noexcept and move_if_noexcept_backward
\* within a buffer: the objects lo .. hi-1 go to `at` .. at+(hi-lo)-1, in the
\* order that reads each before it is written.  What they leave is moved from.
Slide(s, lo, hi, at) ==
  IF at = lo
  THEN [a \in Address |->
          IF lo =< a /\ a < hi /\ ~SelfMoveKeeps THEN Unspec ELSE s[a]]
  ELSE [a \in Address |->
          IF at =< a /\ a < at + (hi - lo) THEN s[lo + (a - at)]
          ELSE IF lo =< a /\ a < hi THEN Unspec ELSE s[a]]

\* std::rotate(lo, mid, hi)
Rotate(s, lo, mid, hi) ==
  [a \in Address |->
     IF lo =< a /\ a < hi
     THEN s[IF a + (mid - lo) < hi THEN a + (mid - lo) ELSE a - (hi - mid)]
     ELSE s[a]]

\* Some of the moves of lo .. hi-1 were done when one threw.
Scramble(s, lo, hi) ==
  [a \in Address |-> IF lo =< a /\ a < hi THEN Unspec ELSE s[a]]

\* n copies of x
Copies(n, x) == [i \in 1 .. n |-> x]

FirstOf(xs, n) == SubSeq(xs, 1, n)
Without(xs, n) == SubSeq(xs, n + 1, Len(xs))

-----------------------------------------------------------------------------
\* Capacity

Larger(m, n)  == IF m > n THEN m ELSE n
Smaller(m, n) == IF m < n THEN m ELSE n

\* The sum of two size_types.
Wrap(n) == IF n > SizeMax THEN n - (SizeMax + 1) ELSE n

\* calculate_new_capacity(requested)
CalculateNewCapacity(d, requested) ==
  Larger(Wrap(requested), NewCapacity[d.cap])

\* Mutant: calculate_new_capacity without the overflow check.
CapacityOkUnchecked(d, requested) ==
  CalculateNewCapacity(d, requested) =< MaxSize

\* calculate_new_capacity(requested) does not throw length_error.
CapacityOk(d, requested) ==
  LET new == CalculateNewCapacity(d, requested)
  IN  new =< MaxSize /\ new >= d.cap

\* allocate(capacity)
BufferFor(capacity) == IF capacity =< SBuf THEN "small" ELSE "heap"

-----------------------------------------------------------------------------
\* Constructors

\* devector(front_cap, back_cap, reserve_only_tag); with (0, 0) the default one
Reserved(frontCap, backCap) ==
  LET cap == Larger(frontCap + backCap, SBuf)
  IN  [cap |-> cap, front |-> frontCap, back |-> frontCap,
       slots |-> NoObjects, buf |-> BufferFor(cap)]

\* devector(first, last), devector(n, value)
Constructed(xs) ==
  LET cap == Larger(Len(xs), SBuf)
  IN  [cap |-> cap, front |-> 0, back |-> Len(xs),
       slots |-> Put(NoObjects, 0, xs), buf |-> BufferFor(cap)]

-----------------------------------------------------------------------------
\* Reallocation

\* Mutant: making room at the front, the free slots at the back are given up.
InsertReallocatingUpToTheEnd(d, makeFrontFree, index, xs) ==
  LET newCap   == CalculateNewCapacity(d, d.cap + Len(xs))
      newFront == IF makeFrontFree THEN newCap - SizeOf(d) - Len(xs)
                  ELSE d.front
      new      == Put(NoObjects, newFront + index, xs)
      half     == Transfer(d.slots, d.front, d.front + index, new, newFront)
  IN  [cap |-> newCap, front |-> newFront,
       back |-> newFront + SizeOf(d) + Len(xs),
       slots |-> Transfer(d.slots, d.front + index, d.back, half,
                          newFront + index + Len(xs)),
       buf |-> BufferFor(newCap)]

\* emplace_reallocating_slow_path (one element) and
\* insert_range_reallocating_slow_path: xs before the element at `index`
InsertReallocating(d, makeFrontFree, index, xs) ==
  LET newCap      == CalculateNewCapacity(d, d.cap + Len(xs))
      newFront    == IF makeFrontFree
                     THEN newCap - BackFree(d) - SizeOf(d) - Len(xs)
                     ELSE d.front
      newPosition == newFront + index
      oldPosition == d.front + index
      new         == Put(NoObjects, newPosition, xs)
      firstHalf   == Transfer(d.slots, d.front, oldPosition, new, newFront)
      bothHalves  == Transfer(d.slots, oldPosition, d.back,
                              firstHalf, newPosition + Len(xs))
  IN  [cap |-> newCap, front |-> newFront,
       back |-> newFront + SizeOf(d) + Len(xs),
       slots |-> bothHalves, buf |-> BufferFor(newCap)]

InsertReallocatingOk(d, n) == CapacityOk(d, d.cap + n)

\* reallocate_at(new_capacity, buffer_offset)
ReallocateAt(d, newCap, offset) ==
  [cap |-> newCap, front |-> offset, back |-> offset + SizeOf(d),
   slots |-> Transfer(d.slots, d.front, d.back, NoObjects, offset),
   buf |-> BufferFor(newCap)]

ReserveFront(d, n) ==
  IF FrontCapacity(d) >= n THEN d
  ELSE ReallocateAt(d, Wrap(n + BackFree(d)), n - SizeOf(d))

\* Mutant: room for n elements in all is made in the buffer at hand, by moving
\* the elements to its start.
ReserveBackInPlace(d, n) ==
  IF BackCapacity(d) >= n THEN d
  ELSE IF d.cap >= n THEN ReallocateAt(d, d.cap, 0)
  ELSE ReallocateAt(d, Wrap(n + FrontFree(d)), d.front)

ReserveBack(d, n) ==
  IF BackCapacity(d) >= n THEN d
  ELSE ReallocateAt(d, Wrap(n + FrontFree(d)), d.front)

\* The allocator refuses what no buffer can hold.
ReserveFrontOk(d, n) == FrontCapacity(d) >= n \/ n + BackFree(d) =< MaxSize
ReserveBackOk(d, n)  == BackCapacity(d) >= n \/ n + FrontFree(d) =< MaxSize

\* Mutant: back in the small buffer, _capacity is that of the old buffer.
ShrinkToFitOldCapacity(d) ==
  IF ~ShouldShrink(SizeOf(d), d.cap) \/ IsSmall(d) THEN d
  ELSE IF SizeOf(d) =< SBuf
  THEN [cap |-> d.cap, front |-> 0, back |-> SizeOf(d),
        slots |-> Transfer(d.slots, d.front, d.back, NoObjects, 0),
        buf |-> "small"]
  ELSE ReallocateAt(d, SizeOf(d), 0)

ShrinkToFit(d) ==
  IF ~ShouldShrink(SizeOf(d), d.cap) \/ IsSmall(d) THEN d
  ELSE IF SizeOf(d) =< SBuf
  THEN [cap |-> SBuf, front |-> 0, back |-> SizeOf(d),
        slots |-> Transfer(d.slots, d.front, d.back, NoObjects, 0),
        buf |-> "small"]
  ELSE ReallocateAt(d, SizeOf(d), 0)

-----------------------------------------------------------------------------
\* Both ends

PutFront(d, xs) ==
  [d EXCEPT !.slots = Put(@, d.front - Len(xs), xs), !.front = @ - Len(xs)]

PutBack(d, xs) ==
  [d EXCEPT !.slots = Put(@, d.back, xs), !.back = @ + Len(xs)]

EmplaceFront(d, x) ==
  IF FrontFree(d) > 0 THEN PutFront(d, <<x>>)
  ELSE InsertReallocating(d, TRUE, 0, <<x>>)

EmplaceBack(d, x) ==
  IF BackFree(d) > 0 THEN PutBack(d, <<x>>)
  ELSE InsertReallocating(d, FALSE, SizeOf(d), <<x>>)

EmplaceFrontOk(d) == FrontFree(d) > 0 \/ InsertReallocatingOk(d, 1)
EmplaceBackOk(d)  == BackFree(d) > 0 \/ InsertReallocatingOk(d, 1)

\* pop_front and pop_back, n times
PopFront(d, n) ==
  [d EXCEPT !.slots = Destroy(@, d.front, d.front + n), !.front = @ + n]

PopBack(d, n) ==
  [d EXCEPT !.slots = Destroy(@, d.back - n, d.back), !.back = @ - n]

Clear(d) ==
  [d EXCEPT !.slots = Destroy(@, d.front, d.back), !.front = 0, !.back = 0]

\* resize_front_slow_path: the old elements end at the end of the new buffer.
ResizeFrontSlowPath(d, sz, xs) ==
  LET newCap == CalculateNewCapacity(d, sz + BackFree(d))
      oldAt  == newCap - SizeOf(d)
      newAt  == oldAt - Len(xs)
  IN  [cap |-> newCap, front |-> newAt, back |-> oldAt + SizeOf(d),
       slots |-> Transfer(d.slots, d.front, d.back,
                          Put(NoObjects, newAt, xs), oldAt),
       buf |-> BufferFor(newCap)]

\* resize_back_slow_path: everything keeps its index.
ResizeBackSlowPath(d, sz, xs) ==
  LET newCap == CalculateNewCapacity(d, sz + FrontFree(d))
  IN  [cap |-> newCap, front |-> d.front, back |-> d.back + Len(xs),
       slots |-> Transfer(d.slots, d.front, d.back,
                          Put(NoObjects, d.back, xs), d.front),
       buf |-> BufferFor(newCap)]

ResizeFront(d, sz, x) ==
  LET xs == Copies(sz - SizeOf(d), x)
  IN  IF sz =< SizeOf(d) THEN PopFront(d, SizeOf(d) - sz)
      ELSE IF sz =< FrontCapacity(d) THEN PutFront(d, xs)
      ELSE ResizeFrontSlowPath(d, sz, xs)

ResizeBack(d, sz, x) ==
  LET xs == Copies(sz - SizeOf(d), x)
  IN  IF sz =< SizeOf(d) THEN PopBack(d, SizeOf(d) - sz)
      ELSE IF sz =< BackCapacity(d) THEN PutBack(d, xs)
      ELSE ResizeBackSlowPath(d, sz, xs)

ResizeFrontOk(d, sz) ==
  sz =< FrontCapacity(d) \/ CapacityOk(d, sz + BackFree(d))

ResizeBackOk(d, sz) ==
  sz =< BackCapacity(d) \/ CapacityOk(d, sz + FrontFree(d))

-----------------------------------------------------------------------------
\* unsafe_uninitialized_resize_front and _back: a new element is Raw, and one that is
\* removed is not destroyed.

UnsafeGrowFront(d, n) ==
  LET need == n - SizeOf(d)
      room == IF need > FrontFree(d)
              THEN ReallocateAt(d, Wrap(n + BackFree(d)), need) ELSE d
  IN  [room EXCEPT !.front = @ - need]

UnsafeGrowBack(d, n) ==
  LET need == n - SizeOf(d)
      room == IF need > BackFree(d)
              THEN ReallocateAt(d, Wrap(n + FrontFree(d)), FrontFree(d)) ELSE d
  IN  [room EXCEPT !.back = @ + need]

UnsafeShrinkFront(d, n) == [d EXCEPT !.front = @ + (SizeOf(d) - n)]

\* Mutant: the elements are removed at the front.
UnsafeShrinkBackAtFront(d, n) == UnsafeShrinkFront(d, n)

UnsafeShrinkBack(d, n) == [d EXCEPT !.back = @ - (SizeOf(d) - n)]

UnsafeResizeFront(d, n) ==
  IF n > SizeOf(d) THEN UnsafeGrowFront(d, n) ELSE UnsafeShrinkFront(d, n)
UnsafeResizeBack(d, n) ==
  IF n > SizeOf(d) THEN UnsafeGrowBack(d, n) ELSE UnsafeShrinkBack(d, n)

UnsafeResizeFrontOk(d, n) ==
  n =< FrontCapacity(d) \/ n + BackFree(d) =< MaxSize
UnsafeResizeBackOk(d, n) ==
  n =< BackCapacity(d) \/ n + FrontFree(d) =< MaxSize

-----------------------------------------------------------------------------
\* Insertion.  Positions are absolute: slots of the buffer, as the iterators are.

PreferMoveFront(d, index) == 2 * index =< SizeOf(d)

\* emplace_slow_path, the first branch: the elements before `position` one slot
\* down, the first of them constructed in the free slot, then x assigned.
EmplaceNearFront(d, position, x) ==
  [d EXCEPT !.slots = Put(Slide(@, d.front, position, d.front - 1),
                          position - 1, <<x>>),
            !.front = @ - 1]

\* The second branch: the elements from `position` on one slot up.
EmplaceNearBack(d, position, x) ==
  [d EXCEPT !.slots = Put(Slide(@, position, d.back, position + 1),
                          position, <<x>>),
            !.back = @ + 1]

EmplaceMovesFront(d, index) ==
  FrontFree(d) > 0 /\ (BackFree(d) = 0 \/ PreferMoveFront(d, index))

\* emplace(begin() + index, x)
Emplace(d, index, x) ==
  IF index = SizeOf(d) /\ BackFree(d) > 0 THEN PutBack(d, <<x>>)
  ELSE IF index = 0 /\ FrontFree(d) > 0 THEN PutFront(d, <<x>>)
  ELSE IF EmplaceMovesFront(d, index)
  THEN EmplaceNearFront(d, d.front + index, x)
  ELSE IF BackFree(d) > 0 THEN EmplaceNearBack(d, d.front + index, x)
  ELSE InsertReallocating(d, PreferMoveFront(d, index), index, <<x>>)

\* The slot the iterator it returns points to.
EmplaceReturns(d, index) ==
  IF index = SizeOf(d) /\ BackFree(d) > 0 THEN d.back
  ELSE IF index = 0 /\ FrontFree(d) > 0 THEN d.front - 1
  ELSE IF EmplaceMovesFront(d, index) THEN d.front + index - 1
  ELSE IF BackFree(d) > 0 THEN d.front + index
  ELSE Emplace(d, index, Unspec).front + index

EmplaceOk(d) ==
  FrontFree(d) > 0 \/ BackFree(d) > 0 \/ InsertReallocatingOk(d, 1)

\* The first construction is the one that throws, or ("no guard") a later move:
\* the object constructed in the free slot is then outside of the indices.
EmplaceThrew(d, index) ==
  LET position == d.front + index
      leakFront == {[d EXCEPT !.slots = Slide(@, d.front, k, d.front - 1)] :
                      k \in d.front + 1 .. position - 1}
      leakBack  == {[d EXCEPT !.slots = Slide(@, k, d.back, k + 1)] :
                      k \in position + 1 .. d.back - 1}
  IN  {d} \cup
      (IF ~ShiftMayThrow THEN {}
       ELSE IF index = SizeOf(d) /\ BackFree(d) > 0 THEN {}
       ELSE IF index = 0 /\ FrontFree(d) > 0 THEN {}
       ELSE IF EmplaceMovesFront(d, index)
       THEN leakFront \cup {EmplaceNearFront(d, position, Unspec)}
       ELSE IF BackFree(d) > 0
       THEN leakBack \cup {EmplaceNearBack(d, position, Unspec)}
       ELSE {})

\* insert_range_slow_path_near_front: construct before the first element, rotate
InsertNearFront(d, position, xs) ==
  LET newBegin == d.front - Len(xs)
  IN  [d EXCEPT !.slots = Rotate(Put(@, newBegin, xs),
                                 newBegin, d.front, position),
                !.front = newBegin]

\* insert_range_slow_path_near_back: construct after the last element, rotate
InsertNearBack(d, position, xs) ==
  LET newEnd == d.back + Len(xs)
  IN  [d EXCEPT !.slots = Rotate(Put(@, d.back, xs),
                                 position, d.back, newEnd),
                !.back = newEnd]

\* Mutant: the middle is taken to move with the front half.
InsertAroundMovingMiddle(d, position, xs) ==
  LET nFront == Smaller(FrontFree(d), Len(xs))
  IN  InsertNearBack(InsertNearFront(d, position, FirstOf(xs, nFront)),
                     position - nFront, Without(xs, nFront))

\* insert_range_slow_path without reallocation: as many as fit before the
\* elements in front of `position`, the others after the ones behind it.
InsertAround(d, position, xs) ==
  LET nFront == Smaller(FrontFree(d), Len(xs))
  IN  InsertNearBack(InsertNearFront(d, position, FirstOf(xs, nFront)),
                     position, Without(xs, nFront))

FreeSlots(d) == FrontFree(d) + BackFree(d)

\* insert(begin() + index, first, last)
InsertRange(d, index, xs) ==
  IF index = SizeOf(d) /\ BackFree(d) >= Len(xs) THEN PutBack(d, xs)
  ELSE IF index = 0 /\ FrontFree(d) >= Len(xs)
  THEN InsertNearFront(d, d.front, xs)
  ELSE IF FreeSlots(d) >= Len(xs) THEN InsertAround(d, d.front + index, xs)
  ELSE InsertReallocating(d, PreferMoveFront(d, index), index, xs)

InsertReturns(d, index, xs) ==
  LET after == InsertRange(d, index, xs)
  IN  IF index = SizeOf(d) /\ BackFree(d) >= Len(xs)
      THEN after.back - Len(xs)
      ELSE after.front + index

InsertRangeOk(d, n) == FreeSlots(d) >= n \/ InsertReallocatingOk(d, n)

\* The constructor of an element, or with ShiftMayThrow a rotation, throws.  The
\* guard of the half at work destroys what that half constructed; what
\* unsafe_push_back or the half before it inserted stays.
InsertRangeThrew(d, index, xs) ==
  LET position == d.front + index
      nFront   == Smaller(FrontFree(d), Len(xs))
      front    == InsertNearFront(d, position, FirstOf(xs, nFront))
  IN  IF Len(xs) = 0 THEN {}
      ELSE IF index = SizeOf(d) /\ BackFree(d) >= Len(xs)
      THEN {PutBack(d, FirstOf(xs, k)) : k \in 0 .. Len(xs) - 1}
      ELSE IF index = 0 /\ FrontFree(d) >= Len(xs) THEN {d}
      ELSE IF FreeSlots(d) >= Len(xs)
      THEN {d} \cup
           (IF nFront < Len(xs) THEN {front} ELSE {}) \cup
           (IF ShiftMayThrow
            THEN {[d EXCEPT !.slots = Scramble(@, d.front, position)]} \cup
                 (IF nFront < Len(xs)
                  THEN {[front EXCEPT !.slots =
                                        Scramble(@, position, d.back)]}
                  ELSE {})
            ELSE {})
      ELSE {d}

\* insert(begin() + index, n, x) with x a reference to the element in slot `at`:
\* cvalue_iterator keeps the reference, so the second half copies what slot `at`
\* holds once the first half is done.
InsertAliased(d, index, n, at) ==
  LET position == d.front + index
      nFront   == Smaller(FrontFree(d), n)
      front    == InsertNearFront(d, position, Copies(nFront, d.slots[at]))
  IN  IF (index = SizeOf(d) /\ BackFree(d) >= n) \/
         (index = 0 /\ FrontFree(d) >= n) \/ FreeSlots(d) < n
      THEN InsertRange(d, index, Copies(n, d.slots[at]))
      ELSE InsertNearBack(front, position,
                          Copies(n - nFront, front.slots[at]))

-----------------------------------------------------------------------------
\* Erasure

\* The shorter side is the one that moves.
EraseMovesFront(d, first, last) == last - d.front < d.back - first

\* erase(first, last), positions absolute
EraseRange(d, first, last) ==
  LET n == last - first
  IN  IF EraseMovesFront(d, first, last)
      THEN PopFront([d EXCEPT !.slots = Slide(@, d.front, first, d.front + n)],
                    n)
      ELSE PopBack([d EXCEPT !.slots = Slide(@, last, d.back, first)], n)

EraseReturns(d, first, last) ==
  IF EraseMovesFront(d, first, last) THEN last ELSE first

\* Mutant: the erased elements are destroyed before the others are moved.
EraseThrewDestroyedFirst(d, first, last) ==
  IF ShiftMayThrow /\ first < last
  THEN {[d EXCEPT !.slots = Destroy(@, first, last)]}
  ELSE {}

\* One of the assignments throws: nothing was destroyed yet.
EraseThrew(d, first, last) ==
  LET n == last - first
  IN  IF ~ShiftMayThrow THEN {}
      ELSE IF EraseMovesFront(d, first, last)
      THEN {[d EXCEPT !.slots = Slide(@, k, first, k + n)] :
              k \in d.front + 1 .. first}
      ELSE {[d EXCEPT !.slots = Slide(@, last, k, first)] :
              k \in last .. d.back - 1}

-----------------------------------------------------------------------------
\* Assignment

\* Mutant: the elements not reached are left behind, above the new end.
OverwriteBufferLeaks(d, xs) ==
  [d EXCEPT !.slots = Put(@, 0, xs), !.front = 0, !.back = Len(xs)]

\* overwrite_buffer: from slot 0 on, construct below the first element, assign to
\* the elements, construct above the last one, destroy the elements not reached.
OverwriteBuffer(d, xs) ==
  LET pos          == Len(xs)
      destroyAfter == Smaller(Larger(d.front, pos), d.back)
  IN  [d EXCEPT !.slots = Destroy(Put(@, 0, xs), destroyAfter, d.back),
                !.front = 0, !.back = pos]

\* allocate_and_copy_range
AllocateAndCopyRange(d, xs) ==
  [cap |-> Len(xs), front |-> 0, back |-> Len(xs),
   slots |-> Put(NoObjects, 0, xs), buf |-> BufferFor(Len(xs))]

\* assign(first, last), assign(n, u)
Assign(d, xs) ==
  IF d.cap >= Len(xs) THEN OverwriteBuffer(d, xs)
  ELSE AllocateAndCopyRange(d, xs)

AssignOk(d, n) == n =< MaxSize

\* Constructing below the first element, an assignment, constructing above the last
\* one (k = back) or reading the iterator throws.  The guards destroy what was
\* constructed; what was assigned, up to slot k, stays.
AssignThrew(d, xs) ==
  LET assignedUpTo(k) ==
        [d EXCEPT !.slots =
           [a \in Address |->
              IF d.front =< a /\ a < k THEN xs[a + 1] ELSE @[a]]]
  IN  IF Len(xs) = 0 THEN {}
      ELSE IF d.cap < Len(xs) THEN {d}
      ELSE (IF d.front > 0 THEN {d} ELSE {}) \cup
           (IF Len(xs) > d.back THEN {assignedUpTo(d.back)} ELSE {}) \cup
           {assignedUpTo(k) : k \in d.front .. Smaller(d.back, Len(xs)) - 1}

=============================================================================
