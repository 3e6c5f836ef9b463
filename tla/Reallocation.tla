------------------------------ MODULE Reallocation ------------------------------
(***************************************************************************)
(* One call that gives a devector another buffer, step by step: what       *)
(* emplace_reallocating_slow_path, insert_range_reallocating_slow_path,    *)
(* resize_front_slow_path, resize_back_slow_path, reallocate_at,           *)
(* allocate_and_copy_range and shrink_to_fit have in common.  DevectorOps  *)
(* has them in one step.                                                   *)
(*                                                                         *)
(* Each construction, destruction and deallocation is a step; where an     *)
(* element's constructor runs it may throw, and then the destructors of    *)
(* the guards run, each object a step.                                     *)
(***************************************************************************)
EXTENDS DevectorOps, Guards

CONSTANT MaxNew  \* bound: the number of elements that a call constructs

VARIABLES
  self,    \* the object: its members, and the buffer _buffer points to
  request, \* the call: which, the elements it constructs, what it is to lead to
  before,  \* self when the call was made (a history variable)
  pc,      \* what comes next
  new,     \* the slots of the new buffer
  heap,    \* the buffers obtained from the allocator: "old", "new"
  second,  \* the guard of the new elements and of those moved behind them
  first    \* the guard of the elements moved in front of the new ones

-----------------------------------------------------------------------------
\* The calls.  xs goes before the element at `index` of those moved; `after` is the
\* object as DevectorOps has it, whose cap and front give the layout.  As in Devector,
\* no sum of a size and a capacity exceeds size_type, except by the one element.
Request(index, xs, moves, after) ==
  [index |-> index, xs |-> xs, moves |-> moves, after |-> after]

News == UNION {[1 .. n -> Values] : n \in 0 .. MaxNew}

Insertions(d) ==
  {Request(i, xs, TRUE, InsertReallocating(d, b, i, xs)) :
     i \in 0 .. SizeOf(d), b \in BOOLEAN,
     xs \in {xs \in News : /\ Len(xs) > 0 /\ InsertReallocatingOk(d, Len(xs))
                           /\ Len(xs) = 1 \/ d.cap + Len(xs) =< SizeMax}}

ResizesFront(d) ==
  {Request(0, xs, TRUE, ResizeFrontSlowPath(d, SizeOf(d) + Len(xs), xs)) :
     xs \in {xs \in News : /\ SizeOf(d) + Len(xs) > FrontCapacity(d)
                           /\ SizeOf(d) + Len(xs) + BackFree(d) =< SizeMax
                           /\ ResizeFrontOk(d, SizeOf(d) + Len(xs))}}

ResizesBack(d) ==
  {Request(SizeOf(d), xs, TRUE, ResizeBackSlowPath(d, SizeOf(d) + Len(xs), xs)) :
     xs \in {xs \in News : /\ SizeOf(d) + Len(xs) > BackCapacity(d)
                           /\ SizeOf(d) + Len(xs) + FrontFree(d) =< SizeMax
                           /\ ResizeBackOk(d, SizeOf(d) + Len(xs))}}

Reservations(d) ==
  {Request(0, << >>, TRUE, ReserveFront(d, n)) :
     n \in {n \in Size : FrontCapacity(d) < n /\ ReserveFrontOk(d, n)}}
  \cup
  {Request(0, << >>, TRUE, ReserveBack(d, n)) :
     n \in {n \in Size : BackCapacity(d) < n /\ ReserveBackOk(d, n)}}

Shrinks(d) ==
  {Request(0, << >>, TRUE, ShrinkToFit(d)) :
     n \in {n \in {SizeOf(d)} : ShouldShrink(n, d.cap) /\ ~IsSmall(d)}}

Assignments(d) ==
  {Request(0, xs, FALSE, AllocateAndCopyRange(d, xs)) :
     xs \in {xs \in News : Len(xs) > d.cap /\ AssignOk(d, Len(xs))}}

Requests(d) ==
  Insertions(d) \cup ResizesFront(d) \cup ResizesBack(d) \cup Reservations(d)
  \cup Shrinks(d) \cup Assignments(d)

-----------------------------------------------------------------------------
\* Where things go

NewFront == request.after.front

\* The number of elements moved in front of the new ones, and behind them
FirstHalf  == IF request.moves THEN request.index ELSE 0
SecondHalf == IF request.moves THEN SizeOf(self) - request.index ELSE 0

\* An allocation_guard, or the object itself, is responsible for each buffer that is
\* in the heap; the small buffer is in none.
InHeap(d, name) == IF d.buf = "heap" /\ MustFree(d) THEN {name} ELSE {}

CallInit ==
  /\ self \in {d \in DevectorType : /\ InvariantsOk(d) /\ BufferMatches(d)
                                  /\ LiveExactly(d)
                                  /\ \A a \in Address : d.slots[a] # Unspec}
  /\ request \in Requests(self)
  /\ before = self
  /\ pc = "allocate"
  /\ new = NoObjects
  /\ heap = InHeap(self, "old")
  /\ second = NewGuard(0) /\ first = NewGuard(0)

\* allocate(new_capacity); the guards are constructed, empty.
Allocate ==
  /\ pc = "allocate"
  /\ pc' = "construct"
  /\ heap' = heap \cup InHeap(request.after, "new")
  /\ second' = NewGuard(NewFront + FirstHalf)
  /\ first' = NewGuard(NewFront)
  /\ UNCHANGED <<self, request, before, new>>

\* The allocator throws, or calculate_new_capacity; the small buffer is always there.
AllocateThrows ==
  /\ pc = "allocate" /\ InHeap(request.after, "new") # {}
  /\ pc' = "threw"
  /\ UNCHANGED <<self, request, before, new, heap, second, first>>

\* The next of the new elements
ConstructNew ==
  /\ pc = "construct" /\ second.count < Len(request.xs)
  /\ new' = Put(new, second.at + second.count, <<request.xs[second.count + 1]>>)
  /\ second' = Extend(second)
  /\ UNCHANGED <<self, request, before, pc, heap, first>>

\* Mutant: elements are moved even if that can throw.
MovedFromAlways(a) == [self EXCEPT !.slots = Put(@, a, <<Unspec>>)]

\* Where the element at slot a is moved from: it stays if moving can throw, since
\* move_if_noexcept copies it then.
MovedFrom(a) ==
  IF ShiftMayThrow THEN self ELSE [self EXCEPT !.slots = Put(@, a, <<Unspec>>)]

\* Mutant: moving does not wait for the new elements.
MoveFirstEarly ==
  /\ pc = "construct" /\ first.count < FirstHalf
  /\ LET a == self.front + first.count
     IN  /\ new' = Put(new, first.at + first.count, <<self.slots[a]>>)
         /\ self' = MovedFrom(a)
  /\ first' = Extend(first)
  /\ UNCHANGED <<request, before, pc, heap, second>>

MoveFirst ==
  /\ pc = "construct" /\ second.count = Len(request.xs) /\ first.count < FirstHalf
  /\ LET a == self.front + first.count
     IN  /\ new' = Put(new, first.at + first.count, <<self.slots[a]>>)
         /\ self' = MovedFrom(a)
  /\ first' = Extend(first)
  /\ UNCHANGED <<request, before, pc, heap, second>>

MovedSecond == second.count - Len(request.xs)

MoveSecond ==
  /\ pc = "construct" /\ second.count >= Len(request.xs) /\ first.count = FirstHalf
  /\ MovedSecond < SecondHalf
  /\ LET a == self.front + FirstHalf + MovedSecond
     IN  /\ new' = Put(new, second.at + second.count, <<self.slots[a]>>)
         /\ self' = MovedFrom(a)
  /\ second' = Extend(second)
  /\ UNCHANGED <<request, before, pc, heap, first>>

\* What is constructed next throws: a new element, or a copy of an old one.
ConstructionThrows ==
  /\ pc = "construct"
  /\ \/ second.count < Len(request.xs)
     \/ ShiftMayThrow /\ (first.count < FirstHalf \/ MovedSecond < SecondHalf)
  /\ pc' = "unwind"
  /\ UNCHANGED <<self, request, before, new, heap, second, first>>

\* Everything is constructed.
AllConstructed ==
  /\ pc = "construct"
  /\ second.count = Len(request.xs) + SecondHalf /\ first.count = FirstHalf
  /\ pc' = "cleanup"
  /\ UNCHANGED <<self, request, before, new, heap, second, first>>

\* destroy_elements(begin(), end()), one element
DestroyOld ==
  /\ pc = "cleanup"
  /\ \E a \in self.front .. self.back - 1 :
       /\ self.slots[a] # Raw
       /\ \A b \in self.front .. a - 1 : self.slots[b] = Raw
       /\ self' = [self EXCEPT !.slots = Destroy(@, a, a + 1)]
  /\ UNCHANGED <<request, before, pc, new, heap, second, first>>

\* Mutant: the new members are there before the buffer is freed.
RebindFirst ==
  /\ pc = "cleanup"
  /\ \A a \in self.front .. self.back - 1 : self.slots[a] = Raw
  /\ heap' = heap \ (IF MustFree(request.after) THEN {"old"} ELSE {})
  /\ self' = [request.after EXCEPT !.slots = new]
  /\ second' = Release(second) /\ first' = Release(first)
  /\ pc' = "done"
  /\ UNCHANGED <<request, before, new>>

\* deallocate_buffer(), release() of the guards, and the new members
Rebind ==
  /\ pc = "cleanup"
  /\ \A a \in self.front .. self.back - 1 : self.slots[a] = Raw
  /\ heap' = heap \ (IF MustFree(self) THEN {"old"} ELSE {})
  /\ self' = [request.after EXCEPT !.slots = new]
  /\ second' = Release(second) /\ first' = Release(first)
  /\ pc' = "done"
  /\ UNCHANGED <<request, before, new>>

\* The destructors of the guards, the youngest first
UnwindFirst ==
  /\ pc = "unwind" /\ ~Spent(first)
  /\ new' = Destroy(new, first.at, first.at + 1)
  /\ first' = AfterOne(first)
  /\ UNCHANGED <<self, request, before, pc, heap, second>>

UnwindSecond ==
  /\ pc = "unwind" /\ Spent(first) /\ ~Spent(second)
  /\ new' = Destroy(new, second.at, second.at + 1)
  /\ second' = AfterOne(second)
  /\ UNCHANGED <<self, request, before, pc, heap, first>>

\* ~allocation_guard
UnwindAllocation ==
  /\ pc = "unwind" /\ Spent(first) /\ Spent(second)
  /\ heap' = heap \ {"new"}
  /\ pc' = "threw"
  /\ UNCHANGED <<self, request, before, new, second, first>>

Step ==
  \/ Allocate \/ AllocateThrows
  \/ ConstructNew \/ MoveFirst \/ MoveSecond \/ ConstructionThrows \/ AllConstructed
  \/ DestroyOld \/ Rebind
  \/ UnwindFirst \/ UnwindSecond \/ UnwindAllocation

-----------------------------------------------------------------------------
\* Until the members change, the objects in the new buffer are those guarded, each by
\* one guard.
GuardsCover ==
  pc # "done" =>
    /\ {a \in Address : new[a] # Raw} = Guarded(first) \cup Guarded(second)
    /\ Guarded(first) \cap Guarded(second) = {}

\* At the end the one buffer in use is allocated, if it is not the small one, and no
\* other.
OneLeft ==
  /\ pc = "done" => heap = InHeap(request.after, "new")
  /\ pc = "threw" => heap = InHeap(before, "old")

\* What the caller sees, and what the call is to make of it
Seen   == IF pc \in {"done", "threw"} THEN self ELSE before
Wanted == request.after

=============================================================================
