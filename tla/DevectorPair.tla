------------------------------ MODULE DevectorPair ------------------------------
(***************************************************************************)
(* Two devectors, each with an allocator, and a caller that copies, moves  *)
(* and swaps them, and constructs them anew from each other.               *)
(*                                                                         *)
(* To the members of DevectorOps come what _buffer points to, and to which *)
(* allocator each buffer in the heap has to be returned.                   *)
(***************************************************************************)
EXTENDS DevectorOps

CONSTANTS
  Allocators,  \* allocators that do not compare equal
  Buffers,     \* bound: the buffers the heap has
  MaxLen,      \* bound: the largest size() a caller brings about by pushing
  Avoided,     \* what the caller avoids, of Hazards
  Excepted     \* documented promises that are not asked for, of NotKept

\* Calls after which the properties below do not hold
Hazards == {"steal into a small buffer", "construct with an unequal allocator",
            "move a small one across allocators"}

\* What is documented and not kept: that a copy assignment which throws has no effect,
\* where the allocator propagates and moving an element does not throw.
NotKept == {"copy"}

Names == {"a", "b"}
Free  == "free"

\* There is a buffer in the heap for each of them and one more, for the one that is
\* reallocating; a name stands for one thing only.
ASSUME PairAssumption ==
  /\ \E b1, b2, b3 \in Buffers : b1 # b2 /\ b1 # b3 /\ b2 # b3
  /\ Buffers \cap (Names \cup {"null"}) = {}
  /\ Free \notin Allocators
  /\ Avoided \subseteq Hazards
  /\ Excepted \subseteq NotKept

\* What _buffer points to when o has no buffer in the heap
SmallBufferOf(o) == IF SBuf = 0 THEN "null" ELSE o

VARIABLES
  propagates, \* the allocators propagate on assignment and on swap, which is fixed
  obj,        \* the members of each devector and the buffer it uses
  at,         \* _buffer: one of Buffers, "null", or a devector, for its small buffer
  alloc,      \* the allocator of each devector
  heap,       \* which allocator each buffer was obtained from, or Free
  returned,   \* the buffers the latest call returned: <<obtained from, returned to>>
  call        \* the latest call, see PairContract

pairVars == <<propagates, obj, at, alloc, heap, returned, call>>

Init ==
  /\ propagates \in BOOLEAN
  /\ obj = [o \in Names |-> Reserved(0, 0)]
  /\ at = [o \in Names |-> SmallBufferOf(o)]
  /\ alloc \in [Names -> Allocators]
  /\ heap = [b \in Buffers |-> Free]
  /\ returned = {}
  /\ call = [op |-> "edit", to |-> "a", from |-> "a", out |-> "ok"]

Is(op, to, from, out) ==
  call' = [op |-> op, to |-> to, from |-> from, out |-> out]

-----------------------------------------------------------------------------
\* Memory

\* deallocate_buffer() of o
Returning(o) == IF MustFree(obj[o]) THEN {at[o]} ELSE {}

NewBuffer == CHOOSE b \in Buffers : heap[b] = Free

\* What d uses after allocate(d.cap) by o
Where(o, d) == IF d.buf = "heap" THEN NewBuffer ELSE SmallBufferOf(o)

\* o gets the buffer of d, which allocator al provides, and returns its own to al.
Rebuffer(o, d, al) ==
  /\ at' = [at EXCEPT ![o] = Where(o, d)]
  /\ heap' = [b \in Buffers |->
                IF d.buf = "heap" /\ b = NewBuffer THEN al
                ELSE IF b \in Returning(o) THEN Free ELSE heap[b]]
  /\ returned' = {<<heap[b], al>> : b \in Returning(o)}

KeepBuffers == UNCHANGED <<at, heap>> /\ returned' = {}

\* o becomes d, in its buffer or in another one of d's capacity.
Become(o, d, al) ==
  /\ obj' = [obj EXCEPT ![o] = d]
  /\ IF d.cap = obj[o].cap THEN KeepBuffers ELSE Rebuffer(o, d, al)

-----------------------------------------------------------------------------
\* Operations on one of them, for its shape; see Devector
Edits(o) ==
  {EmplaceFront(obj[o], x) : x \in
     {x \in Values : SizeOf(obj[o]) < MaxLen /\ EmplaceFrontOk(obj[o])}}
  \cup
  {EmplaceBack(obj[o], x) : x \in
     {x \in Values : SizeOf(obj[o]) < MaxLen /\ EmplaceBackOk(obj[o])}}
  \cup
  (IF SizeOf(obj[o]) > 0 THEN {PopFront(obj[o], 1), PopBack(obj[o], 1)} ELSE {})
  \cup {ShrinkToFit(obj[o])}

Edit(o) ==
  /\ \E d \in Edits(o) : Become(o, d, alloc[o])
  /\ UNCHANGED alloc
  /\ Is("edit", o, o, "ok")

\* Mutant: the buffer is kept although the allocator changes.
BeforeCopyKeepingBuffer(o, from) == Clear(obj[o])

\* Copy assignment first gives up what the new allocator cannot free.
BeforeCopy(o, from) ==
  IF propagates /\ alloc[o] # alloc[from] THEN Reserved(0, 0) ELSE obj[o]

AfterAllocatorCopy(o, from) ==
  [alloc EXCEPT ![o] = IF propagates THEN alloc[from] ELSE @]

\* The two deallocations, of the buffer given up and of the one replaced, never both
\* take place: the first leaves none.  The first is by the old allocator.
CopyTo(o, from, d) ==
  /\ obj' = [obj EXCEPT ![o] = d]
  /\ LET gaveUp == BeforeCopy(o, from) # obj[o]
         al     == alloc'[o]
     IN  /\ IF d.cap = BeforeCopy(o, from).cap /\ ~gaveUp THEN KeepBuffers
            ELSE /\ at' = [at EXCEPT ![o] = Where(o, d)]
                 /\ heap' = [b \in Buffers |->
                               IF d.buf = "heap" /\ b = NewBuffer THEN al
                               ELSE IF b \in Returning(o) THEN Free ELSE heap[b]]
                 /\ returned' = {<<heap[b], IF gaveUp THEN alloc[o] ELSE al>> :
                                   b \in Returning(o)}

\* operator=(const devector&)
CopyAssign(o, from) ==
  LET xs == Contents(obj[from])
      d  == BeforeCopy(o, from)
  IN  /\ o # from
      /\ alloc' = AfterAllocatorCopy(o, from)
      /\ \/ AssignOk(d, Len(xs)) /\ CopyTo(o, from, Assign(d, xs))
            /\ Is("copy", o, from, "ok")
         \/ \E e \in AssignThrew(d, xs) : CopyTo(o, from, e)
            /\ Is("copy", o, from, "threw")

\* a = a
CopyAssignSelf(o) ==
  UNCHANGED <<obj, alloc>> /\ KeepBuffers /\ Is("copy", o, o, "ok")

MovedFrom(d) ==
  [d EXCEPT !.slots = [a \in Address |-> IF @[a] = Raw THEN Raw ELSE Unspec]]

CanSteal(o, from) ==
  (propagates \/ alloc[o] = alloc[from]) /\ ~IsSmall(obj[from])

\* Mutant: `from` keeps the buffer as well.
StealSharing(o, from, smallOf) ==
  /\ obj' = [obj EXCEPT ![o] = obj[from]]
  /\ at' = [at EXCEPT ![o] = at[from]]

\* Mutant: the indices of `from` are not reset.
StealKeepingIndices(o, from, smallOf) ==
  /\ obj' = [obj EXCEPT ![o] = obj[from],
                        ![from] = [Reserved(0, 0) EXCEPT !.front = obj[from].front,
                                                         !.back = obj[from].back]]
  /\ at' = [at EXCEPT ![o] = IF obj[from].buf = "heap" THEN at[from] ELSE SmallBufferOf(o),
                      ![from] = SmallBufferOf(smallOf)]

\* The buffer changes hands; `from` is left with the small buffer of smallOf.
Steal(o, from, smallOf) ==
  /\ obj' = [obj EXCEPT ![o] = obj[from], ![from] = Reserved(0, 0)]
  /\ at' = [at EXCEPT ![o] = IF obj[from].buf = "heap" THEN at[from] ELSE SmallBufferOf(o),
                      ![from] = SmallBufferOf(smallOf)]

\* operator=(devector&&): the buffer of `from` is taken.  What `from` is given for it
\* is the small buffer of *this.
MoveAssignStealing(o, from) ==
  /\ CanSteal(o, from)
  /\ "steal into a small buffer" \in Avoided => SBuf = 0 \/ o = from
  /\ Steal(o, from, o)
  /\ heap' = [b \in Buffers |-> IF b \in Returning(o) THEN Free ELSE heap[b]]
  /\ returned' = {<<heap[b], alloc[o]>> : b \in Returning(o)}
  /\ alloc' = AfterAllocatorCopy(o, from)
  /\ Is("move", o, from, "ok")

\* operator=(devector&&): the elements are moved one by one, with the allocator of
\* `from` if it propagates.
MoveAssignElements(o, from) ==
  LET xs == Contents(obj[from])
      d  == Assign(obj[o], xs)
  IN  /\ ~CanSteal(o, from)
      /\ "move a small one across allocators" \in Avoided => ~propagates \/ alloc[o] = alloc[from]
      /\ AssignOk(obj[o], Len(xs))
      /\ obj' = IF o = from THEN [obj EXCEPT ![o] = d]
                ELSE [obj EXCEPT ![o] = d, ![from] = MovedFrom(@)]
      /\ alloc' = AfterAllocatorCopy(o, from)
      /\ IF d.cap = obj[o].cap THEN KeepBuffers ELSE Rebuffer(o, d, alloc'[o])
      /\ Is("move", o, from, "ok")

-----------------------------------------------------------------------------
\* swap

\* swap_small_small does not end for these, see SmallSwap: no call is made then.
Crossing(o, p) ==
  IsSmall(obj[o]) /\ IsSmall(obj[p]) /\ obj[o].front > obj[p].back

\* Mutant: the one that was large keeps pointing to its buffer.
BufferAfterSwapStale(o, p) == IF obj[p].buf = "heap" THEN at[p] ELSE at[o]

\* Small buffers stay with their devectors, large ones change hands.
BufferAfterSwap(o, p) == IF obj[p].buf = "heap" THEN at[p] ELSE SmallBufferOf(o)

\* Mutant: the indices stay where they are.
AfterSwapKeepingIndices(o, p) ==
  [obj EXCEPT
     ![o] = [obj[p] EXCEPT !.front = obj[o].front, !.back = obj[o].back],
     ![p] = [obj[o] EXCEPT !.front = obj[p].front, !.back = obj[p].back]]

\* The elements change places or go with their buffer, at the same index; so do
\* _capacity and the indices.
AfterSwap(o, p) == [obj EXCEPT ![o] = obj[p], ![p] = obj[o]]

\* swap_small_small, swap_small_big, swap_big_big and the indices
Swap(o, p) ==
  /\ propagates \/ alloc[o] = alloc[p]
  /\ ~Crossing(o, p)
  /\ obj' = AfterSwap(o, p)
  /\ at' = [at EXCEPT ![o] = BufferAfterSwap(o, p), ![p] = BufferAfterSwap(p, o)]
  /\ alloc' = IF propagates
              THEN [alloc EXCEPT ![o] = alloc[p], ![p] = alloc[o]] ELSE alloc
  /\ UNCHANGED heap /\ returned' = {}
  /\ Is("swap", o, p, "ok")

-----------------------------------------------------------------------------
\* Construction, in the place of a devector that is destroyed first

\* devector(const devector&, allocator)
CopyConstruct(o, from, al) ==
  LET d == Constructed(Contents(obj[from]))
  IN  /\ o # from
      /\ obj' = [obj EXCEPT ![o] = d]
      /\ at' = [at EXCEPT ![o] = Where(o, d)]
      /\ heap' = [b \in Buffers |->
                    IF d.buf = "heap" /\ b = NewBuffer THEN al
                    ELSE IF b \in Returning(o) THEN Free ELSE heap[b]]
      /\ returned' = {<<heap[b], alloc[o]>> : b \in Returning(o)}
      /\ alloc' = [alloc EXCEPT ![o] = al]
      /\ Is("copy", o, from, "ok")

\* devector(devector&&, allocator)
MoveConstruct(o, from, al) ==
  /\ o # from
  /\ "construct with an unequal allocator" \in Avoided => al = alloc[from]
  /\ IF IsSmall(obj[from])
     THEN /\ obj' = [obj EXCEPT ![o] = obj[from], ![from] = MovedFrom(@)]
          /\ at' = [at EXCEPT ![o] = SmallBufferOf(o)]
     ELSE Steal(o, from, from)
  /\ heap' = [b \in Buffers |-> IF b \in Returning(o) THEN Free ELSE heap[b]]
  /\ returned' = {<<heap[b], alloc[o]>> : b \in Returning(o)}
  /\ alloc' = [alloc EXCEPT ![o] = al]
  /\ Is("move", o, from, "ok")

Next ==
  /\ UNCHANGED propagates
  /\ \E o \in Names :
       \/ Edit(o)
       \/ CopyAssignSelf(o)
       \/ \E p \in Names :
            \/ CopyAssign(o, p)
            \/ MoveAssignStealing(o, p) \/ MoveAssignElements(o, p)
            \/ Swap(o, p)
            \/ \E al \in Allocators : CopyConstruct(o, p, al) \/ MoveConstruct(o, p, al)

Spec == Init /\ [][Next]_pairVars

-----------------------------------------------------------------------------
\* After every call both objects satisfy devector::invariants_ok() and the objects in
\* their buffers are their elements.
BothWellFormed ==
  \A o \in Names :
    InvariantsOk(obj[o]) /\ BufferMatches(obj[o]) /\ LiveExactly(obj[o])

\* Each buffer in the heap is used by one devector: none is leaked, shared, or used
\* after it was returned.
OneUserEach ==
  /\ {b \in Buffers : heap[b] # Free} = {at[o] : o \in {o \in Names : obj[o].buf = "heap"}}
  /\ at["a"] = at["b"] => at["a"] = "null"

\* A devector without a buffer in the heap uses the small buffer within itself.
OwnSmallBuffer ==
  SBuf > 0 => \A o \in Names : obj[o].buf = "small" => at[o] = o

\* Each buffer was obtained from the allocator of its user, and was returned to where
\* it came from.
RightAllocator ==
  [][/\ \A o \in Names : obj'[o].buf = "heap" => heap'[at'[o]] = alloc'[o]
     /\ \A r \in returned' : r[1] = r[2]]_pairVars

\* Copying, moving and swapping do to the contents what the documentation says, and
\* nothing to another devector.  If they throw, a copy assignment has no effect where
\* that is documented ("Strong exception guarantee if `T` is `NothrowConstructible` and
\* the allocator is allowed to be propagated"), unless it is Excepted.  With copy
\* Excepted this is less than the documentation promises: it leaves some contents.
Contract == INSTANCE PairContract WITH
              Element <- Object, seqs <- [o \in Names |-> Contents(obj[o])],
              strong <- propagates /\ ~ShiftMayThrow /\ "copy" \notin Excepted

ImplementsPairContract == Contract!Spec

=============================================================================
