--------------------------- MODULE DevectorPairProofs ---------------------------
(***************************************************************************)
(* Two devectors that are copied, moved, swapped and constructed from each *)
(* other, of any small buffer, growth policy and size_type, with equal or  *)
(* unequal allocators: both stay well formed, their contents change as     *)
(* PairContract says, no buffer is shared, leaked or used after it was     *)
(* returned, and each goes back to the allocator it came from.             *)
(*                                                                         *)
(* The last two hold for a caller that avoids the hazards each theorem     *)
(* names.  The shapes of the two (Shapes) are inductive by themselves;     *)
(* the buffers (BuffersOwned) rest on them, since which buffer is freed is *)
(* decided from the capacity; the allocators (Owners) rest on both.        *)
(*                                                                         *)
(* Then the swap of two that use their small buffer, one move, copy,       *)
(* exchange and destruction at a time, any of which may throw (SmallSwap); *)
(* one that is filled from a stream of which each element is read once     *)
(* (DevectorInput); and one that is saved and loaded, whose caller leaves  *)
(* elements uninitialized in between (DevectorSerialization).              *)
(***************************************************************************)
EXTENDS DevectorPair, SmallSwap, DevectorInput, DevectorSerialization, DevectorOpsProofs

-----------------------------------------------------------------------------
\* One devector, with the buffer its capacity calls for

\* In the good state, and its buffer is the one allocate(_capacity) provides.
Fit(d) == Good(d) /\ d.buf = BufferFor(d.cap)

\* A buffer in the heap is what deallocate_buffer would free.
LEMMA FitFrees ==
  ASSUME NEW d, Fit(d)
  PROVE  (d.buf = "heap" <=> MustFree(d)) /\ d.buf \in {"small", "heap"}
  BY DEF Fit, Good, BufferMatches, DevectorType

\* The same capacity, the same kind of buffer.
LEMMA SameCapacity ==
  ASSUME NEW d, NEW e, Fit(d), Fit(e), e.cap = d.cap
  PROVE  e.buf = d.buf
  BY DEF Fit

\* The default constructed devector has no buffer in the heap.
LEMMA ReservedFits == Fit(Reserved(0, 0)) /\ Reserved(0, 0).buf = "small"
<1>1. Good(Reserved(0, 0))
  BY ReservedGood, SizesAssumption
<1>2. Reserved(0, 0).buf = BufferFor(Reserved(0, 0).cap) /\ Reserved(0, 0).cap = SBuf
  BY SizesAssumption DEF Reserved, Larger, Size
<1>3. SBuf =< SBuf
  BY SizesAssumption DEF Size
<1> QED
  BY <1>1, <1>2, <1>3 DEF Fit, BufferFor

\* The copy constructor.
LEMMA ConstructedFits ==
  ASSUME NEW d, Fit(d)
  PROVE  Fit(Constructed(Contents(d))) /\ Contents(Constructed(Contents(d))) = Contents(d)
<1> DEFINE xs == Contents(d)
           e == Constructed(xs)
<1>1. xs \in Seq(Object) /\ Len(xs) = SizeOf(d) /\ Good(d)
  BY ContentsSeq DEF Fit
<1>2. Len(xs) =< MaxSize /\ Len(xs) \in Nat
  BY <1>1, GoodIndices DEF SizeOf, Indices
<1>3. Good(e)
  BY <1>1, <1>2, ConstructedGood
<1>4. /\ e.front = 0 /\ e.back = Len(xs) /\ e.slots = Put(NoObjects, 0, xs)
      /\ e.buf = BufferFor(e.cap)
  BY DEF Constructed
<1> HIDE DEF e, xs
<1>5. SizeOf(e) = Len(xs)
  BY <1>2, <1>4 DEF SizeOf
<1>6. ASSUME NEW i \in 0 .. Len(xs) - 1 PROVE e.slots[e.front + i] = xs[i + 1]
  <2>1. e.front + i \in Address /\ e.front + i = 0 + i
    BY <1>3, <1>4, <1>5, SlotOf
  <2>2. 0 + i \in Address => Put(NoObjects, 0, xs)[0 + i] = xs[i + 1]
    BY <1>1, PutReads
  <2> QED
    BY <1>4, <2>1, <2>2
<1>7. Contents(e) = xs
  BY <1>1, <1>3, <1>5, <1>6, ContentsAre
<1> QED
  BY <1>3, <1>4, <1>7 DEF Fit, e, xs

\* assign, which the copy and the move assignment end in
LEMMA AssignFits ==
  ASSUME NEW d, Fit(d), NEW xs \in Seq(Object), AssignOk(d, Len(xs))
  PROVE  Fit(Assign(d, xs)) /\ Contents(Assign(d, xs)) = xs
<1>1. Good(d) /\ Good(Assign(d, xs)) /\ Contents(Assign(d, xs)) = xs
  BY AssignGood, AssignContents DEF Fit
<1>2. Assign(d, xs).buf = BufferFor(Assign(d, xs).cap)
  BY DEF Fit, Good, DevectorType, Assign, OverwriteBuffer, AllocateAndCopyRange
<1> QED
  BY <1>1, <1>2 DEF Fit

\* If it throws the buffer stays.
LEMMA AssignThrewFits ==
  ASSUME NEW d, Fit(d), NEW xs \in Seq(Object), NEW e \in AssignThrew(d, xs)
  PROVE  Fit(e) /\ e.cap = d.cap
<1>1. Good(d) /\ Good(e)
  BY AssignThrewGood DEF Fit
<1>2. e.cap = d.cap /\ e.buf = d.buf
  BY DEF AssignThrew, Fit, Good, DevectorType
<1> QED
  BY <1>1, <1>2 DEF Fit

\* The operations on one of them.
LEMMA EditFits ==
  ASSUME NEW o \in Names, Fit(obj[o]), NEW e \in Edits(o)
  PROVE  Fit(e)
<1> DEFINE d == obj[o]
<1>0. Good(d) /\ d.buf = BufferFor(d.cap) /\ d \in DevectorType
  BY DEF Fit, Good
<1> HIDE DEF d
<1>1. ASSUME NEW x \in Values, EmplaceFrontOk(d), e = EmplaceFront(d, x) PROVE Fit(e)
  <2>1. Good(e)
    BY <1>0, <1>1, EmplaceFrontGood DEF Object
  <2>2. e.buf = BufferFor(e.cap)
    BY <1>0, <1>1 DEF EmplaceFront, PutFront, InsertReallocating, DevectorType
  <2> QED
    BY <2>1, <2>2 DEF Fit
<1>2. ASSUME NEW x \in Values, EmplaceBackOk(d), e = EmplaceBack(d, x) PROVE Fit(e)
  <2>1. Good(e)
    BY <1>0, <1>2, EmplaceBackGood DEF Object
  <2>2. e.buf = BufferFor(e.cap)
    BY <1>0, <1>2 DEF EmplaceBack, PutBack, InsertReallocating, DevectorType
  <2> QED
    BY <2>1, <2>2 DEF Fit
<1>3. ASSUME SizeOf(d) > 0, e \in {PopFront(d, 1), PopBack(d, 1)} PROVE Fit(e)
  <2>1. 1 =< SizeOf(d) /\ SizeOf(d) \in Nat
    BY <1>0, <1>3, GoodIndices DEF SizeOf, Indices
  <2>2. Good(e)
    BY <1>0, <1>3, <2>1, PopFrontGood, PopBackGood
  <2>3. e.buf = BufferFor(e.cap)
    BY <1>0, <1>3 DEF PopFront, PopBack, DevectorType
  <2> QED
    BY <2>2, <2>3 DEF Fit
<1>4. ASSUME e = ShrinkToFit(d) PROVE Fit(e)
  <2>1. Good(e)
    BY <1>0, <1>4, ShrinkToFitGood
  <2>2. e.buf = BufferFor(e.cap)
    <3>1. SBuf =< SBuf
      BY SizesAssumption DEF Size
    <3> QED
      BY <1>0, <1>4, <3>1 DEF ShrinkToFit, ReallocateAt, BufferFor
  <2> QED
    BY <2>1, <2>2 DEF Fit
<1>5. \/ \E x \in Values : EmplaceFrontOk(d) /\ e = EmplaceFront(d, x)
      \/ \E x \in Values : EmplaceBackOk(d) /\ e = EmplaceBack(d, x)
      \/ SizeOf(d) > 0 /\ e \in {PopFront(d, 1), PopBack(d, 1)}
      \/ e = ShrinkToFit(d)
  BY DEF Edits, d
<1> QED
  BY <1>1, <1>2, <1>3, <1>4, <1>5

\* The objects that were moved from are still there.
LEMMA MovedFromFits ==
  ASSUME NEW d, Fit(d)
  PROVE  Fit(MovedFrom(d)) /\ MovedFrom(d).buf = d.buf /\ MovedFrom(d).cap = d.cap
<1> DEFINE m == [a \in Address |-> IF d.slots[a] = Raw THEN Raw ELSE Unspec]
           e == MovedFrom(d)
<1>0. Good(d) /\ d \in DevectorType
  BY DEF Fit, Good
<1>1. e = [d EXCEPT !.slots = m] /\ e.buf = d.buf /\ e.cap = d.cap
  BY <1>0 DEF MovedFrom, DevectorType
<1>2. Unspec # Raw /\ Unspec \in Slot /\ Raw \in Slot
  BY MarkersAssumption DEF Slot, Object
<1>3. m \in Memory /\ \A a \in Address : m[a] # Raw <=> d.slots[a] # Raw
  BY <1>2 DEF Memory
<1>4. Fits(d.cap, d.front, d.back, m)
  BY <1>0, <1>3, GoodFacts, SizesAssumption DEF Fits, Held, Size
<1>5. Good(e)
  BY <1>0, <1>1, <1>4, SameIndicesGood
<1> QED
  BY <1>1, <1>5 DEF Fit

-----------------------------------------------------------------------------
\* The shapes of both

\* Both are in the good state: what has to hold whoever owns which buffer.
Shapes ==
  /\ obj = [o \in Names |-> obj[o]]
  /\ \A o \in Names : Fit(obj[o])

\* One of them becomes d, the other one stays.
LEMMA OneShape ==
  ASSUME Shapes, NEW o \in Names, NEW d, Fit(d), obj' = [obj EXCEPT ![o] = d]
  PROVE  Shapes'
  BY DEF Shapes

\* Two names get new shapes; they may be the same name.
LEMMA TwoShapes ==
  ASSUME Shapes, NEW o \in Names, NEW p \in Names, NEW d, NEW e, Fit(d), Fit(e),
         obj' = [obj EXCEPT ![o] = d, ![p] = e]
  PROVE  Shapes'
  BY DEF Shapes

\* Two default constructed devectors.
LEMMA ShapesInit == Init => Shapes
  BY ReservedFits DEF Init, Shapes

\* The copy assignment, one that throws included.
LEMMA CopyShapes ==
  ASSUME Shapes, NEW o \in Names, NEW p \in Names, CopyAssign(o, p)
  PROVE  /\ Shapes'
         /\ \E d : /\ Fit(d) /\ CopyTo(o, p, d)
                   /\ d.cap = BeforeCopy(o, p).cap \/ call'.out = "ok"
                   /\ call'.out = "ok" => Contents(d) = Contents(obj[p])
<1> DEFINE xs == Contents(obj[p])
           d == BeforeCopy(o, p)
<1>1. Fit(d)
  BY ReservedFits DEF BeforeCopy, Shapes
<1>2. xs \in Seq(Object)
  BY ContentsSeq DEF Shapes, Fit
<1> HIDE DEF d, xs
<1>3. \/ /\ AssignOk(d, Len(xs)) /\ CopyTo(o, p, Assign(d, xs))
         /\ call'.out = "ok"
      \/ \E e \in AssignThrew(d, xs) : CopyTo(o, p, e) /\ call'.out = "threw"
  BY DEF CopyAssign, Is, d, xs
<1>4. CASE AssignOk(d, Len(xs)) /\ CopyTo(o, p, Assign(d, xs)) /\ call'.out = "ok"
  <2>1. Fit(Assign(d, xs)) /\ Contents(Assign(d, xs)) = xs
    BY <1>1, <1>2, <1>4, AssignFits
  <2>2. Shapes'
    BY <1>4, <2>1, OneShape DEF CopyTo
  <2> QED
    BY <1>4, <2>1, <2>2 DEF d, xs
<1>5. ASSUME NEW e \in AssignThrew(d, xs), CopyTo(o, p, e), call'.out = "threw"
      PROVE  Shapes' /\ Fit(e) /\ e.cap = d.cap
  <2>1. Fit(e) /\ e.cap = d.cap
    BY <1>1, <1>2, AssignThrewFits
  <2>2. Shapes'
    BY <1>5, <2>1, OneShape DEF CopyTo
  <2> QED
    BY <2>1, <2>2
<1> QED
  BY <1>3, <1>4, <1>5 DEF d

\* The move assignment that moves the elements one by one.
LEMMA MoveShapes ==
  ASSUME Shapes, NEW o \in Names, NEW p \in Names, MoveAssignElements(o, p)
  PROVE  Shapes'
<1> DEFINE xs == Contents(obj[p])
           d == Assign(obj[o], xs)
<1>1. Fit(d) /\ Fit(MovedFrom(obj[p]))
  <2>1. xs \in Seq(Object) /\ AssignOk(obj[o], Len(xs)) /\ Fit(obj[o]) /\ Fit(obj[p])
    BY ContentsSeq DEF Shapes, Fit, MoveAssignElements
  <2> QED
    BY <2>1, AssignFits, MovedFromFits
<1>2. CASE o = p
  <2>1. obj' = [obj EXCEPT ![o] = d]
    BY <1>2 DEF MoveAssignElements
  <2> QED
    BY <1>1, <2>1, OneShape
<1>3. CASE o # p
  <2>1. obj' = [obj EXCEPT ![o] = d, ![p] = MovedFrom(@)]
    BY <1>3 DEF MoveAssignElements
  <2>2. obj' = [obj EXCEPT ![o] = d, ![p] = MovedFrom(obj[p])]
    BY <1>3, <2>1
  <2> HIDE DEF d
  <2> QED
    BY <1>1, <2>2, TwoShapes
<1> QED
  BY <1>2, <1>3

\* The constructors.
LEMMA ConstructShapes ==
  ASSUME Shapes, NEW o \in Names, NEW p \in Names, NEW al
  PROVE  /\ CopyConstruct(o, p, al) => Shapes'
         /\ MoveConstruct(o, p, al) => Shapes'
<1>1. Fit(obj[p]) /\ Fit(Constructed(Contents(obj[p]))) /\ Fit(MovedFrom(obj[p]))
      /\ Fit(Reserved(0, 0))
  BY ConstructedFits, MovedFromFits, ReservedFits DEF Shapes
<1>2. CopyConstruct(o, p, al) => Shapes'
  BY <1>1, OneShape DEF CopyConstruct
<1>3. CASE MoveConstruct(o, p, al) /\ IsSmall(obj[p])
  <2>1. o # p /\ obj' = [obj EXCEPT ![o] = obj[p], ![p] = MovedFrom(@)]
    BY <1>3 DEF MoveConstruct
  <2>2. obj' = [obj EXCEPT ![o] = obj[p], ![p] = MovedFrom(obj[p])]
    BY <2>1
  <2> QED
    BY <1>1, <2>2, TwoShapes
<1>4. CASE MoveConstruct(o, p, al) /\ ~IsSmall(obj[p])
  <2>1. obj' = [obj EXCEPT ![o] = obj[p], ![p] = Reserved(0, 0)]
    BY <1>4 DEF MoveConstruct, Steal
  <2> QED
    BY <1>1, <2>1, TwoShapes
<1> QED
  BY <1>2, <1>3, <1>4

\* Every call keeps both well formed.
LEMMA ShapesNext == Shapes /\ [Next]_pairVars => Shapes'
<1> SUFFICES ASSUME Shapes, [Next]_pairVars PROVE Shapes'
  OBVIOUS
<1>1. CASE UNCHANGED pairVars
  BY <1>1 DEF pairVars, Shapes
<1>2. ASSUME NEW o \in Names, Edit(o) PROVE Shapes'
  <2>1. PICK d \in Edits(o) : Become(o, d, alloc[o])
    BY <1>2 DEF Edit
  <2>2. Fit(d)
    BY <2>1, EditFits DEF Shapes
  <2> QED
    BY <2>1, <2>2, OneShape DEF Become
<1>3. ASSUME NEW o \in Names, CopyAssignSelf(o) PROVE Shapes'
  BY <1>3 DEF CopyAssignSelf, Shapes
<1>4. ASSUME NEW o \in Names, NEW p \in Names, CopyAssign(o, p) PROVE Shapes'
  BY <1>4, CopyShapes
<1>5. ASSUME NEW o \in Names, NEW p \in Names, MoveAssignStealing(o, p) PROVE Shapes'
  BY <1>5, TwoShapes, ReservedFits DEF MoveAssignStealing, Steal, Shapes
<1>6. ASSUME NEW o \in Names, NEW p \in Names, MoveAssignElements(o, p) PROVE Shapes'
  BY <1>6, MoveShapes
<1>7. ASSUME NEW o \in Names, NEW p \in Names, Swap(o, p) PROVE Shapes'
  <2>1. obj' = [obj EXCEPT ![o] = obj[p], ![p] = obj[o]]
    BY <1>7 DEF Swap, AfterSwap
  <2> QED
    BY <2>1, TwoShapes DEF Shapes
<1>8. ASSUME NEW o \in Names, NEW p \in Names, NEW al \in Allocators,
             CopyConstruct(o, p, al) \/ MoveConstruct(o, p, al)
      PROVE  Shapes'
  BY <1>8, ConstructShapes
<1> QED
  BY <1>1, <1>2, <1>3, <1>4, <1>5, <1>6, <1>7, <1>8 DEF Next

\* So they always are.
LEMMA AlwaysShapes == Spec => []Shapes
  BY ShapesInit, ShapesNext, PTL DEF Spec

\* After every copy, move, swap and construction both devectors satisfy
\* devector::invariants_ok() and exactly their elements are objects, one that was moved
\* from and one whose assignment threw included, whatever their allocators.  The model keeps
\* the objects of one small buffer apart from those of the other, so that this says
\* something of the code only if neither is left with the small buffer of the other
\* (operator=(devector&&) may do so).
THEOREM PairAlwaysWellFormed ==
  ASSUME ~ShiftMayThrow, "steal into a small buffer" \in Avoided \/ SBuf = 0
  PROVE  Spec => []BothWellFormed
<1>1. Shapes => BothWellFormed
  <2> SUFFICES ASSUME Shapes, NEW o \in Names
               PROVE InvariantsOk(obj[o]) /\ BufferMatches(obj[o]) /\ LiveExactly(obj[o])
    BY DEF BothWellFormed
  <2> QED
    BY DEF Shapes, Fit, Good, Held, LiveExactly
<1> QED
  BY <1>1, AlwaysShapes, PTL

-----------------------------------------------------------------------------
\* The buffers of both

\* deallocate_buffer() of o would return something.
InHeap(o) == obj[o].buf = "heap"

\* Who has what.  A buffer that is not free is the buffer of one of the two, and the
\* two have different ones.
BuffersOwned ==
  /\ at \in [Names -> Buffers \cup Names \cup {"null"}]
  /\ heap \in [Buffers -> Allocators \cup {Free}]
  /\ \A o \in Names : InHeap(o) => at[o] \in Buffers /\ heap[at[o]] # Free
  /\ \A o \in Names : ~InHeap(o) => at[o] = SmallBufferOf(o)
  /\ \A b \in Buffers : heap[b] # Free => \E o \in Names : InHeap(o) /\ at[o] = b
  /\ \A o, p \in Names : InHeap(o) /\ InHeap(p) /\ at[o] = at[p] => o = p

\* The allocators are allocators.
Typed == propagates \in BOOLEAN /\ alloc \in [Names -> Allocators]

\* The inductive invariant of the buffers.
PairInv == Typed /\ Shapes /\ BuffersOwned

\* Each buffer goes back to the allocator of its user.
Owners == \A o \in Names : InHeap(o) => heap[at[o]] = alloc[o]

\* There is a free buffer: the two use two at most.
LEMMA NewBufferFree ==
  ASSUME BuffersOwned
  PROVE  NewBuffer \in Buffers /\ heap[NewBuffer] = Free
<1>1. \E b \in Buffers : heap[b] = Free
  <2>1. PICK b1, b2, b3 \in Buffers : b1 # b2 /\ b1 # b3 /\ b2 # b3
    BY PairAssumption
  <2>2. \A b \in Buffers : heap[b] # Free => b = at["a"] \/ b = at["b"]
    BY DEF BuffersOwned, Names
  <2> QED
    BY <2>1, <2>2
<1> QED
  BY <1>1 DEF NewBuffer

\* What o returns is its buffer in the heap.
LEMMA ReturningIs ==
  ASSUME Shapes, NEW o \in Names
  PROVE  Returning(o) = IF InHeap(o) THEN {at[o]} ELSE {}
  BY FitFrees DEF Shapes, Returning, InHeap

\* A small buffer is no buffer of the heap.
LEMMA SmallBufferIs ==
  ASSUME NEW o \in Names
  PROVE  SmallBufferOf(o) \in Names \cup {"null"} /\ SmallBufferOf(o) \notin Buffers
  BY PairAssumption DEF SmallBufferOf, Names

\* o gets the buffer d needs and its old one is freed; nothing else changes.
Replaces(o, d, al) ==
  /\ at' = [at EXCEPT ![o] = Where(o, d)]
  /\ heap' = [b \in Buffers |->
                IF d.buf = "heap" /\ b = NewBuffer THEN al
                ELSE IF b \in Returning(o) THEN Free ELSE heap[b]]

\* Then each buffer still has its one user, and the one of o came from al.
LEMMA ReplacedOwned ==
  ASSUME PairInv, NEW o \in Names, NEW d, d.buf \in {"small", "heap"},
         NEW al \in Allocators, Replaces(o, d, al),
         obj'[o].buf = d.buf,
         \A p \in Names \ {o} : obj'[p].buf = obj[p].buf
  PROVE  /\ BuffersOwned'
         /\ InHeap(o)' => heap'[at'[o]] = al
         /\ \A p \in Names \ {o} :
              /\ InHeap(p)' <=> InHeap(p)
              /\ InHeap(p) => heap'[at'[p]] = heap[at[p]]
<1> DEFINE new == NewBuffer
<1>1. /\ new \in Buffers /\ heap[new] = Free
      /\ Returning(o) = IF InHeap(o) THEN {at[o]} ELSE {}
      /\ SmallBufferOf(o) \in Names \cup {"null"} /\ SmallBufferOf(o) \notin Buffers
      /\ al # Free
  BY NewBufferFree, ReturningIs, SmallBufferIs, PairAssumption DEF PairInv
<1> HIDE DEF new
<1>2. /\ at'[o] = IF d.buf = "heap" THEN new ELSE SmallBufferOf(o)
      /\ \A p \in Names \ {o} : at'[p] = at[p]
      /\ at' \in [Names -> Buffers \cup Names \cup {"null"}]
  BY <1>1 DEF Replaces, Where, PairInv, BuffersOwned, new
<1>3. /\ heap' \in [Buffers -> Allocators \cup {Free}]
      /\ d.buf = "heap" => heap'[new] = al
      /\ \A b \in Buffers : b # new \/ d.buf # "heap" =>
           heap'[b] = IF InHeap(o) /\ b = at[o] THEN Free ELSE heap[b]
  BY <1>1 DEF Replaces, PairInv, BuffersOwned, new
<1>4. \A p \in Names \ {o} : (InHeap(p)' <=> InHeap(p)) /\ (InHeap(p) => at[p] # new)
  BY <1>1 DEF InHeap, PairInv, BuffersOwned
<1>5. \A p \in Names \ {o} : InHeap(p) => heap'[at'[p]] = heap[at[p]]
  BY <1>2, <1>3, <1>4 DEF PairInv, BuffersOwned
<1>6. InHeap(o)' <=> d.buf = "heap"
  BY DEF InHeap
<1>7. InHeap(o)' => heap'[at'[o]] = al
  BY <1>2, <1>3, <1>6
<1>8. ASSUME NEW p \in Names, InHeap(p)' PROVE at'[p] \in Buffers /\ heap'[at'[p]] # Free
  BY <1>1, <1>2, <1>3, <1>4, <1>5, <1>6, <1>7, <1>8 DEF PairInv, BuffersOwned
<1>9. ASSUME NEW p \in Names, ~InHeap(p)' PROVE at'[p] = SmallBufferOf(p)
  BY <1>2, <1>4, <1>6, <1>9 DEF PairInv, BuffersOwned
<1>10. ASSUME NEW b \in Buffers, heap'[b] # Free
       PROVE  \E p \in Names : InHeap(p)' /\ at'[p] = b
  <2>1. CASE d.buf = "heap" /\ b = new
    BY <1>2, <1>6, <2>1
  <2>2. CASE ~(d.buf = "heap" /\ b = new)
    <3>1. heap[b] # Free /\ ~(InHeap(o) /\ b = at[o])
      BY <1>3, <1>10, <2>2
    <3>2. PICK p \in Names : InHeap(p) /\ at[p] = b
      BY <3>1 DEF PairInv, BuffersOwned
    <3>3. p # o
      BY <3>1, <3>2
    <3> QED
      BY <1>2, <1>4, <3>2, <3>3
  <2> QED
    BY <2>1, <2>2
<1>11. ASSUME NEW p \in Names, NEW q \in Names, InHeap(p)', InHeap(q)', at'[p] = at'[q]
       PROVE  p = q
  BY <1>2, <1>4, <1>6, <1>11 DEF PairInv, BuffersOwned
<1>12. BuffersOwned'
  <2>1. \A p \in Names : SmallBufferOf(p)' = SmallBufferOf(p)
    BY DEF SmallBufferOf
  <2> QED
    BY <1>2, <1>3, <1>8, <1>9, <1>10, <1>11, <2>1 DEF BuffersOwned
<1> QED
  BY <1>4, <1>5, <1>7, <1>12

\* The buffers stay where they are.
LEMMA KeptOwned ==
  ASSUME BuffersOwned, UNCHANGED <<at, heap>>,
         \A p \in Names : obj'[p].buf = obj[p].buf
  PROVE  BuffersOwned' /\ \A p \in Names : InHeap(p)' <=> InHeap(p)
<1>1. \A p \in Names : (InHeap(p)' <=> InHeap(p)) /\ SmallBufferOf(p)' = SmallBufferOf(p)
  BY DEF InHeap, SmallBufferOf
<1> QED
  BY <1>1 DEF BuffersOwned

\* The buffer of o is freed and o gets the one of p, which is left without one in the heap.
LEMMA StolenOwned ==
  ASSUME PairInv, NEW o \in Names, NEW p \in Names, NEW q \in Names, Steal(o, p, q),
         ~IsSmall(obj[p]), SBuf = 0 \/ p = q,
         heap' = [b \in Buffers |-> IF b \in Returning(o) THEN Free ELSE heap[b]]
  PROVE  /\ BuffersOwned'
         /\ ~InHeap(p)'
         /\ o # p => (InHeap(o)' <=> InHeap(p))
         /\ o # p /\ InHeap(p) => heap'[at'[o]] = heap[at[p]]
<1>1. /\ Returning(o) = IF InHeap(o) THEN {at[o]} ELSE {}
      /\ \A n \in Names : SmallBufferOf(n) \in Names \cup {"null"} /\ SmallBufferOf(n) \notin Buffers
      /\ Reserved(0, 0).buf = "small" /\ SmallBufferOf(q) = SmallBufferOf(p)
      /\ \A n \in Names : SmallBufferOf(n)' = SmallBufferOf(n)
      /\ \A n \in Names : n \in {o, p} \/ (o = p /\ n \in Names)
  BY ReturningIs, SmallBufferIs, ReservedFits DEF PairInv, SmallBufferOf, Names
<1>2. /\ obj'[p].buf = "small" /\ at'[p] = SmallBufferOf(p)
      /\ o # p => /\ obj'[o].buf = obj[p].buf
                  /\ at'[o] = IF InHeap(p) THEN at[p] ELSE SmallBufferOf(o)
      /\ \A n \in Names \ {o, p} : obj'[n] = obj[n] /\ at'[n] = at[n]
      /\ at' \in [Names -> Buffers \cup Names \cup {"null"}]
  BY <1>1 DEF Steal, InHeap, PairInv, Shapes, BuffersOwned
<1>3. /\ heap' \in [Buffers -> Allocators \cup {Free}]
      /\ \A b \in Buffers : heap'[b] = IF InHeap(o) /\ b = at[o] THEN Free ELSE heap[b]
  BY <1>1 DEF PairInv, BuffersOwned
<1>4. /\ ~InHeap(p)'
      /\ o # p => (InHeap(o)' <=> InHeap(p))
      /\ \A n \in Names \ {o, p} : InHeap(n)' <=> InHeap(n)
  BY <1>2 DEF InHeap
<1>5. o # p /\ InHeap(p) => at[p] \in Buffers /\ heap'[at'[o]] = heap[at[p]]
  BY <1>2, <1>3 DEF PairInv, BuffersOwned
<1>6. ASSUME NEW n \in Names, InHeap(n)' PROVE at'[n] \in Buffers /\ heap'[at'[n]] # Free
  BY <1>2, <1>3, <1>4, <1>5, <1>6 DEF PairInv, BuffersOwned
<1>7. ASSUME NEW n \in Names, ~InHeap(n)' PROVE at'[n] = SmallBufferOf(n)
  BY <1>2, <1>4, <1>7 DEF PairInv, BuffersOwned
<1>8. ASSUME NEW b \in Buffers, heap'[b] # Free
      PROVE  \E n \in Names : InHeap(n)' /\ at'[n] = b
  <2>1. heap[b] # Free /\ ~(InHeap(o) /\ b = at[o])
    BY <1>3, <1>8
  <2>2. PICK n \in Names : InHeap(n) /\ at[n] = b
    BY <2>1 DEF PairInv, BuffersOwned
  <2>3. n # o
    BY <2>1, <2>2
  <2>4. CASE n = p
    BY <1>2, <1>4, <2>2, <2>3, <2>4
  <2>5. CASE n # p
    BY <1>2, <1>4, <2>2, <2>3, <2>5
  <2> QED
    BY <2>4, <2>5
<1>9. ASSUME NEW m \in Names, NEW n \in Names, InHeap(m)', InHeap(n)', at'[m] = at'[n]
      PROVE  m = n
  <2>1. m # p /\ n # p
    BY <1>4, <1>9
  <2>2. CASE o = p
    BY <1>2, <1>4, <1>9, <2>1, <2>2 DEF PairInv, BuffersOwned
  <2>3. CASE o # p
    BY <1>1, <2>1, <2>3
  <2> QED
    BY <2>2, <2>3
<1> QED
  BY <1>1, <1>2, <1>3, <1>4, <1>5, <1>6, <1>7, <1>8, <1>9 DEF BuffersOwned

\* The buffers and the elements change places.
LEMMA SwappedOwned ==
  ASSUME PairInv, NEW o \in Names, NEW p \in Names, Swap(o, p)
  PROVE  /\ BuffersOwned'
         /\ heap' = heap
         /\ InHeap(o)' <=> InHeap(p)
         /\ InHeap(p)' <=> InHeap(o)
         /\ InHeap(p) => at'[o] = at[p]
         /\ InHeap(o) => at'[p] = at[o]
         /\ \A n \in Names \ {o, p} : InHeap(n)' = InHeap(n) /\ at'[n] = at[n]
<1>1. /\ heap' = heap /\ heap' \in [Buffers -> Allocators \cup {Free}]
      /\ \A n \in Names : SmallBufferOf(n) \in Names \cup {"null"}
      /\ \A n \in Names : SmallBufferOf(n)' = SmallBufferOf(n)
  BY SmallBufferIs DEF Swap, SmallBufferOf, PairInv, BuffersOwned
<1>2. /\ obj'[o] = obj[p] /\ obj'[p] = obj[o]
      /\ \A n \in Names \ {o, p} : obj'[n] = obj[n]
  BY DEF Swap, AfterSwap, PairInv, Shapes
<1>3. /\ at'[o] = IF InHeap(p) THEN at[p] ELSE SmallBufferOf(o)
      /\ at'[p] = IF InHeap(o) THEN at[o] ELSE SmallBufferOf(p)
      /\ \A n \in Names \ {o, p} : at'[n] = at[n]
      /\ at' \in [Names -> Buffers \cup Names \cup {"null"}]
  BY <1>1 DEF Swap, BufferAfterSwap, InHeap, PairInv, BuffersOwned
<1>4. /\ InHeap(o)' <=> InHeap(p)
      /\ InHeap(p)' <=> InHeap(o)
      /\ \A n \in Names \ {o, p} : InHeap(n)' = InHeap(n)
  BY <1>2 DEF InHeap
<1>5. ASSUME NEW n \in Names
      PROVE  /\ InHeap(n)' => at'[n] \in Buffers /\ heap'[at'[n]] # Free
             /\ ~InHeap(n)' => at'[n] = SmallBufferOf(n)
  BY <1>1, <1>3, <1>4 DEF PairInv, BuffersOwned
<1>6. ASSUME NEW b \in Buffers, heap'[b] # Free
      PROVE  \E n \in Names : InHeap(n)' /\ at'[n] = b
  <2>1. PICK n \in Names : InHeap(n) /\ at[n] = b
    BY <1>1, <1>6 DEF PairInv, BuffersOwned
  <2>2. CASE n = o
    BY <1>3, <1>4, <2>1, <2>2
  <2>3. CASE n = p
    BY <1>3, <1>4, <2>1, <2>3
  <2>4. CASE n \notin {o, p}
    BY <1>3, <1>4, <2>1, <2>4
  <2> QED
    BY <2>2, <2>3, <2>4
<1>7. ASSUME NEW m \in Names, NEW n \in Names, InHeap(m)', InHeap(n)', at'[m] = at'[n]
      PROVE  m = n
  BY <1>3, <1>4, <1>7 DEF PairInv, BuffersOwned
<1>8. BuffersOwned'
  BY <1>1, <1>3, <1>5, <1>6, <1>7 DEF BuffersOwned
<1> QED
  BY <1>1, <1>3, <1>4, <1>8

-----------------------------------------------------------------------------
\* Each call: what it does to the buffers, to the owners, and what it returns

\* The caller avoids hazard h.
Avoids(h) == h \in Avoided

\* No devector is left with the small buffer of another one.
SmallStays == Avoids("steal into a small buffer") \/ SBuf = 0
\* No buffer changes its allocator.
SameAllocator ==
  /\ Avoids("construct with an unequal allocator")
  /\ Avoids("move a small one across allocators")

\* What was returned went to where it came from.
ReturnedRight == \A r \in returned' : r[1] = r[2]

\* At first there is no buffer.
LEMMA InitOwned == Init => BuffersOwned /\ Typed /\ Owners
<1> SUFFICES ASSUME Init PROVE BuffersOwned /\ Typed /\ Owners
  OBVIOUS
<1>1. \A o \in Names : ~InHeap(o)
  BY ReservedFits DEF Init, InHeap
<1> QED
  BY <1>1, SmallBufferIs DEF Init, BuffersOwned, Owners, Typed, PairInv

\* What all calls but one do: o gets the buffer it needs, from al.
LEMMA EditOwned ==
  ASSUME PairInv, UNCHANGED propagates, NEW o \in Names, Edit(o)
  PROVE  BuffersOwned' /\ Typed' /\ (Owners => Owners' /\ ReturnedRight)
<1>1. PICK d \in Edits(o) : Become(o, d, alloc[o])
  BY DEF Edit
<1>2. Fit(d) /\ Fit(obj[o]) /\ d.buf \in {"small", "heap"} /\ alloc' = alloc
  BY EditFits, FitFrees DEF PairInv, Shapes, Edit
<1>3. obj'[o] = d /\ \A p \in Names \ {o} : obj'[p] = obj[p]
  BY <1>1 DEF Become, PairInv, Shapes
<1>4. CASE d.cap = obj[o].cap
  <2>1. UNCHANGED <<at, heap>> /\ returned' = {} /\ \A p \in Names : obj'[p].buf = obj[p].buf
    BY <1>1, <1>2, <1>3, <1>4, SameCapacity DEF Become, KeepBuffers
  <2>2. BuffersOwned' /\ \A p \in Names : InHeap(p)' <=> InHeap(p)
    BY <2>1, KeptOwned DEF PairInv
  <2> QED
    BY <1>2, <2>1, <2>2 DEF Owners, Typed, PairInv, ReturnedRight
<1>5. CASE d.cap # obj[o].cap
  <2>1. Rebuffer(o, d, alloc[o])
    BY <1>1, <1>5 DEF Become
  <2>2. Replaces(o, d, alloc[o]) /\ returned' = {<<heap[b], alloc[o]>> : b \in Returning(o)}
    BY <2>1 DEF Rebuffer, Replaces
  <2>3. alloc[o] \in Allocators /\ obj'[o].buf = d.buf
        /\ \A p \in Names \ {o} : obj'[p].buf = obj[p].buf
    BY <1>3 DEF Owners, Typed, PairInv
  <2>4. /\ BuffersOwned'
        /\ InHeap(o)' => heap'[at'[o]] = alloc[o]
        /\ \A p \in Names \ {o} :
             (InHeap(p)' <=> InHeap(p)) /\ (InHeap(p) => heap'[at'[p]] = heap[at[p]])
    BY <1>2, <2>2, <2>3, ReplacedOwned
  <2>5. Typed' /\ (Owners => Owners')
    BY <1>2, <2>4 DEF Owners, Typed, PairInv
  <2>6. Owners => ReturnedRight
    BY <2>2, ReturningIs DEF PairInv, Owners, Typed, ReturnedRight
  <2> QED
    BY <2>4, <2>5, <2>6
<1> QED
  BY <1>4, <1>5

\* What the copy assignment and both move assignments do to the allocators.
LEMMA AllocatorAfterCopy ==
  ASSUME Typed, NEW o \in Names, NEW p \in Names, alloc' = AfterAllocatorCopy(o, p)
  PROVE  /\ alloc' \in [Names -> Allocators]
         /\ alloc'[o] = IF propagates THEN alloc[p] ELSE alloc[o]
         /\ \A n \in Names \ {o} : alloc'[n] = alloc[n]
  BY DEF Owners, Typed, PairInv, AfterAllocatorCopy

\* The copy assignment: what is given up goes to the old allocator, what is replaced to the
\* one it came from.
LEMMA CopyOwned ==
  ASSUME PairInv, UNCHANGED propagates, NEW o \in Names, NEW p \in Names,
         CopyAssign(o, p)
  PROVE  BuffersOwned' /\ Typed' /\ (Owners => Owners' /\ ReturnedRight)
<1>1. PICK d : Fit(d) /\ CopyTo(o, p, d)
  BY CopyShapes DEF PairInv
<1> DEFINE cleared == BeforeCopy(o, p)
           gaveUp == cleared # obj[o]
<1>2. Fit(obj[o]) /\ d.buf \in {"small", "heap"} /\ alloc' = AfterAllocatorCopy(o, p)
  BY <1>1, FitFrees DEF PairInv, Shapes, CopyAssign
<1>3. /\ alloc' \in [Names -> Allocators]
      /\ alloc'[o] = IF propagates THEN alloc[p] ELSE alloc[o]
      /\ \A n \in Names \ {o} : alloc'[n] = alloc[n]
  BY <1>2, AllocatorAfterCopy DEF PairInv
<1>4. /\ obj'[o] = d /\ \A n \in Names \ {o} : obj'[n] = obj[n]
      /\ obj'[o].buf = d.buf /\ \A n \in Names \ {o} : obj'[n].buf = obj[n].buf
  BY <1>1 DEF CopyTo, PairInv, Shapes
<1>5. \* a buffer that was not given up goes back to the allocator it stays with
      ~gaveUp => ~InHeap(o) \/ alloc'[o] = alloc[o]
  BY <1>3, ReservedFits DEF BeforeCopy, InHeap
<1>6. CASE d.cap = cleared.cap /\ ~gaveUp
  <2>1. UNCHANGED <<at, heap>> /\ returned' = {}
    BY <1>1, <1>6 DEF CopyTo, KeepBuffers
  <2>2. \A n \in Names : obj'[n].buf = obj[n].buf
    BY <1>1, <1>2, <1>4, <1>6, SameCapacity
  <2>3. BuffersOwned' /\ \A n \in Names : InHeap(n)' <=> InHeap(n)
    BY <2>1, <2>2, KeptOwned DEF PairInv
  <2> QED
    BY <1>3, <1>5, <1>6, <2>1, <2>3 DEF Owners, Typed, PairInv, ReturnedRight
<1>7. CASE ~(d.cap = cleared.cap /\ ~gaveUp)
  <2>1. /\ Replaces(o, d, alloc'[o])
        /\ returned' = {<<heap[b], IF gaveUp THEN alloc[o] ELSE alloc'[o]>> :
                          b \in Returning(o)}
    BY <1>1, <1>7 DEF CopyTo, Replaces
  <2>2. alloc'[o] \in Allocators
    BY <1>3
  <2>3. /\ BuffersOwned'
        /\ InHeap(o)' => heap'[at'[o]] = alloc'[o]
        /\ \A n \in Names \ {o} :
             (InHeap(n)' <=> InHeap(n)) /\ (InHeap(n) => heap'[at'[n]] = heap[at[n]])
    <3> HIDE DEF gaveUp, cleared
    <3> QED
      BY <1>2, <1>4, <2>1, <2>2, ReplacedOwned
  <2>4. Typed' /\ (Owners => Owners')
    BY <1>3, <2>3 DEF Owners, Typed, PairInv
  <2>5. Owners => ReturnedRight
    <3> HIDE DEF gaveUp
    <3> QED
      BY <1>5, <2>1, ReturningIs DEF PairInv, Owners, Typed, ReturnedRight
  <2> QED
    BY <2>3, <2>4, <2>5
<1> QED
  BY <1>6, <1>7

\* a = a
LEMMA CopySelfOwned ==
  ASSUME PairInv, UNCHANGED propagates, NEW o \in Names, CopyAssignSelf(o)
  PROVE  BuffersOwned' /\ Typed' /\ (Owners => Owners' /\ ReturnedRight)
<1>1. UNCHANGED <<at, heap>> /\ UNCHANGED <<obj, alloc>> /\ returned' = {}
  BY DEF CopyAssignSelf, KeepBuffers
<1>2. BuffersOwned' /\ \A n \in Names : InHeap(n)' <=> InHeap(n)
  BY <1>1, KeptOwned DEF PairInv
<1> QED
  BY <1>1, <1>2 DEF Owners, Typed, PairInv, ReturnedRight

\* The move assignment that takes the buffer.
LEMMA StealOwned ==
  ASSUME PairInv, UNCHANGED propagates, SmallStays,
         NEW o \in Names, NEW p \in Names, MoveAssignStealing(o, p)
  PROVE  BuffersOwned' /\ Typed' /\ (Owners => Owners' /\ ReturnedRight)
<1>1. SBuf = 0 \/ p = o
  BY DEF MoveAssignStealing, SmallStays, Avoids
<1>2. /\ ~IsSmall(obj[p]) /\ Steal(o, p, o)
      /\ heap' = [b \in Buffers |-> IF b \in Returning(o) THEN Free ELSE heap[b]]
      /\ alloc' = AfterAllocatorCopy(o, p)
      /\ propagates \/ alloc[o] = alloc[p]
      /\ returned' = {<<heap[b], alloc[o]>> : b \in Returning(o)}
  BY DEF MoveAssignStealing, CanSteal
<1>3. /\ BuffersOwned' /\ ~InHeap(p)'
      /\ o # p => (InHeap(o)' <=> InHeap(p))
      /\ o # p /\ InHeap(p) => heap'[at'[o]] = heap[at[p]]
  BY <1>1, <1>2, StolenOwned
<1>4. /\ alloc' \in [Names -> Allocators]
      /\ alloc'[o] = alloc[p]
      /\ \A n \in Names \ {o} : alloc'[n] = alloc[n]
  BY <1>2, AllocatorAfterCopy DEF PairInv
<1>5. ASSUME Owners, NEW n \in Names, InHeap(n)' PROVE heap'[at'[n]] = alloc'[n]
  <2>1. n # p
    BY <1>3, <1>5
  <2>2. CASE n = o
    BY <1>3, <1>4, <1>5, <2>1, <2>2 DEF Owners, Typed, PairInv
  <2>3. CASE n # o
    <3>1. o = p
      BY <2>1, <2>3 DEF Names
    <3>2. at'[n] = at[n] /\ obj'[n] = obj[n] /\ InHeap(n)
      BY <1>2, <1>5, <2>1, <2>3 DEF Steal, InHeap, PairInv, Shapes, BuffersOwned
    <3>3. heap'[at[n]] = heap[at[n]]
      BY <1>2, <2>3, <3>2, ReturningIs DEF PairInv, BuffersOwned
    <3> QED
      BY <1>4, <1>5, <2>3, <3>2, <3>3 DEF Owners
  <2> QED
    BY <2>2, <2>3
<1>6. Owners => ReturnedRight
  BY <1>2, ReturningIs DEF PairInv, Owners, Typed, ReturnedRight
<1> QED
  BY <1>3, <1>4, <1>5, <1>6 DEF Owners, Typed, PairInv

\* The move assignment that moves the elements one by one.
LEMMA MoveElementsOwned ==
  ASSUME PairInv, UNCHANGED propagates, NEW o \in Names, NEW p \in Names,
         MoveAssignElements(o, p)
  PROVE  /\ BuffersOwned'
         /\ Typed'
         /\ SameAllocator /\ Owners => Owners' /\ ReturnedRight
<1> DEFINE xs == Contents(obj[p])
           d  == Assign(obj[o], xs)
<1>1. Fit(d) /\ Fit(obj[o]) /\ d.buf \in {"small", "heap"}
  <2>1. xs \in Seq(Object) /\ AssignOk(obj[o], Len(xs)) /\ Fit(obj[o])
    BY ContentsSeq DEF PairInv, Shapes, Fit, MoveAssignElements
  <2> QED
    BY <2>1, AssignFits, FitFrees
<1>2. /\ obj'[o] = d
      /\ \A n \in Names \ {o} : obj'[n].buf = obj[n].buf
  <2>1. MovedFrom(obj[p]).buf = obj[p].buf
    BY MovedFromFits DEF PairInv, Shapes
  <2>2. obj' = IF o = p THEN [obj EXCEPT ![o] = d]
               ELSE [obj EXCEPT ![o] = d, ![p] = MovedFrom(obj[p])]
    BY DEF MoveAssignElements
  <2> HIDE DEF d
  <2> QED
    BY <2>1, <2>2 DEF PairInv, Shapes
<1>3. /\ alloc' \in [Names -> Allocators]
      /\ SameAllocator => alloc'[o] = alloc[o]
      /\ \A n \in Names \ {o} : alloc'[n] = alloc[n]
  BY AllocatorAfterCopy DEF MoveAssignElements, SameAllocator, Avoids, PairInv
<1>4. IF d.cap = obj[o].cap THEN KeepBuffers ELSE Rebuffer(o, d, alloc'[o])
  BY DEF MoveAssignElements
<1> HIDE DEF d
<1>5. CASE d.cap = obj[o].cap
  <2>1. UNCHANGED <<at, heap>> /\ returned' = {}
    BY <1>4, <1>5 DEF KeepBuffers
  <2>2. \A n \in Names : obj'[n].buf = obj[n].buf
    BY <1>1, <1>2, <1>5, SameCapacity
  <2>3. BuffersOwned' /\ \A n \in Names : InHeap(n)' <=> InHeap(n)
    BY <2>1, <2>2, KeptOwned DEF PairInv
  <2> QED
    BY <1>3, <2>1, <2>3 DEF Owners, Typed, PairInv, ReturnedRight
<1>6. CASE d.cap # obj[o].cap
  <2>1. /\ Replaces(o, d, alloc'[o])
        /\ returned' = {<<heap[b], alloc'[o]>> : b \in Returning(o)}
    BY <1>4, <1>6 DEF Rebuffer, Replaces
  <2>2. alloc'[o] \in Allocators
    BY <1>3
  <2>3. /\ BuffersOwned'
        /\ InHeap(o)' => heap'[at'[o]] = alloc'[o]
        /\ \A n \in Names \ {o} :
             (InHeap(n)' <=> InHeap(n)) /\ (InHeap(n) => heap'[at'[n]] = heap[at[n]])
    BY <1>1, <1>2, <2>1, <2>2, ReplacedOwned
  <2>4. Typed' /\ (Owners => Owners')
    BY <1>3, <2>3 DEF Owners, Typed, PairInv
  <2>5. SameAllocator /\ Owners => ReturnedRight
    BY <1>3, <2>1, ReturningIs DEF PairInv, Owners, Typed, ReturnedRight
  <2> QED
    BY <1>3, <2>3, <2>4, <2>5
<1> QED
  BY <1>5, <1>6

\* swap exchanges the allocators with the buffers, or they are equal.
LEMMA SwapOwned ==
  ASSUME PairInv, UNCHANGED propagates, NEW o \in Names, NEW p \in Names, Swap(o, p)
  PROVE  BuffersOwned' /\ Typed' /\ (Owners => Owners' /\ ReturnedRight)
<1>1. /\ BuffersOwned'
      /\ heap' = heap
      /\ InHeap(o)' <=> InHeap(p)
      /\ InHeap(p)' <=> InHeap(o)
      /\ InHeap(p) => at'[o] = at[p]
      /\ InHeap(o) => at'[p] = at[o]
      /\ \A n \in Names \ {o, p} : InHeap(n)' = InHeap(n) /\ at'[n] = at[n]
  BY SwappedOwned
<1>2. /\ alloc' \in [Names -> Allocators]
      /\ alloc'[o] = alloc[p] /\ alloc'[p] = alloc[o]
      /\ \A n \in Names \ {o, p} : alloc'[n] = alloc[n]
      /\ returned' = {}
  BY DEF Swap, Owners, Typed, PairInv
<1>3. Typed' /\ (Owners => Owners')
  BY <1>1, <1>2 DEF Owners, Typed, PairInv
<1> QED
  BY <1>1, <1>2, <1>3 DEF ReturnedRight

\* devector(const devector&, allocator)
LEMMA CopyConstructOwned ==
  ASSUME PairInv, UNCHANGED propagates, NEW o \in Names, NEW p \in Names,
         NEW al \in Allocators, CopyConstruct(o, p, al)
  PROVE  BuffersOwned' /\ Typed' /\ (Owners => Owners' /\ ReturnedRight)
<1> DEFINE d == Constructed(Contents(obj[p]))
<1>1. Fit(d) /\ d.buf \in {"small", "heap"}
  BY ConstructedFits, FitFrees DEF PairInv, Shapes
<1>2. /\ obj'[o] = d /\ \A n \in Names \ {o} : obj'[n] = obj[n]
      /\ Replaces(o, d, al)
      /\ returned' = {<<heap[b], alloc[o]>> : b \in Returning(o)}
      /\ alloc' = [alloc EXCEPT ![o] = al]
  BY DEF CopyConstruct, Replaces, PairInv, Shapes
<1> HIDE DEF d
<1>3. obj'[o].buf = d.buf /\ \A n \in Names \ {o} : obj'[n].buf = obj[n].buf
  BY <1>2
<1>4. /\ BuffersOwned'
      /\ InHeap(o)' => heap'[at'[o]] = al
      /\ \A n \in Names \ {o} :
           (InHeap(n)' <=> InHeap(n)) /\ (InHeap(n) => heap'[at'[n]] = heap[at[n]])
  BY <1>1, <1>2, <1>3, ReplacedOwned
<1>5. Typed' /\ (Owners => Owners')
  BY <1>2, <1>4 DEF Owners, Typed, PairInv
<1>6. Owners => ReturnedRight
  BY <1>2, ReturningIs DEF PairInv, Owners, Typed, ReturnedRight
<1> QED
  BY <1>4, <1>5, <1>6

\* devector(devector&&, allocator)
LEMMA MoveConstructOwned ==
  ASSUME PairInv, UNCHANGED propagates, NEW o \in Names, NEW p \in Names,
         NEW al \in Allocators, MoveConstruct(o, p, al)
  PROVE  /\ BuffersOwned' /\ Typed'
         /\ Owners => ReturnedRight
         /\ SameAllocator /\ Owners => Owners'
<1>1. /\ o # p
      /\ SameAllocator => al = alloc[p]
      /\ heap' = [b \in Buffers |-> IF b \in Returning(o) THEN Free ELSE heap[b]]
      /\ returned' = {<<heap[b], alloc[o]>> : b \in Returning(o)}
      /\ alloc' = [alloc EXCEPT ![o] = al]
  BY DEF MoveConstruct, SameAllocator, Avoids
<1>2. Owners => ReturnedRight
  BY <1>1, ReturningIs DEF PairInv, Owners, Typed, ReturnedRight
<1>3. alloc' \in [Names -> Allocators] /\ alloc'[o] = al /\ \A n \in Names \ {o} : alloc'[n] = alloc[n]
  BY <1>1 DEF Owners, Typed, PairInv
<1>4. CASE IsSmall(obj[p])
  <2>1. /\ obj' = [obj EXCEPT ![o] = obj[p], ![p] = MovedFrom(@)]
        /\ at' = [at EXCEPT ![o] = SmallBufferOf(o)]
    BY <1>4 DEF MoveConstruct
  <2>2. MovedFrom(obj[p]).buf = obj[p].buf
    BY MovedFromFits DEF PairInv, Shapes
  <2>3. obj[p].buf = "small"
    BY <1>4, FitFrees DEF PairInv, Shapes, MustFree
  <2> DEFINE d == obj[p]
  <2>4. /\ obj'[o].buf = d.buf /\ d.buf \in {"small", "heap"}
        /\ \A n \in Names \ {o} : obj'[n].buf = obj[n].buf
    BY <1>1, <2>1, <2>2, <2>3 DEF PairInv, Shapes
  <2>5. Replaces(o, d, al)
    BY <1>1, <2>1, <2>3 DEF Replaces, Where
  <2>6. /\ BuffersOwned'
        /\ InHeap(o)' => heap'[at'[o]] = al
        /\ \A n \in Names \ {o} :
             (InHeap(n)' <=> InHeap(n)) /\ (InHeap(n) => heap'[at'[n]] = heap[at[n]])
    <3> HIDE DEF d
    <3> QED
      BY <2>4, <2>5, ReplacedOwned
  <2>7. Typed' /\ (Owners => Owners')
    BY <1>3, <2>6 DEF Owners, Typed, PairInv
  <2> QED
    BY <1>2, <1>3, <2>6, <2>7
<1>5. CASE ~IsSmall(obj[p])
  <2>1. Steal(o, p, p)
    BY <1>5 DEF MoveConstruct
  <2>2. /\ BuffersOwned' /\ ~InHeap(p)'
        /\ InHeap(o)' <=> InHeap(p)
        /\ InHeap(p) => heap'[at'[o]] = heap[at[p]]
    BY <1>1, <1>5, <2>1, StolenOwned
  <2>3. ASSUME SameAllocator, Owners, NEW n \in Names, InHeap(n)' PROVE heap'[at'[n]] = alloc'[n]
    <3>1. n = o
      BY <1>1, <2>2, <2>3 DEF Names
    <3> QED
      BY <1>1, <1>3, <2>2, <2>3, <3>1 DEF Owners, Typed, PairInv
  <2> QED
    BY <1>2, <1>3, <2>2, <2>3 DEF Owners, Typed, PairInv
<1> QED
  BY <1>4, <1>5

-----------------------------------------------------------------------------
\* Every call

\* One of the calls, or none.
LEMMA NextCases ==
  ASSUME [Next]_pairVars
  PROVE  UNCHANGED propagates /\
         (\/ UNCHANGED pairVars
          \/ \E o \in Names : Edit(o) \/ CopyAssignSelf(o)
          \/ \E o, p \in Names :
               \/ CopyAssign(o, p) \/ MoveAssignStealing(o, p)
               \/ MoveAssignElements(o, p) \/ Swap(o, p)
          \/ \E o, p \in Names, al \in Allocators :
               CopyConstruct(o, p, al) \/ MoveConstruct(o, p, al))
  BY DEF Next, pairVars


\* Nothing happens.
LEMMA NothingCalled ==
  ASSUME PairInv, UNCHANGED pairVars
  PROVE  PairInv' /\ (Owners => Owners')
<1>1. \A o \in Names : (InHeap(o)' <=> InHeap(o)) /\ SmallBufferOf(o)' = SmallBufferOf(o)
  BY DEF InHeap, pairVars, SmallBufferOf
<1> QED
  BY <1>1 DEF PairInv, Shapes, BuffersOwned, Owners, Typed, pairVars

\* Every call keeps the buffers owned and, without the hazards, with the right owner.
LEMMA PairNext ==
  ASSUME SmallStays, PairInv, [Next]_pairVars
  PROVE  /\ PairInv'
         /\ SameAllocator /\ Owners => Owners'
         /\ SameAllocator /\ Owners /\ ~UNCHANGED pairVars => ReturnedRight
<1>1. Shapes'
  BY ShapesNext DEF PairInv
<1>2. CASE UNCHANGED pairVars
  BY <1>2, NothingCalled
<1>3. UNCHANGED propagates
  BY NextCases
<1>4. CASE \E o \in Names : Edit(o) \/ CopyAssignSelf(o)
  BY <1>1, <1>3, <1>4, EditOwned, CopySelfOwned DEF PairInv
<1>5. CASE \E o, p \in Names :
             \/ CopyAssign(o, p) \/ MoveAssignStealing(o, p)
             \/ MoveAssignElements(o, p) \/ Swap(o, p)
  <2>1. PICK o, p \in Names :
          \/ CopyAssign(o, p) \/ MoveAssignStealing(o, p)
          \/ MoveAssignElements(o, p) \/ Swap(o, p)
    BY <1>5
  <2>2. /\ BuffersOwned' /\ Typed'
        /\ SameAllocator /\ Owners => Owners' /\ ReturnedRight
    BY <1>3, <2>1, CopyOwned, StealOwned, MoveElementsOwned, SwapOwned
  <2> QED
    BY <1>1, <2>2 DEF PairInv
<1>6. CASE \E o, p \in Names, al \in Allocators :
             CopyConstruct(o, p, al) \/ MoveConstruct(o, p, al)
  <2>1. PICK o, p \in Names, al \in Allocators :
          CopyConstruct(o, p, al) \/ MoveConstruct(o, p, al)
    BY <1>6
  <2>2. /\ BuffersOwned' /\ Typed'
        /\ SameAllocator /\ Owners => Owners' /\ ReturnedRight
    BY <1>3, <2>1, CopyConstructOwned, MoveConstructOwned
  <2> QED
    BY <1>1, <2>2 DEF PairInv
<1> QED
  BY <1>2, <1>4, <1>5, <1>6, NextCases

\* So it is at first.
LEMMA PairInit == Init => PairInv /\ Owners
  BY ShapesInit, InitOwned DEF PairInv

\* So it always is.
LEMMA AlwaysOwned ==
  ASSUME SmallStays
  PROVE  Spec => []PairInv
<1>1. PairInv /\ [Next]_pairVars => PairInv'
  BY PairNext
<1> QED
  BY <1>1, PairInit, PTL DEF Spec

\* Each buffer in the heap is used by one devector: none is leaked, shared or used after it
\* was returned, if no devector takes the place of another one's small buffer
\* (operator=(devector&&) leaves `from` with the small buffer of *this).
THEOREM PairsShareNothing ==
  ASSUME "steal into a small buffer" \in Avoided \/ SBuf = 0
  PROVE  Spec => []OneUserEach
<1>0. SmallStays
  BY DEF SmallStays, Avoids
<1>1. PairInv => OneUserEach
  <2> SUFFICES ASSUME PairInv PROVE OneUserEach
    OBVIOUS
  <2>1. {b \in Buffers : heap[b] # Free}
          = {at[o] : o \in {o \in Names : obj[o].buf = "heap"}}
    <3>1. ASSUME NEW b \in Buffers, heap[b] # Free
          PROVE  \E o \in {o \in Names : obj[o].buf = "heap"} : b = at[o]
      BY <3>1 DEF PairInv, BuffersOwned, InHeap
    <3>2. ASSUME NEW o \in {o \in Names : obj[o].buf = "heap"}
          PROVE  at[o] \in Buffers /\ heap[at[o]] # Free
      BY DEF PairInv, BuffersOwned, InHeap
    <3>3. {b \in Buffers : heap[b] # Free}
            \subseteq {at[o] : o \in {o \in Names : obj[o].buf = "heap"}}
      BY <3>1, Zenon
    <3>4. {at[o] : o \in {o \in Names : obj[o].buf = "heap"}}
            \subseteq {b \in Buffers : heap[b] # Free}
      BY <3>2, Zenon
    <3> QED
      BY <3>3, <3>4, Zenon
  <2>2. ASSUME at["a"] = at["b"] PROVE at["a"] = "null"
    <3>1. "a" \in Names /\ "b" \in Names /\ "a" # "b"
      BY DEF Names
    <3>2. ~(InHeap("a") /\ InHeap("b"))
      BY <2>2, <3>1 DEF PairInv, BuffersOwned
    <3>3. ~InHeap("a") /\ ~InHeap("b")
      <4>1. SmallBufferOf("a") \notin Buffers /\ SmallBufferOf("b") \notin Buffers
        BY <3>1, SmallBufferIs
      <4>2. /\ InHeap("a") => at["a"] \in Buffers
            /\ InHeap("b") => at["b"] \in Buffers
            /\ ~InHeap("a") => at["a"] = SmallBufferOf("a")
            /\ ~InHeap("b") => at["b"] = SmallBufferOf("b")
        BY <3>1 DEF PairInv, BuffersOwned
      <4> QED
        BY <2>2, <3>2, <4>1, <4>2
    <3>4. at["a"] = SmallBufferOf("a") /\ at["b"] = SmallBufferOf("b")
      BY <3>1, <3>3 DEF PairInv, BuffersOwned
    <3> QED
      BY <2>2, <3>1, <3>4 DEF SmallBufferOf
  <2> QED
    BY <2>1, <2>2 DEF OneUserEach
<1> QED
  BY <1>0, <1>1, AlwaysOwned, PTL

\* The small buffer is within the object.
LEMMA OwnInside ==
  ASSUME PairInv
  PROVE  OwnSmallBuffer
<1>1. SBuf > 0 => SBuf # 0
  BY SizesAssumption DEF Size
<1>2. \A o \in Names : obj[o].buf = "small" => at[o] = SmallBufferOf(o)
  BY DEF PairInv, BuffersOwned, InHeap
<1> QED
  BY <1>1, <1>2 DEF OwnSmallBuffer, SmallBufferOf

\* A devector without a buffer in the heap uses the small buffer within itself, under the
\* same condition.
THEOREM PairsUseTheirOwn ==
  ASSUME "steal into a small buffer" \in Avoided \/ SBuf = 0
  PROVE  Spec => []OwnSmallBuffer
<1>0. SmallStays
  BY DEF SmallStays, Avoids
<1>1. PairInv => OwnSmallBuffer
  BY OwnInside
<1> QED
  BY <1>0, <1>1, AlwaysOwned, PTL

\* Each buffer was obtained from the allocator of its user and is returned to where it came
\* from, by assignments, constructions and destructions, propagating allocators or not, if
\* the caller avoids the two operations that mix unequal allocators.
THEOREM BuffersGoHome ==
  ASSUME "steal into a small buffer" \in Avoided \/ SBuf = 0,
         "construct with an unequal allocator" \in Avoided,
         "move a small one across allocators" \in Avoided
  PROVE  Spec => RightAllocator
<1>0. SmallStays /\ SameAllocator
  BY DEF SmallStays, SameAllocator, Avoids
<1>1. PairInv /\ Owners /\ [Next]_pairVars => PairInv' /\ Owners'
  BY <1>0, PairNext
<1>2. PairInv /\ Owners /\ [Next]_pairVars =>
        [/\ \A o \in Names : obj'[o].buf = "heap" => heap'[at'[o]] = alloc'[o]
         /\ \A r \in returned' : r[1] = r[2]]_pairVars
  <2> SUFFICES ASSUME PairInv, Owners, [Next]_pairVars, ~UNCHANGED pairVars
               PROVE  /\ \A o \in Names : obj'[o].buf = "heap" => heap'[at'[o]] = alloc'[o]
                      /\ \A r \in returned' : r[1] = r[2]
    OBVIOUS
  <2>1. Owners' /\ ReturnedRight
    BY <1>0, PairNext
  <2> QED
    BY <2>1 DEF Owners, InHeap, ReturnedRight
<1> QED
  BY <1>1, <1>2, PairInit, PTL DEF Spec, RightAllocator

-----------------------------------------------------------------------------
\* The contract

\* The two sequences.
Seqs == [o \in Names |-> Contents(obj[o])]

\* They are sequences of objects.
LEMMA SeqsAre ==
  ASSUME Shapes
  PROVE  \A o \in Names : Seqs[o] = Contents(obj[o]) /\ Seqs[o] \in Seq(Object)
  BY ContentsSeq DEF Shapes, Fit, Seqs

\* Each call does to the two sequences what the contract says, or nothing.
LEMMA PairStepImplements ==
  ASSUME "copy" \in Excepted, Shapes, [Next]_pairVars
  PROVE  [Contract!Next]_<<Seqs, call>>
<1>0. Shapes' /\ \A o \in Names : Seqs'[o] = Contents(obj'[o]) /\ Seqs'[o] \in Seq(Object)
  <2>1. Shapes'
    BY ShapesNext
  <2>2. \A o \in Names : Contents(obj'[o]) \in Seq(Object)
    BY <2>1, ContentsSeq DEF Shapes, Fit
  <2> QED
    BY <2>1, <2>2 DEF Seqs
<1>1. \A o \in Names : Seqs[o] = Contents(obj[o]) /\ Seqs[o] \in Seq(Object)
  BY SeqsAre
<1>2. \A o \in Names : \A i \in DOMAIN Seqs'[o] : Seqs'[o][i] \in Object
  BY <1>0
<1>3. CASE UNCHANGED pairVars
  BY <1>3 DEF pairVars, Seqs
<1>4. ASSUME NEW o \in Names, Edit(o) PROVE Contract!ToOne
  <2>1. \A n \in Names \ {o} : obj'[n] = obj[n]
    BY <1>4 DEF Edit, Become, Shapes
  <2>2. call'.op = "edit" /\ call'.out = "ok" /\ call'.to = o
    BY <1>4 DEF Edit, Is
  <2> QED
    BY <1>0, <1>1, <2>1, <2>2 DEF Contract!ToOne, Contract!Done, Contract!Others
<1>5. ASSUME NEW o \in Names, CopyAssignSelf(o) PROVE Contract!Copy
  BY <1>0, <1>1, <1>5 DEF CopyAssignSelf, Is, Contract!Copy, Contract!Done, Contract!Others
<1>6. ASSUME NEW o \in Names, NEW p \in Names, CopyAssign(o, p)
      PROVE  Contract!Copy \/ Contract!Threw
  <2>1. PICK d : CopyTo(o, p, d) /\ (call'.out = "ok" => Contents(d) = Contents(obj[p]))
    BY <1>6, CopyShapes
  <2>2. obj'[o] = d /\ \A n \in Names \ {o} : obj'[n] = obj[n]
    BY <2>1 DEF CopyTo, Shapes
  <2>3. call'.op = "copy" /\ call'.to = o /\ call'.from = p /\ call'.out \in {"ok", "threw"}
    BY <1>6 DEF CopyAssign, Is
  <2> QED
    BY <1>0, <1>1, <1>2, <2>1, <2>2, <2>3
       DEF Contract!Copy, Contract!Threw, Contract!Done, Contract!Others
<1>7. ASSUME NEW o \in Names, NEW p \in Names, MoveAssignStealing(o, p) PROVE Contract!Move
  <2>1. /\ o # p => obj'[o] = obj[p]
        /\ \A n \in Names \ {o, p} : obj'[n] = obj[n]
    BY <1>7 DEF MoveAssignStealing, Steal, Shapes
  <2>2. call'.op = "move" /\ call'.to = o /\ call'.from = p /\ call'.out = "ok"
    BY <1>7 DEF MoveAssignStealing, Is
  <2> QED
    BY <1>0, <1>1, <1>2, <2>1, <2>2 DEF Contract!Move, Contract!Done, Contract!Others
<1>8. ASSUME NEW o \in Names, NEW p \in Names, MoveAssignElements(o, p) PROVE Contract!Move
  <2> DEFINE xs == Contents(obj[p])
             d  == Assign(obj[o], xs)
  <2>1. Contents(d) = xs
    <3>1. xs \in Seq(Object) /\ AssignOk(obj[o], Len(xs)) /\ Fit(obj[o])
      BY <1>8, ContentsSeq DEF Shapes, Fit, MoveAssignElements
    <3> QED
      BY <3>1, AssignFits
  <2>2. obj' = IF o = p THEN [obj EXCEPT ![o] = d]
               ELSE [obj EXCEPT ![o] = d, ![p] = MovedFrom(obj[p])]
    BY <1>8 DEF MoveAssignElements
  <2> HIDE DEF d
  <2>3. obj'[o] = d \/ o = p
    BY <2>2 DEF Shapes
  <2>4. \A n \in Names \ {o, p} : obj'[n] = obj[n]
    BY <2>2 DEF Shapes
  <2>5. call'.op = "move" /\ call'.to = o /\ call'.from = p /\ call'.out = "ok"
    BY <1>8 DEF MoveAssignElements, Is
  <2> QED
    BY <1>0, <1>1, <1>2, <2>1, <2>3, <2>4, <2>5
       DEF Contract!Move, Contract!Done, Contract!Others
<1>9. ASSUME NEW o \in Names, NEW p \in Names, Swap(o, p) PROVE Contract!Swap
  <2>1. /\ obj'[o] = obj[p] /\ obj'[p] = obj[o]
        /\ \A n \in Names \ {o, p} : obj'[n] = obj[n]
    BY <1>9 DEF Swap, AfterSwap, Shapes
  <2>2. call'.op = "swap" /\ call'.to = o /\ call'.from = p /\ call'.out = "ok"
    BY <1>9 DEF Swap, Is
  <2> QED
    BY <1>0, <1>1, <2>1, <2>2 DEF Contract!Swap, Contract!Done, Contract!Others
<1>10. ASSUME NEW o \in Names, NEW p \in Names, NEW al, CopyConstruct(o, p, al)
       PROVE  Contract!Copy
  <2> DEFINE d == Constructed(Contents(obj[p]))
  <2>1. Contents(d) = Contents(obj[p])
    BY ConstructedFits DEF Shapes
  <2>2. obj'[o] = d /\ \A n \in Names \ {o} : obj'[n] = obj[n]
    BY <1>10 DEF CopyConstruct, Shapes
  <2>3. call'.op = "copy" /\ call'.to = o /\ call'.from = p /\ call'.out = "ok"
    BY <1>10 DEF CopyConstruct, Is
  <2> HIDE DEF d
  <2> QED
    BY <1>0, <1>1, <2>1, <2>2, <2>3 DEF Contract!Copy, Contract!Done, Contract!Others
<1>11. ASSUME NEW o \in Names, NEW p \in Names, NEW al, MoveConstruct(o, p, al)
       PROVE  Contract!Move
  <2>1. o # p /\ obj'[o] = obj[p] /\ \A n \in Names \ {o, p} : obj'[n] = obj[n]
    BY <1>11 DEF MoveConstruct, Steal, Shapes
  <2>2. call'.op = "move" /\ call'.to = o /\ call'.from = p /\ call'.out = "ok"
    BY <1>11 DEF MoveConstruct, Is
  <2> QED
    BY <1>0, <1>1, <1>2, <2>1, <2>2 DEF Contract!Move, Contract!Done, Contract!Others
<1> QED
  BY <1>3, <1>4, <1>5, <1>6, <1>7, <1>8, <1>9, <1>10, <1>11, NextCases DEF Contract!Next

\* Copying, moving and swapping, if they return, do to the contents what the documentation
\* says, and nothing to another devector, whether the buffer, the elements or a small buffer
\* is what moves; with the same exception, where both would write to one small buffer.  A
\* copy assignment that throws leaves some elements in its target and nothing else changed:
\* the documented strong guarantee is not proved, since it is not kept.
THEOREM PairImplementsContract ==
  ASSUME "steal into a small buffer" \in Avoided \/ SBuf = 0, "copy" \in Excepted
  PROVE  Spec => ImplementsPairContract
<1>1. Init => Contract!Init
  <2> SUFFICES ASSUME Init PROVE Seqs \in [Names -> Seq(Object)]
    BY DEF Contract!Init, Seqs
  <2> QED
    BY ShapesInit, SeqsAre DEF Seqs
<1>2. Shapes /\ [Next]_pairVars => [Contract!Next]_<<Seqs, call>>
  BY PairStepImplements
<1> QED
  BY <1>1, <1>2, AlwaysShapes, PTL DEF Spec, ImplementsPairContract, Contract!Spec, Seqs

-----------------------------------------------------------------------------
\* The swap of two small ones, step by step: what is moved and what is exchanged, as it was
\* when swap was called

\* The slots of d that hold its elements
Spans(d, a) == d.front =< a /\ a < d.back

\* Who has the elements at the start without a pair, and where they are
startOwner == IF before["this"].front < before["b"].front THEN "this" ELSE "b"
startLo == before[startOwner].front
startHi ==
  IF before["this"].front = before["b"].front THEN startLo
  ELSE Smaller(before[startOwner].back, before[Other(startOwner)].front)

\* Who has those at the end, and where they are
endOwner == IF before["this"].back > before["b"].back THEN "this" ELSE "b"
endHi == before[endOwner].back
endLo ==
  IF before["this"].back = before["b"].back THEN endHi
  ELSE Larger(before[endOwner].front, before[Other(endOwner)].back)

\* Where the pairs are
pairLo == Smaller(Larger(before["this"].front, before["b"].front), before["this"].back)
pairHi == Smaller(before["this"].back, before["b"].back)

\* What swap is called with: two devectors in their small buffers, of which *this is not
\* entirely above the other one.
Called ==
  /\ before = [o \in Sides |-> before[o]]
  /\ \A o \in Sides :
       /\ before[o] \in DevectorType /\ before[o].cap = SBuf /\ before[o].buf = "small"
       /\ InvariantsOk(before[o]) /\ LiveExactly(before[o])
  /\ before["this"].front =< before["b"].back

\* The indices have not changed since.
SameMembers == \A o \in Sides : side[o] = [before[o] EXCEPT !.slots = side[o].slots]

\* The indices of both are in order.
LEMMA CalledIndices ==
  ASSUME Called, NEW o \in Sides
  PROVE  /\ before[o].front \in Nat /\ before[o].back \in Nat /\ SBuf \in Nat
         /\ before[o].front =< before[o].back /\ before[o].back =< SBuf /\ SBuf =< MaxSize
         /\ Other(o) \in Sides /\ Other(o) # o /\ Other(Other(o)) = o
  BY SizesAssumption DEF Called, DevectorType, InvariantsOk, Size, Sides, Other

\* The places and owners are the code's.
LEMMA PlanIs ==
  ASSUME Called, SameMembers
  PROVE  /\ HasMoreInFront = startOwner /\ side[startOwner].front = startLo
         /\ FrontEnd = startHi
         /\ HasMoreAtBack = endOwner /\ BackStart = endLo /\ BackEnd = endHi
         /\ ExchangeStart = pairLo /\ ExchangeEnd = pairHi
         /\ ExchangeInB = Larger(before["this"].front, before["b"].front)
<1>1. \A o \in Sides : side[o].front = before[o].front /\ side[o].back = before[o].back
  BY DEF SameMembers, Called, DevectorType
<1>2. "this" \in Sides /\ "b" \in Sides /\ Other("this") = "b" /\ Other("b") = "this"
  BY DEF Sides, Other
<1> QED
  BY <1>1, <1>2 DEF HasMoreInFront, FrontEnd, HasMoreAtBack, BackStart, BackEnd, ExchangeStart,
     ExchangeEnd, ExchangeInB, This, B, startOwner, startLo, startHi, endOwner, endLo, endHi,
     pairLo, pairHi

\* They are apart, in this order, and are all the slots with elements: those of one of the
\* two only, and those of both.
LEMMA PlanCovers ==
  ASSUME Called
  PROVE  /\ startOwner \in Sides /\ endOwner \in Sides
         /\ {startLo, startHi, pairLo, pairHi, endLo, endHi} \subseteq Nat
         /\ startLo =< startHi /\ startHi =< pairLo /\ pairLo =< pairHi
         /\ pairHi =< endLo /\ endLo =< endHi /\ endHi =< SBuf
         /\ pairLo < pairHi => Larger(before["this"].front, before["b"].front) = pairLo
         /\ \A o \in Sides : \A a \in Int :
              Spans(before[o], a) <=> \/ startLo =< a /\ a < startHi /\ startOwner = o
                                      \/ pairLo =< a /\ a < pairHi
                                      \/ endLo =< a /\ a < endHi /\ endOwner = o
<1> DEFINE tf == before["this"].front  tb == before["this"].back
           bf == before["b"].front     bb == before["b"].back
<1>1. /\ tf \in Nat /\ tb \in Nat /\ tf =< tb /\ tb =< SBuf
      /\ bf \in Nat /\ bb \in Nat /\ bf =< bb /\ bb =< SBuf /\ SBuf \in Nat
      /\ tf =< bb
  BY CalledIndices DEF Sides, Called
<1>2. Sides = {"this", "b"} /\ Other("this") = "b" /\ Other("b") = "this"
  BY DEF Sides, Other
<1>3. /\ startLo = Smaller(tf, bf)
      /\ startHi = IF tf < bf THEN Smaller(tb, bf)
                   ELSE IF tf = bf THEN tf ELSE Smaller(bb, tf)
      /\ startOwner = IF tf < bf THEN "this" ELSE "b"
  BY <1>1, <1>2 DEF startLo, startHi, startOwner, Smaller
<1>4. /\ endHi = Larger(tb, bb)
      /\ endLo = IF tb > bb THEN Larger(tf, bb)
                 ELSE IF tb = bb THEN tb ELSE Larger(bf, tb)
      /\ endOwner = IF tb > bb THEN "this" ELSE "b"
  BY <1>1, <1>2 DEF endLo, endHi, endOwner, Larger
<1>5. pairLo = Smaller(Larger(tf, bf), tb) /\ pairHi = Smaller(tb, bb)
  BY DEF pairLo, pairHi
<1> HIDE DEF tf, tb, bf, bb
<1>6. /\ startOwner \in Sides /\ endOwner \in Sides
      /\ {startLo, startHi, pairLo, pairHi, endLo, endHi} \subseteq Nat
      /\ startLo =< startHi /\ startHi =< pairLo /\ pairLo =< pairHi
      /\ pairHi =< endLo /\ endLo =< endHi /\ endHi =< SBuf
      /\ pairLo < pairHi => Larger(tf, bf) = pairLo
  BY <1>1, <1>2, <1>3, <1>4, <1>5 DEF Smaller, Larger
<1>7. \A a \in Int : tf =< a /\ a < tb <=>
        \/ startLo =< a /\ a < startHi /\ startOwner = "this"
        \/ pairLo =< a /\ a < pairHi
        \/ endLo =< a /\ a < endHi /\ endOwner = "this"
  BY <1>1, <1>3, <1>4, <1>5 DEF Smaller, Larger
<1>8. \A a \in Int : bf =< a /\ a < bb <=>
        \/ startLo =< a /\ a < startHi /\ startOwner = "b"
        \/ pairLo =< a /\ a < pairHi
        \/ endLo =< a /\ a < endHi /\ endOwner = "b"
  BY <1>1, <1>3, <1>4, <1>5 DEF Smaller, Larger
<1> QED
  BY <1>2, <1>6, <1>7, <1>8 DEF Spans, tf, tb, bf, bb

\* The slots with elements of one of the two only, and those of both
AtStart(a) == startLo =< a /\ a < startHi
Paired(a)  == pairLo =< a /\ a < pairHi
AtEnd(a)   == endLo =< a /\ a < endHi

\* What was in them.
LEMMA BeforeHolds ==
  ASSUME Called, NEW a \in Address
  PROVE  /\ a \in Int /\ ~(AtStart(a) /\ Paired(a)) /\ ~(AtStart(a) /\ AtEnd(a))
         /\ ~(Paired(a) /\ AtEnd(a))
         /\ \A o \in Sides : before[o].slots[a] \in Slot
         /\ \A o \in Sides : AtStart(a) /\ o # startOwner => before[o].slots[a] = Raw
         /\ \A o \in Sides : AtEnd(a) /\ o # endOwner => before[o].slots[a] = Raw
         /\ \A o \in Sides : Paired(a) => before[o].slots[a] \in Object
         /\ AtStart(a) => before[startOwner].slots[a] \in Object
         /\ AtEnd(a) => before[endOwner].slots[a] \in Object
         /\ \A o \in Sides : ~AtStart(a) /\ ~AtEnd(a) /\ ~Paired(a) =>
              before[o].slots[a] = Raw
<1>1. a \in Int
  BY SizesAssumption DEF Address
<1>2. \A o \in Sides : /\ before[o].slots[a] \in Slot
                       /\ before[o].slots[a] # Raw <=> Spans(before[o], a)
  BY DEF Called, DevectorType, LiveExactly, Spans
<1>3. \A o \in Sides : Spans(before[o], a) <=> \/ AtStart(a) /\ startOwner = o
                                               \/ Paired(a)
                                               \/ AtEnd(a) /\ endOwner = o
  BY <1>1, PlanCovers DEF AtStart, Paired, AtEnd
<1>4. ~(AtStart(a) /\ Paired(a)) /\ ~(AtStart(a) /\ AtEnd(a)) /\ ~(Paired(a) /\ AtEnd(a))
  BY <1>1, PlanCovers DEF AtStart, Paired, AtEnd
<1>5. startOwner \in Sides /\ endOwner \in Sides
  BY PlanCovers
<1> HIDE DEF AtStart, Paired, AtEnd, Spans
<1> QED
  BY <1>1, <1>2, <1>3, <1>4, <1>5 DEF Slot

-----------------------------------------------------------------------------
\* The guards, and what is in the buffers on the way

\* The slot the copies reach up to
Top(g) == Larger(g.src.at + g.src.count, g.dst.at + g.dst.count)

\* A guard of elements from slot lo up to hi.
Inside(g, lo, hi) ==
  /\ g \in [src : [at : Int, count : Nat], dst : [at : Int, count : Nat], released : BOOLEAN]
  /\ lo =< g.src.at /\ g.src.at + g.src.count =< hi
  /\ lo =< g.dst.at /\ g.dst.at + g.dst.count =< hi

\* Elements are moved: both of each pair of original and copy are guarded.
Growing(g, lo) == g.src = g.dst /\ g.src.at = lo /\ ~g.released

\* The originals are destroyed, the copies stay; or the other way around.
KeepsCopies(g, lo, hi) == Spent(g.dst) /\ g.dst.at = lo /\ g.src.at + g.src.count = hi
KeepsOriginals(g, lo)  == Spent(g.src) /\ g.src.at = lo

\* What o holds in slot a of the elements of `owner` that g guards
GuardedSlot(g, owner, o, a) ==
  IF o = owner
  THEN IF a < g.src.at THEN Raw
       ELSE IF a < Top(g) /\ ~ShiftMayThrow THEN Unspec ELSE before[o].slots[a]
  ELSE IF g.dst.at =< a /\ a < Top(g) THEN before[owner].slots[a] ELSE Raw

\* What it holds in any slot
Holds(o, a) ==
  IF AtStart(a) THEN GuardedSlot(front, startOwner, o, a)
  ELSE IF AtEnd(a) THEN GuardedSlot(back, endOwner, o, a)
  ELSE IF Paired(a) /\ a < place THEN before[Other(o)].slots[a] ELSE before[o].slots[a]

SlotsAre ==
  \A o \in Sides : side[o].slots \in Memory /\ \A a \in Address : side[o].slots[a] = Holds(o, a)

\* How far it has come
Reached ==
  /\ pc \in {"front", "back", "exchange"} => Growing(front, startLo) /\ Growing(back, endLo)
  /\ pc = "front" => Spent(back.src)
  /\ pc \in {"front", "back"} => place = pairLo
  /\ pc \in {"back", "exchange"} => front.src.at + front.src.count = startHi
  /\ pc = "exchange" => back.src.at + back.src.count = endHi
  /\ pc = "success" => /\ KeepsCopies(front, startLo, startHi)
                       /\ KeepsCopies(back, endLo, endHi) /\ place = pairHi
  /\ pc \in {"failure", "threw"} => /\ ShiftMayThrow
                                    /\ KeepsOriginals(front, startLo)
                                    /\ KeepsOriginals(back, endLo)
  /\ pc = "threw" => Spent(front.dst) /\ Spent(back.dst)

\* The inductive invariant
SwapInv ==
  /\ Called
  /\ pc \in {"front", "back", "exchange", "success", "failure", "done", "threw"}
  /\ Inside(front, startLo, startHi) /\ Inside(back, endLo, endHi)
  /\ place \in Int /\ pairLo =< place /\ place =< pairHi
  /\ side = [o \in Sides |-> side[o]]
  /\ pc # "done" => SameMembers /\ SlotsAre
  /\ pc = "done" => \A o \in Sides : side[o] = before[Other(o)]
  /\ Reached

\* What swap was called with, and so the places, do not change.
LEMMA SameCall ==
  ASSUME UNCHANGED before
  PROVE  /\ startOwner' = startOwner /\ startLo' = startLo /\ startHi' = startHi
         /\ endOwner' = endOwner /\ endLo' = endLo /\ endHi' = endHi
         /\ pairLo' = pairLo /\ pairHi' = pairHi
         /\ Called' = Called
         /\ \A a : AtStart(a)' = AtStart(a) /\ Paired(a)' = Paired(a) /\ AtEnd(a)' = AtEnd(a)
  BY DEF startOwner, startLo, startHi, endOwner, endLo, endHi, pairLo, pairHi, Called, AtStart,
     Paired, AtEnd

\* swap begins.
LEMMA SwapBegins ==
  ASSUME ~AnyRanges, SwapInit
  PROVE  SwapInv
<1>1. Called /\ before = side
  BY DEF SwapInit, Called, This, B, Sides, DevectorType
<1>2. SameMembers /\ side = [o \in Sides |-> side[o]]
      /\ \A o \in Sides : side[o].slots \in Memory
  BY <1>1 DEF SameMembers, Called, DevectorType, Memory
<1>3. /\ front = NewNand(startLo, startLo) /\ back = NewNand(endLo, endLo)
      /\ place = pairLo /\ pc = "front"
  BY <1>1, <1>2, PlanIs DEF SwapInit
<1>4. /\ startLo \in Nat /\ endLo \in Nat /\ pairLo \in Nat /\ pairHi \in Nat
      /\ startHi \in Nat /\ endHi \in Nat
      /\ startLo =< startHi /\ endLo =< endHi /\ pairLo =< pairHi
  BY <1>1, PlanCovers
<1>5. Inside(front, startLo, startHi) /\ Inside(back, endLo, endHi)
  BY <1>3, <1>4 DEF Inside, NewNand, NewGuard
<1>6. Growing(front, startLo) /\ Growing(back, endLo) /\ Spent(back.src)
      /\ Top(front) = startLo /\ Top(back) = endLo
      /\ front.src.at = startLo /\ back.src.at = endLo
      /\ front.dst.at = startLo /\ back.dst.at = endLo
  BY <1>3, <1>4 DEF Growing, NewNand, NewGuard, Spent, Top, Larger
<1>7. ASSUME NEW o \in Sides, NEW a \in Address PROVE side[o].slots[a] = Holds(o, a)
  <2>1. a \in Int /\ before[o].slots[a] = side[o].slots[a]
    BY <1>1, BeforeHolds
  <2>2. CASE AtStart(a)
    BY <1>1, <1>4, <1>6, <2>1, <2>2, BeforeHolds DEF Holds, GuardedSlot, AtStart
  <2>3. CASE AtEnd(a)
    BY <1>1, <1>4, <1>6, <2>1, <2>3, BeforeHolds DEF Holds, GuardedSlot, AtEnd
  <2>4. CASE ~AtStart(a) /\ ~AtEnd(a)
    BY <1>3, <1>4, <2>1, <2>4 DEF Holds, Paired
  <2> QED
    BY <2>2, <2>3, <2>4
<1>8. SlotsAre
  BY <1>2, <1>7 DEF SlotsAre
<1>9. Reached
  BY <1>3, <1>6 DEF Reached
<1> QED
  BY <1>1, <1>2, <1>3, <1>4, <1>5, <1>8, <1>9 DEF SwapInv

-----------------------------------------------------------------------------
\* Each step

\* Slot k of the two becomes x and y.
Writes(h, k, x, y) ==
  /\ side' = [o \in Sides |-> side'[o]]
  /\ \A o \in Sides : /\ side'[o] = [side[o] EXCEPT !.slots = side'[o].slots]
                      /\ side'[o].slots \in Memory
                      /\ \A a \in Address : a # k => side'[o].slots[a] = side[o].slots[a]
  /\ side'[h].slots[k] = x
  /\ side'[Other(h)].slots[k] = y

\* One object put into a buffer.
LEMMA PutOne ==
  ASSUME NEW s \in Memory, NEW k \in Address, NEW x \in Object
  PROVE  /\ Put(s, k, <<x>>) \in Memory /\ Put(s, k, <<x>>)[k] = x
         /\ \A a \in Address \ {k} : Put(s, k, <<x>>)[a] = s[a]
<1>1. k \in Int /\ \A a \in Address : a \in Int
  BY SizesAssumption DEF Address
<1>2. Put(s, k, <<x>>) \in Memory
  BY <1>1, OneElement, PutObjects
<1>3. \A a \in Address \ {k} : a < k \/ k + 1 =< a
  BY <1>1
<1> QED
  BY <1>1, <1>2, <1>3, PutOneReads

\* One object destroyed.
LEMMA DestroyedOne ==
  ASSUME NEW s \in Memory, NEW k \in Address
  PROVE  /\ Destroy(s, k, k + 1) \in Memory /\ Destroy(s, k, k + 1)[k] = Raw
         /\ \A a \in Address \ {k} : Destroy(s, k, k + 1)[a] = s[a]
<1>1. k \in Int /\ \A a \in Address : a \in Int
  BY SizesAssumption DEF Address
<1> QED
  BY <1>1, DestroyObjects DEF Destroy

\* The members follow.
LEMMA WritesMembers ==
  ASSUME Called, SameMembers, NEW h, NEW k, NEW x, NEW y, Writes(h, k, x, y), UNCHANGED before
  PROVE  SameMembers' /\ side' = [o \in Sides |-> side'[o]]
<1>1. side' = [o \in Sides |-> side'[o]]
  BY DEF Writes
<1>2. ASSUME NEW o \in Sides
      PROVE  side'[o] = [before'[o] EXCEPT !.slots = side'[o].slots]
  <2>1. /\ side'[o] = [side[o] EXCEPT !.slots = side'[o].slots]
        /\ side[o] = [before[o] EXCEPT !.slots = side[o].slots]
    BY DEF Writes, SameMembers
  <2>2. before[o] \in DevectorType /\ before' = before
    BY DEF Called
  <2> QED
    BY <2>1, <2>2 DEF DevectorType
<1> QED
  BY <1>1, <1>2 DEF SameMembers

\* An element is moved or copied.
LEMMA MoveWrites ==
  ASSUME SwapInv, pc # "done", NEW h \in Sides, NEW k \in Address,
         side[h].slots[k] \in Object, Move(h, k)
  PROVE  Writes(h, k, IF ShiftMayThrow THEN side[h].slots[k] ELSE Unspec, side[h].slots[k])
<1> DEFINE v == side[h].slots[k]
           src == IF ShiftMayThrow THEN side[h].slots ELSE Put(side[h].slots, k, <<Unspec>>)
           dst == Put(side[Other(h)].slots, k, <<v>>)
<1>1. /\ Other(h) \in Sides /\ Other(h) # h /\ Sides = {h, Other(h)}
      /\ side[h].slots \in Memory /\ side[Other(h)].slots \in Memory
      /\ Unspec \in Object
  BY DEF SwapInv, SlotsAre, Sides, Other, Object
<1>2. /\ dst \in Memory /\ dst[k] = v
      /\ \A a \in Address \ {k} : dst[a] = side[Other(h)].slots[a]
  BY <1>1, PutOne
<1>3. /\ src \in Memory /\ src[k] = IF ShiftMayThrow THEN v ELSE Unspec
      /\ \A a \in Address \ {k} : src[a] = side[h].slots[a]
  <2>1. CASE ShiftMayThrow
    BY <1>1, <2>1
  <2>2. CASE ~ShiftMayThrow
    <3> DEFINE put == Put(side[h].slots, k, <<Unspec>>)
    <3>1. /\ put \in Memory /\ put[k] = Unspec
          /\ \A a \in Address \ {k} : put[a] = side[h].slots[a]
      BY <1>1, PutOne
    <3>2. src = put
      BY <2>2
    <3> HIDE DEF put, src
    <3> QED
      BY <2>2, <3>1, <3>2
  <2> QED
    BY <2>1, <2>2
<1>4. /\ side' = [o \in Sides |-> side'[o]]
      /\ side'[h] = [side[h] EXCEPT !.slots = src]
      /\ side'[Other(h)] = [side[Other(h)] EXCEPT !.slots = dst]
  BY <1>1 DEF Move, SwapInv
<1>5. /\ side[h] \in DevectorType /\ side[Other(h)] \in DevectorType
  BY <1>1 DEF SwapInv, SameMembers, Called, DevectorType, Memory
<1>6. side'[h].slots = src /\ side'[Other(h)].slots = dst
  BY <1>4, <1>5 DEF DevectorType
<1> HIDE DEF src, dst
<1> QED
  BY <1>1, <1>2, <1>3, <1>4, <1>6 DEF Writes

\* One more is moved: what the guard says of the buffers changes in that slot.
LEMMA GuardGrows ==
  ASSUME NEW g, NEW lo \in Int, NEW hi \in Int, Inside(g, lo, hi), Growing(g, lo),
         g.src.at + g.src.count < hi, NEW owner \in Sides
  PROVE  LET n == ExtendNand(g)
             k == g.src.at + g.src.count
         IN  /\ Inside(n, lo, hi) /\ Growing(n, lo) /\ n.src.at + n.src.count = k + 1
             /\ k \in Int /\ lo =< k /\ k < hi
             /\ \A o \in Sides : \A a \in Int : a # k =>
                  GuardedSlot(n, owner, o, a) = GuardedSlot(g, owner, o, a)
             /\ GuardedSlot(g, owner, owner, k) = before[owner].slots[k]
             /\ GuardedSlot(n, owner, owner, k) =
                  IF ShiftMayThrow THEN before[owner].slots[k] ELSE Unspec
             /\ GuardedSlot(n, owner, Other(owner), k) = before[owner].slots[k]
<1> DEFINE n == ExtendNand(g)
           k == g.src.at + g.src.count
<1>1. /\ g.src.at = lo /\ g.dst.at = lo /\ g.src.count \in Nat /\ g.dst.count = g.src.count
      /\ k \in Int /\ lo =< k /\ ~g.released
  BY DEF Inside, Growing
<1>2. /\ n.src = [at |-> lo, count |-> g.src.count + 1]
      /\ n.dst = [at |-> lo, count |-> g.src.count + 1]
      /\ n.released = FALSE
      /\ n \in [src : [at : Int, count : Nat], dst : [at : Int, count : Nat],
                released : BOOLEAN]
  <2> DEFINE t == [at |-> lo, count |-> g.src.count]
  <2>1. g.src = t /\ g.dst = t /\ g.released = FALSE
    BY <1>1 DEF Inside, Growing
  <2>2. n = [g EXCEPT !.src = Extend(g.src), !.dst = Extend(g.dst)]
    BY DEF ExtendNand
  <2>3. Extend(t) = [at |-> lo, count |-> g.src.count + 1]
    BY DEF Extend
  <2>4. Extend(t) \in [at : Int, count : Nat]
    BY <1>1, <2>3
  <2>5. n.src = Extend(t) /\ n.dst = Extend(t) /\ n.released = FALSE
    BY <2>1, <2>2 DEF Inside
  <2>6. n \in [src : [at : Int, count : Nat], dst : [at : Int, count : Nat],
                released : BOOLEAN]
    BY <2>1, <2>2, <2>4 DEF Inside
  <2> QED
    BY <2>3, <2>5, <2>6
<1>3. Top(g) = k /\ Top(n) = k + 1
  BY <1>1, <1>2 DEF Top, Larger
<1>4. Other(owner) # owner
  BY DEF Sides, Other
<1>5. Inside(n, lo, hi) /\ Growing(n, lo) /\ n.src.at + n.src.count = k + 1
  BY <1>1, <1>2 DEF Inside, Growing
<1>6. n.src.at = lo /\ n.dst.at = lo
  BY <1>2
<1> HIDE DEF n
<1>7. \A o \in Sides : \A a \in Int : a # k =>
        GuardedSlot(n, owner, o, a) = GuardedSlot(g, owner, o, a)
  BY <1>1, <1>3, <1>6 DEF GuardedSlot
<1>8. /\ GuardedSlot(g, owner, owner, k) = before[owner].slots[k]
      /\ GuardedSlot(n, owner, owner, k) =
           IF ShiftMayThrow THEN before[owner].slots[k] ELSE Unspec
      /\ GuardedSlot(n, owner, Other(owner), k) = before[owner].slots[k]
  BY <1>1, <1>3, <1>4, <1>6 DEF GuardedSlot
<1> QED
  BY <1>1, <1>5, <1>7, <1>8 DEF n

\* Before anything is destroyed nothing else is in the way.
LEMMA MoveFrontKeeps == SwapInv /\ MoveFront => SwapInv'
<1> SUFFICES ASSUME SwapInv, MoveFront PROVE SwapInv'
  OBVIOUS
<1> DEFINE k == front.src.at + front.src.count
<1>1. pc = "front" /\ UNCHANGED <<before, pc, back, place>> /\ front' = ExtendNand(front)
  BY DEF MoveFront
<1>2. /\ Called /\ SameMembers /\ SlotsAre /\ Growing(front, startLo) /\ Growing(back, endLo)
      /\ Inside(front, startLo, startHi) /\ startOwner \in Sides /\ startLo \in Int
      /\ startHi \in Int /\ startHi =< SBuf /\ SBuf =< MaxSize
      /\ SBuf \in Nat /\ MaxSize \in Nat /\ startLo \in Nat
  <2>1. SBuf \in Nat /\ MaxSize \in Nat /\ SBuf =< MaxSize
    BY SizesAssumption DEF Size
  <2> QED
    BY <1>1, <2>1, PlanCovers DEF SwapInv, Reached
<1>3. k < startHi /\ Move(startOwner, k)
  BY <1>2, PlanIs DEF MoveFront
<1>4. /\ Inside(front', startLo, startHi) /\ Growing(front', startLo)
      /\ k \in Int /\ startLo =< k
      /\ \A o \in Sides : \A a \in Int : a # k =>
           GuardedSlot(front', startOwner, o, a) = GuardedSlot(front, startOwner, o, a)
      /\ GuardedSlot(front, startOwner, startOwner, k) = before[startOwner].slots[k]
      /\ GuardedSlot(front', startOwner, startOwner, k) =
           IF ShiftMayThrow THEN before[startOwner].slots[k] ELSE Unspec
      /\ GuardedSlot(front', startOwner, Other(startOwner), k) = before[startOwner].slots[k]
  BY <1>1, <1>2, <1>3, GuardGrows
<1> HIDE DEF k
<1>5. k \in Address /\ AtStart(k)
  BY <1>2, <1>3, <1>4 DEF Address, AtStart
<1>6. side[startOwner].slots[k] = before[startOwner].slots[k]
      /\ side[startOwner].slots[k] \in Object
  BY <1>2, <1>4, <1>5, BeforeHolds DEF SlotsAre, Holds
<1>7. Writes(startOwner, k,
             IF ShiftMayThrow THEN before[startOwner].slots[k] ELSE Unspec,
             before[startOwner].slots[k])
  BY <1>1, <1>2, <1>3, <1>5, <1>6, MoveWrites
<1>8. SameMembers' /\ side' = [o \in Sides |-> side'[o]]
  BY <1>1, <1>2, <1>7, WritesMembers
<1>9. \A o \in Sides : \A a \in Address : side'[o].slots[a] = Holds(o, a)'
  <2> SUFFICES ASSUME NEW o \in Sides, NEW a \in Address
               PROVE  side'[o].slots[a] = Holds(o, a)'
    OBVIOUS
  <2>1. a \in Int /\ side[o].slots[a] = Holds(o, a)
    BY <1>2, BeforeHolds DEF SlotsAre
  <2>2. Holds(o, a)' =
          IF AtStart(a) THEN GuardedSlot(front', startOwner, o, a)
          ELSE IF AtEnd(a) THEN GuardedSlot(back, endOwner, o, a)
          ELSE IF Paired(a) /\ a < place THEN before[Other(o)].slots[a]
          ELSE before[o].slots[a]
    BY <1>1, SameCall DEF Holds, GuardedSlot
  <2>3. CASE a # k
    <3>1. side'[o].slots[a] = side[o].slots[a]
      BY <1>7, <2>3 DEF Writes
    <3>2. GuardedSlot(front', startOwner, o, a) = GuardedSlot(front, startOwner, o, a)
      BY <1>4, <2>1, <2>3
    <3> QED
      BY <2>1, <2>2, <3>1, <3>2 DEF Holds
  <2>4. CASE a = k
    <3>1. o = startOwner \/ o = Other(startOwner)
      BY <1>2 DEF Sides, Other
    <3> QED
      BY <1>4, <1>5, <1>7, <2>2, <2>4, <3>1 DEF Writes
  <2> QED
    BY <2>3, <2>4
<1>10. SlotsAre'
  BY <1>7, <1>9 DEF SlotsAre, Writes
<1>11. Reached'
  BY <1>1, <1>2, <1>4, SameCall DEF Reached, SwapInv, Growing, Spent
<1> QED
  BY <1>1, <1>4, <1>8, <1>10, <1>11, SameCall DEF SwapInv, Inside

\* So at the end.
LEMMA MoveBackKeeps == SwapInv /\ MoveBack => SwapInv'
<1> SUFFICES ASSUME SwapInv, MoveBack PROVE SwapInv'
  OBVIOUS
<1> DEFINE k == back.src.at + back.src.count
<1>1. pc = "back" /\ UNCHANGED <<before, pc, front, place>> /\ back' = ExtendNand(back)
  BY DEF MoveBack
<1>2. /\ Called /\ SameMembers /\ SlotsAre /\ Growing(front, startLo) /\ Growing(back, endLo)
      /\ Inside(back, endLo, endHi) /\ endOwner \in Sides /\ endLo \in Int
      /\ endHi \in Int /\ endHi =< SBuf /\ SBuf =< MaxSize
      /\ SBuf \in Nat /\ MaxSize \in Nat /\ endLo \in Nat
  <2>1. SBuf \in Nat /\ MaxSize \in Nat /\ SBuf =< MaxSize
    BY SizesAssumption DEF Size
  <2> QED
    BY <1>1, <2>1, PlanCovers DEF SwapInv, Reached
<1>3. k < endHi /\ Move(endOwner, k)
  BY <1>2, PlanIs DEF MoveBack
<1>4. /\ Inside(back', endLo, endHi) /\ Growing(back', endLo)
      /\ k \in Int /\ endLo =< k
      /\ \A o \in Sides : \A a \in Int : a # k =>
           GuardedSlot(back', endOwner, o, a) = GuardedSlot(back, endOwner, o, a)
      /\ GuardedSlot(back, endOwner, endOwner, k) = before[endOwner].slots[k]
      /\ GuardedSlot(back', endOwner, endOwner, k) =
           IF ShiftMayThrow THEN before[endOwner].slots[k] ELSE Unspec
      /\ GuardedSlot(back', endOwner, Other(endOwner), k) = before[endOwner].slots[k]
  BY <1>1, <1>2, <1>3, GuardGrows
<1> HIDE DEF k
<1>5. k \in Address /\ AtEnd(k)
  BY <1>2, <1>3, <1>4 DEF Address, AtEnd
<1>6. side[endOwner].slots[k] = before[endOwner].slots[k]
      /\ side[endOwner].slots[k] \in Object /\ ~AtStart(k)
  BY <1>2, <1>4, <1>5, BeforeHolds DEF SlotsAre, Holds
<1>7. Writes(endOwner, k,
             IF ShiftMayThrow THEN before[endOwner].slots[k] ELSE Unspec,
             before[endOwner].slots[k])
  BY <1>1, <1>2, <1>3, <1>5, <1>6, MoveWrites
<1>8. SameMembers' /\ side' = [o \in Sides |-> side'[o]]
  BY <1>1, <1>2, <1>7, WritesMembers
<1>9. \A o \in Sides : \A a \in Address : side'[o].slots[a] = Holds(o, a)'
  <2> SUFFICES ASSUME NEW o \in Sides, NEW a \in Address
               PROVE  side'[o].slots[a] = Holds(o, a)'
    OBVIOUS
  <2>1. a \in Int /\ side[o].slots[a] = Holds(o, a)
    BY <1>2, BeforeHolds DEF SlotsAre
  <2>2. Holds(o, a)' =
          IF AtStart(a) THEN GuardedSlot(front, startOwner, o, a)
          ELSE IF AtEnd(a) THEN GuardedSlot(back', endOwner, o, a)
          ELSE IF Paired(a) /\ a < place THEN before[Other(o)].slots[a]
          ELSE before[o].slots[a]
    BY <1>1, SameCall DEF Holds, GuardedSlot
  <2>3. CASE a # k
    <3>1. side'[o].slots[a] = side[o].slots[a]
      BY <1>7, <2>3 DEF Writes
    <3>2. GuardedSlot(back', endOwner, o, a) = GuardedSlot(back, endOwner, o, a)
      BY <1>4, <2>1, <2>3
    <3> QED
      BY <2>1, <2>2, <3>1, <3>2 DEF Holds
  <2>4. CASE a = k
    <3>1. o = endOwner \/ o = Other(endOwner)
      BY <1>2 DEF Sides, Other
    <3> QED
      BY <1>4, <1>5, <1>6, <1>7, <2>2, <2>4, <3>1 DEF Writes
  <2> QED
    BY <2>3, <2>4
<1>10. SlotsAre'
  BY <1>7, <1>9 DEF SlotsAre, Writes
<1>11. Reached'
  BY <1>1, <1>2, <1>4, SameCall DEF Reached, SwapInv, Growing, Spent
<1> QED
  BY <1>1, <1>4, <1>8, <1>10, <1>11, SameCall DEF SwapInv, Inside

\* Nothing in the buffers changes.
LEMMA SlotsStay ==
  ASSUME SwapInv, SlotsAre, UNCHANGED <<side, before, place>>,
         \A o \in Sides : \A a \in Address :
           /\ GuardedSlot(front', startOwner, o, a) = GuardedSlot(front, startOwner, o, a)
           /\ GuardedSlot(back', endOwner, o, a) = GuardedSlot(back, endOwner, o, a)
  PROVE  SlotsAre'
<1>1. ASSUME NEW o \in Sides, NEW a \in Address PROVE Holds(o, a)' = Holds(o, a)
  BY <1>1, SameCall DEF Holds, GuardedSlot
<1> QED
  BY <1>1 DEF SlotsAre

\* All are moved.
LEMMA MovedKeeps == SwapInv /\ (FrontMoved \/ BackMoved) => SwapInv'
<1> SUFFICES ASSUME SwapInv, FrontMoved \/ BackMoved PROVE SwapInv'
  OBVIOUS
<1>1. UNCHANGED <<side, before, front, back, place>> /\ pc \in {"front", "back"}
  BY DEF FrontMoved, BackMoved
<1>2. Called /\ SameMembers /\ SlotsAre
  BY <1>1 DEF SwapInv
<1>3. SlotsAre' /\ SameMembers'
  BY <1>1, <1>2, SlotsStay DEF SameMembers
<1>4. /\ startHi \in Int /\ endHi \in Int
      /\ Inside(front, startLo, startHi) /\ Inside(back, endLo, endHi)
  BY <1>2, PlanCovers DEF SwapInv
<1>5. CASE FrontMoved
  <2>1. front.src.at + front.src.count = startHi /\ pc' = "back" /\ pc = "front"
    BY <1>2, <1>4, <1>5, PlanIs DEF FrontMoved, Inside
  <2> QED
    BY <1>1, <1>2, <1>3, <2>1, SameCall DEF SwapInv, Reached, Inside, Growing, Spent
<1>6. CASE BackMoved
  <2>1. back.src.at + back.src.count = endHi /\ pc' = "exchange" /\ pc = "back"
    BY <1>2, <1>4, <1>6, PlanIs DEF BackMoved, Inside
  <2> QED
    BY <1>1, <1>2, <1>3, <2>1, SameCall DEF SwapInv, Reached, Inside, Growing, Spent
<1> QED
  BY <1>5, <1>6

\* The guards are released, or not: one of each pair of original and copy stays guarded.
LEMMA GuardChooses ==
  ASSUME NEW g, NEW lo \in Int, NEW hi \in Int, Inside(g, lo, hi), Growing(g, lo),
         NEW owner
  PROVE  /\ LET n == DestructNand(g)
            IN  /\ Inside(n, lo, hi) /\ KeepsOriginals(n, lo)
                /\ ShiftMayThrow => \A o \in Sides : \A a \in Int :
                     GuardedSlot(n, owner, o, a) = GuardedSlot(g, owner, o, a)
         /\ LET n == DestructNand(ReleaseNand(g))
            IN  g.src.at + g.src.count = hi =>
                  /\ Inside(n, lo, hi) /\ KeepsCopies(n, lo, hi)
                  /\ \A o \in Sides : \A a \in Int :
                       GuardedSlot(n, owner, o, a) = GuardedSlot(g, owner, o, a)
<1> DEFINE t == [at |-> lo, count |-> g.src.count]
           z == [at |-> lo, count |-> 0]
           k == lo + g.src.count
           NandType == [src : [at : Int, count : Nat], dst : [at : Int, count : Nat],
                        released : BOOLEAN]
<1>1. g.src = t /\ g.dst = t /\ g.released = FALSE /\ g.src.count \in Nat /\ g \in NandType
      /\ g.src.at + g.src.count = k /\ k =< hi
  BY DEF Inside, Growing
<1>2. Release(t) = z /\ z \in [at : Int, count : Nat] /\ t \in [at : Int, count : Nat]
  BY <1>1 DEF Release
<1> HIDE DEF t, z
<1>3. /\ DestructNand(g) \in NandType
      /\ DestructNand(g).src = z /\ DestructNand(g).dst = t
  BY <1>1, <1>2 DEF DestructNand
<1>4. /\ ReleaseNand(g) \in NandType
      /\ ReleaseNand(g).src = t /\ ReleaseNand(g).dst = z /\ ReleaseNand(g).released = TRUE
  BY <1>1, <1>2 DEF ReleaseNand
<1>5. DestructNand(ReleaseNand(g)) = ReleaseNand(g)
  BY <1>4 DEF DestructNand
<1>6. /\ Top(g) = k /\ Top(DestructNand(g)) = k /\ Top(ReleaseNand(g)) = k
  BY <1>1, <1>3, <1>4 DEF Top, Larger, t, z
<1>7. /\ g.src.at = lo /\ g.dst.at = lo
      /\ DestructNand(g).src.at = lo /\ DestructNand(g).dst.at = lo
      /\ ReleaseNand(g).src.at = lo /\ ReleaseNand(g).dst.at = lo
  BY <1>1, <1>3, <1>4 DEF t, z
<1>8. Inside(DestructNand(g), lo, hi) /\ KeepsOriginals(DestructNand(g), lo)
  BY <1>1, <1>3, <1>7 DEF Inside, KeepsOriginals, Spent, t, z
<1>9. k = hi => Inside(ReleaseNand(g), lo, hi) /\ KeepsCopies(ReleaseNand(g), lo, hi)
  BY <1>1, <1>4, <1>7 DEF Inside, KeepsCopies, Spent, t, z
<1> QED
  BY <1>1, <1>5, <1>6, <1>7, <1>8, <1>9 DEF GuardedSlot

\* Something throws: no guard is released.
LEMMA ThrowKeeps == SwapInv /\ Throw => SwapInv'
<1> SUFFICES ASSUME SwapInv, Throw PROVE SwapInv'
  OBVIOUS
<1>1. /\ UNCHANGED <<side, before, place>> /\ pc \in {"front", "back", "exchange"}
      /\ front' = DestructNand(front) /\ back' = DestructNand(back)
      /\ ShiftMayThrow /\ pc' = "failure"
  BY DEF Throw
<1>2. /\ Called /\ SameMembers /\ SlotsAre
      /\ Growing(front, startLo) /\ Growing(back, endLo)
      /\ Inside(front, startLo, startHi) /\ Inside(back, endLo, endHi)
  BY <1>1 DEF SwapInv, Reached
<1>3. /\ {startLo, startHi, endLo, endHi} \subseteq Int
      /\ \A a \in Address : a \in Int
  BY <1>2, PlanCovers, BeforeHolds
<1>4. /\ Inside(front', startLo, startHi) /\ KeepsOriginals(front', startLo)
      /\ Inside(back', endLo, endHi) /\ KeepsOriginals(back', endLo)
      /\ \A o \in Sides : \A a \in Address :
           /\ GuardedSlot(front', startOwner, o, a) = GuardedSlot(front, startOwner, o, a)
           /\ GuardedSlot(back', endOwner, o, a) = GuardedSlot(back, endOwner, o, a)
  <2>1. /\ Inside(front', startLo, startHi) /\ KeepsOriginals(front', startLo)
        /\ \A o \in Sides : \A a \in Int :
             GuardedSlot(front', startOwner, o, a) = GuardedSlot(front, startOwner, o, a)
    BY <1>1, <1>2, <1>3, GuardChooses
  <2>2. /\ Inside(back', endLo, endHi) /\ KeepsOriginals(back', endLo)
        /\ \A o \in Sides : \A a \in Int :
             GuardedSlot(back', endOwner, o, a) = GuardedSlot(back, endOwner, o, a)
    <3>1. /\ endLo \in Int /\ endHi \in Int /\ Inside(back, endLo, endHi)
          /\ Growing(back, endLo) /\ back' = DestructNand(back) /\ ShiftMayThrow
      BY <1>1, <1>2, <1>3
    <3> QED
      BY <3>1, GuardChooses
  <2> QED
    BY <1>3, <2>1, <2>2
<1>5. SlotsAre' /\ SameMembers'
  BY <1>1, <1>2, <1>4, SlotsStay DEF SameMembers
<1>6. Reached'
  BY <1>1, <1>4, SameCall DEF Reached, KeepsOriginals, Spent
<1> QED
  BY <1>1, <1>4, <1>5, <1>6, SameCall DEF SwapInv, Inside

\* Nothing more can be thrown: the guards are released.
LEMMA ExchangedKeeps == SwapInv /\ Exchanged => SwapInv'
<1> SUFFICES ASSUME SwapInv, Exchanged PROVE SwapInv'
  OBVIOUS
<1>1. /\ UNCHANGED <<side, before, place>> /\ pc = "exchange"
      /\ front' = DestructNand(ReleaseNand(front)) /\ back' = DestructNand(ReleaseNand(back))
      /\ pc' = "success"
  BY DEF Exchanged
<1>2. /\ Called /\ SameMembers /\ SlotsAre
      /\ Growing(front, startLo) /\ Growing(back, endLo)
      /\ Inside(front, startLo, startHi) /\ Inside(back, endLo, endHi)
      /\ front.src.at + front.src.count = startHi /\ back.src.at + back.src.count = endHi
  BY <1>1 DEF SwapInv, Reached
<1>3. /\ {startLo, startHi, endLo, endHi} \subseteq Int
      /\ \A a \in Address : a \in Int
  BY <1>2, PlanCovers, BeforeHolds
<1>4. place = pairHi
  BY <1>2, PlanIs DEF Exchanged
<1>5. /\ Inside(front', startLo, startHi) /\ KeepsCopies(front', startLo, startHi)
      /\ Inside(back', endLo, endHi) /\ KeepsCopies(back', endLo, endHi)
      /\ \A o \in Sides : \A a \in Address :
           /\ GuardedSlot(front', startOwner, o, a) = GuardedSlot(front, startOwner, o, a)
           /\ GuardedSlot(back', endOwner, o, a) = GuardedSlot(back, endOwner, o, a)
  <2>1. /\ Inside(front', startLo, startHi) /\ KeepsCopies(front', startLo, startHi)
        /\ \A o \in Sides : \A a \in Int :
             GuardedSlot(front', startOwner, o, a) = GuardedSlot(front, startOwner, o, a)
    BY <1>1, <1>2, <1>3, GuardChooses
  <2>2. /\ Inside(back', endLo, endHi) /\ KeepsCopies(back', endLo, endHi)
        /\ \A o \in Sides : \A a \in Int :
             GuardedSlot(back', endOwner, o, a) = GuardedSlot(back, endOwner, o, a)
    BY <1>1, <1>2, <1>3, GuardChooses
  <2> QED
    BY <1>3, <2>1, <2>2
<1>6. SlotsAre' /\ SameMembers'
  BY <1>1, <1>2, <1>5, SlotsStay DEF SameMembers
<1>7. Reached'
  BY <1>1, <1>4, <1>5, SameCall DEF Reached, KeepsCopies, Spent
<1> QED
  BY <1>1, <1>5, <1>6, <1>7, SameCall DEF SwapInv, Inside

\* One pair of elements is exchanged; both are there.
LEMMA ExchangeKeeps == SwapInv /\ Exchange => SwapInv'
<1> SUFFICES ASSUME SwapInv, Exchange PROVE SwapInv'
  OBVIOUS
<1> DEFINE k == place
<1>1. pc = "exchange" /\ UNCHANGED <<before, front, back>>
  BY DEF Exchange
<1>2. Called /\ SameMembers /\ SlotsAre /\ place \in Int
  BY <1>1 DEF SwapInv
<1>3. /\ {pairLo, pairHi, endLo, endHi} \subseteq Nat /\ pairHi =< endLo /\ endLo =< endHi
      /\ endHi =< SBuf /\ SBuf =< MaxSize /\ SBuf \in Nat /\ MaxSize \in Nat
  <2>1. SBuf \in Nat /\ MaxSize \in Nat /\ SBuf =< MaxSize
    BY SizesAssumption DEF Size
  <2> QED
    BY <1>2, <2>1, PlanCovers
<1>4. /\ pairLo =< k /\ k < pairHi /\ ExchangeStart = pairLo /\ ExchangeInB = pairLo
  <2>1. pairLo =< k /\ k =< pairHi /\ k # pairHi
    BY <1>2, PlanIs DEF SwapInv, Exchange
  <2> QED
    BY <1>2, <1>3, <2>1, PlanIs, PlanCovers
<1>5. k \in Address /\ Paired(k) /\ k < SBuf /\ ~AtStart(k) /\ ~AtEnd(k)
  <2>1. k \in Address /\ Paired(k) /\ k < SBuf
    BY <1>2, <1>3, <1>4 DEF Address, Paired
  <2> QED
    BY <1>2, <2>1, BeforeHolds
<1>6. /\ "this" \in Sides /\ "b" \in Sides /\ Other("this") = "b" /\ Other("b") = "this"
      /\ Sides = {"this", "b"}
  BY DEF Sides, Other
<1>7. \A o \in Sides : side[o].slots[k] = before[o].slots[k] /\ side[o].slots[k] \in Object
  BY <1>2, <1>5, BeforeHolds DEF SlotsAre, Holds
<1>8. ExchangeInB + (k - ExchangeStart) = k
  BY <1>2, <1>3, <1>4
<1>9. /\ side' = [side EXCEPT !["this"].slots = Put(@, k, <<side["b"].slots[k]>>),
                              !["b"].slots = Put(@, k, <<side["this"].slots[k]>>)]
      /\ place' = k + 1 /\ pc' = pc
  <2>1. side["this"].slots[k] # Raw /\ side["b"].slots[k] # Raw
    BY <1>6, <1>7, MarkersAssumption DEF Object
  <2>2. ~(k >= SBuf)
    BY <1>2, <1>3, <1>5
  <2> QED
    BY <1>8, <2>1, <2>2 DEF Exchange, This, B
<1>10. Writes("this", k, side["b"].slots[k], side["this"].slots[k])
  <2> DEFINE s == Put(side["this"].slots, k, <<side["b"].slots[k]>>)
             t == Put(side["b"].slots, k, <<side["this"].slots[k]>>)
  <2>1. side["this"].slots \in Memory /\ side["b"].slots \in Memory
    BY <1>2, <1>6 DEF SlotsAre
  <2>2. /\ s \in Memory /\ s[k] = side["b"].slots[k]
        /\ \A a \in Address \ {k} : s[a] = side["this"].slots[a]
    BY <1>5, <1>6, <1>7, <2>1, PutOne
  <2>3. /\ t \in Memory /\ t[k] = side["this"].slots[k]
        /\ \A a \in Address \ {k} : t[a] = side["b"].slots[a]
    BY <1>5, <1>6, <1>7, <2>1, PutOne
  <2>4. /\ side["this"] \in DevectorType /\ side["b"] \in DevectorType
    BY <1>2, <1>6, <2>1 DEF SameMembers, Called, DevectorType, Memory
  <2> HIDE DEF s, t
  <2>5. /\ side' = [o \in Sides |-> side'[o]]
        /\ side'["this"] = [side["this"] EXCEPT !.slots = s]
        /\ side'["b"] = [side["b"] EXCEPT !.slots = t]
    BY <1>6, <1>9 DEF SwapInv, s, t
  <2>6. side'["this"].slots = s /\ side'["b"].slots = t
    BY <2>4, <2>5 DEF DevectorType
  <2> QED
    BY <1>6, <2>2, <2>3, <2>5, <2>6 DEF Writes
<1>11. SameMembers' /\ side' = [o \in Sides |-> side'[o]]
  BY <1>1, <1>2, <1>10, WritesMembers
<1> HIDE DEF k
<1>12. \A o \in Sides : \A a \in Address : side'[o].slots[a] = Holds(o, a)'
  <2> SUFFICES ASSUME NEW o \in Sides, NEW a \in Address
               PROVE  side'[o].slots[a] = Holds(o, a)'
    OBVIOUS
  <2>1. a \in Int /\ side[o].slots[a] = Holds(o, a)
    BY <1>2, BeforeHolds DEF SlotsAre
  <2>2. Holds(o, a)' =
          IF AtStart(a) THEN GuardedSlot(front, startOwner, o, a)
          ELSE IF AtEnd(a) THEN GuardedSlot(back, endOwner, o, a)
          ELSE IF Paired(a) /\ a < k + 1 THEN before[Other(o)].slots[a]
          ELSE before[o].slots[a]
    BY <1>1, <1>9, SameCall DEF Holds, GuardedSlot
  <2>3. CASE a # k
    <3>1. side'[o].slots[a] = side[o].slots[a]
      BY <1>10, <2>3 DEF Writes
    <3>2. a < k + 1 <=> a < k
      BY <1>2, <2>1, <2>3 DEF k
    <3> QED
      BY <2>1, <2>2, <3>1, <3>2 DEF Holds, k
  <2>4. CASE a = k
    <3>1. side'[o].slots[a] = before[Other(o)].slots[a]
      BY <1>6, <1>7, <1>10, <2>4 DEF Writes
    <3>2. a < k + 1
      BY <2>1, <2>4
    <3> QED
      BY <1>5, <2>2, <2>4, <3>1, <3>2
  <2> QED
    BY <2>3, <2>4
<1>13. SlotsAre'
  BY <1>10, <1>12 DEF SlotsAre, Writes
<1>14. Reached'
  BY <1>1, <1>9, SameCall DEF Reached, SwapInv, Growing, Spent
<1>15. place' \in Int /\ pairLo =< place' /\ place' =< pairHi
  BY <1>2, <1>3, <1>4, <1>9 DEF k
<1> QED
  BY <1>1, <1>9, <1>11, <1>13, <1>14, <1>15, SameCall DEF SwapInv, Inside

\* Whom the next object that the destructors of g destroy belongs to, and where it is
Target(g, owner) == IF ~Spent(g.dst) THEN Other(owner) ELSE owner
TargetAt(g)      == IF ~Spent(g.dst) THEN g.dst.at ELSE g.src.at

\* One object is destroyed: it was guarded, and is no longer.
LEMMA GuardShrinks ==
  ASSUME NEW g, NEW lo \in Int, NEW hi \in Int, Inside(g, lo, hi), ~Done(g),
         NEW owner \in Sides,
         KeepsCopies(g, lo, hi) \/ KeepsOriginals(g, lo)
  PROVE  LET n == LessOne(g)
             k == TargetAt(g)
         IN  /\ Inside(n, lo, hi)
             /\ KeepsCopies(g, lo, hi) => KeepsCopies(n, lo, hi)
             /\ KeepsOriginals(g, lo) => KeepsOriginals(n, lo)
             /\ k \in Int /\ lo =< k /\ k < hi
             /\ \A o \in Sides : \A a \in Int : a # k \/ o # Target(g, owner) =>
                  GuardedSlot(n, owner, o, a) = GuardedSlot(g, owner, o, a)
             /\ GuardedSlot(n, owner, Target(g, owner), k) = Raw
<1> DEFINE n == LessOne(g)
           k == TargetAt(g)
           GuardType == [at : Int, count : Nat]
<1>1. /\ g.src \in GuardType /\ g.dst \in GuardType /\ g.released \in BOOLEAN
      /\ g \in [src : GuardType, dst : GuardType, released : BOOLEAN]
  BY DEF Inside
<1>2. Other(owner) # owner /\ Other(owner) \in Sides /\ Sides = {owner, Other(owner)}
  BY DEF Sides, Other
<1>3. CASE KeepsCopies(g, lo, hi)
  <2>1. /\ g.dst.count = 0 /\ g.dst.at = lo /\ g.src.at + g.src.count = hi
        /\ g.src.count > 0 /\ Target(g, owner) = owner /\ k = g.src.at
    BY <1>1, <1>3 DEF KeepsCopies, Done, Spent, Target, TargetAt
  <2>2. AfterOne(g.src) \in GuardType
    BY <1>1, <2>1 DEF AfterOne
  <2>3. n = [g EXCEPT !.src = AfterOne(g.src)]
    BY <2>1 DEF LessOne, Spent
  <2>4. /\ n.src = AfterOne(g.src) /\ n.dst = g.dst
        /\ n \in [src : GuardType, dst : GuardType, released : BOOLEAN]
    BY <1>1, <2>2, <2>3
  <2>5. n.src.at = k + 1 /\ n.src.count = g.src.count - 1
    BY <2>1, <2>4 DEF AfterOne
  <2> HIDE DEF n, k
  <2>6. Inside(n, lo, hi) /\ KeepsCopies(n, lo, hi) /\ k \in Int /\ lo =< k /\ k < hi
    BY <1>1, <2>1, <2>4, <2>5 DEF Inside, KeepsCopies, Spent
  <2>7. Top(n) = Top(g)
    BY <1>1, <2>1, <2>4, <2>5 DEF Top
  <2>8. \A o \in Sides : \A a \in Int : a # k \/ o # Target(g, owner) =>
                  GuardedSlot(n, owner, o, a) = GuardedSlot(g, owner, o, a)
    BY <1>1, <2>1, <2>4, <2>5, <2>6, <2>7 DEF GuardedSlot
  <2>9. GuardedSlot(n, owner, Target(g, owner), k) = Raw
    BY <2>1, <2>5, <2>6 DEF GuardedSlot
  <2>10. KeepsOriginals(g, lo) => KeepsOriginals(n, lo)
    BY <1>1, <2>1 DEF KeepsOriginals, Spent
  <2> QED
    BY <2>6, <2>8, <2>9, <2>10 DEF n, k
<1>4. CASE KeepsOriginals(g, lo)
  <2>1. /\ g.src.count = 0 /\ g.src.at = lo /\ g.dst.count > 0
        /\ Target(g, owner) = Other(owner) /\ k = g.dst.at
    BY <1>1, <1>4 DEF KeepsOriginals, Done, Spent, Target, TargetAt
  <2>2. AfterOne(g.dst) \in GuardType
    BY <1>1, <2>1 DEF AfterOne
  <2>3. n = [g EXCEPT !.dst = AfterOne(g.dst)]
    BY <2>1 DEF LessOne, Spent
  <2>4. /\ n.dst = AfterOne(g.dst) /\ n.src = g.src
        /\ n \in [src : GuardType, dst : GuardType, released : BOOLEAN]
    BY <1>1, <2>2, <2>3
  <2>5. n.dst.at = k + 1 /\ n.dst.count = g.dst.count - 1
    BY <2>1, <2>4 DEF AfterOne
  <2> HIDE DEF n, k
  <2>6. /\ Inside(n, lo, hi) /\ KeepsOriginals(n, lo) /\ k \in Int /\ lo =< k /\ k < hi
    BY <1>1, <2>1, <2>4, <2>5 DEF Inside, KeepsOriginals, Spent
  <2>7. Top(n) = Top(g)
    BY <1>1, <2>1, <2>4, <2>5, <2>6 DEF Top, Larger, Inside
  <2>8. \A o \in Sides : \A a \in Int : a # k \/ o # Target(g, owner) =>
                  GuardedSlot(n, owner, o, a) = GuardedSlot(g, owner, o, a)
    BY <1>1, <1>2, <2>1, <2>4, <2>5, <2>6, <2>7 DEF GuardedSlot
  <2>9. GuardedSlot(n, owner, Target(g, owner), k) = Raw
    BY <1>2, <2>1, <2>5, <2>6 DEF GuardedSlot
  <2>10. ~KeepsCopies(g, lo, hi)
    BY <1>1, <2>1 DEF KeepsCopies, Spent
  <2> QED
    BY <2>6, <2>8, <2>9, <2>10 DEF n, k
<1> QED
  BY <1>3, <1>4

\* The buffer that holds it has raw memory there afterwards, the other one stays.
LEMMA DestroyWrites ==
  ASSUME SwapInv, pc # "done", NEW g, NEW owner \in Sides, TargetAt(g) \in Address,
         DestroyOne(g, owner)
  PROVE  Writes(Target(g, owner), TargetAt(g), Raw,
                side[Other(Target(g, owner))].slots[TargetAt(g)])
<1> DEFINE h == Target(g, owner)
           k == TargetAt(g)
           s == Destroy(side[h].slots, k, k + 1)
<1>1. /\ h \in Sides /\ Other(h) \in Sides /\ Other(h) # h /\ Sides = {h, Other(h)}
      /\ side[h].slots \in Memory /\ side[Other(h)].slots \in Memory
  BY DEF SwapInv, SlotsAre, Sides, Other, Target
<1>2. side' = [side EXCEPT ![h].slots = s]
  BY DEF DestroyOne, Target, TargetAt
<1>3. /\ s \in Memory /\ s[k] = Raw /\ \A a \in Address \ {k} : s[a] = side[h].slots[a]
  BY <1>1, DestroyedOne
<1>4. side[h] \in DevectorType /\ side[Other(h)] \in DevectorType
  BY <1>1 DEF SwapInv, SameMembers, Called, DevectorType, Memory
<1> HIDE DEF s, h, k
<1>5. /\ side' = [o \in Sides |-> side'[o]]
      /\ side'[h] = [side[h] EXCEPT !.slots = s] /\ side'[Other(h)] = side[Other(h)]
  BY <1>1, <1>2 DEF SwapInv
<1>6. side'[h].slots = s /\ side[Other(h)] = [side[Other(h)] EXCEPT !.slots = @]
  BY <1>4, <1>5 DEF DevectorType
<1> QED
  BY <1>1, <1>3, <1>5, <1>6 DEF Writes, h, k

\* ~back_guard
LEMMA DestructBackKeeps == SwapInv /\ DestructBack => SwapInv'
<1> SUFFICES ASSUME SwapInv, DestructBack PROVE SwapInv'
  OBVIOUS
<1> DEFINE k == TargetAt(back)
           h == Target(back, endOwner)
<1>1. /\ UNCHANGED <<before, pc, front, place>> /\ pc \in {"success", "failure"}
      /\ back' = LessOne(back) /\ ~Done(back)
  BY DEF DestructBack
<1>2. /\ Called /\ SameMembers /\ SlotsAre /\ Inside(back, endLo, endHi)
      /\ pc = "success" => KeepsCopies(back, endLo, endHi)
      /\ pc = "failure" => KeepsOriginals(back, endLo)
  BY <1>1 DEF SwapInv, Reached
<1>3. /\ endOwner \in Sides /\ endLo \in Nat /\ endHi \in Int /\ endHi =< SBuf
      /\ SBuf \in Nat /\ MaxSize \in Nat /\ SBuf =< MaxSize
  <2>1. SBuf \in Nat /\ MaxSize \in Nat /\ SBuf =< MaxSize
    BY SizesAssumption DEF Size
  <2> QED
    BY <1>2, <2>1, PlanCovers
<1>4. /\ Inside(back', endLo, endHi)
      /\ KeepsCopies(back, endLo, endHi) => KeepsCopies(back', endLo, endHi)
      /\ KeepsOriginals(back, endLo) => KeepsOriginals(back', endLo)
      /\ k \in Int /\ endLo =< k /\ k < endHi
      /\ \A o \in Sides : \A a \in Int : a # k \/ o # h =>
           GuardedSlot(back', endOwner, o, a) = GuardedSlot(back, endOwner, o, a)
      /\ GuardedSlot(back', endOwner, h, k) = Raw
  <2>1. endLo \in Int /\ (KeepsCopies(back, endLo, endHi) \/ KeepsOriginals(back, endLo))
    BY <1>1, <1>2, <1>3
  <2>2. Inside(back, endLo, endHi) /\ ~Done(back) /\ endOwner \in Sides /\ endHi \in Int
    BY <1>1, <1>2, <1>3
  <2> QED
    BY <1>1, <2>1, <2>2, GuardShrinks
<1>5. k \in Address /\ AtEnd(k) /\ ~AtStart(k)
  <2>1. k \in Address /\ AtEnd(k)
    BY <1>3, <1>4 DEF Address, AtEnd
  <2> QED
    BY <1>2, <2>1, BeforeHolds
<1>6. DestroyOne(back, endOwner)
  BY <1>2, PlanIs DEF DestructBack
<1>7. Writes(h, k, Raw, side[Other(h)].slots[k])
  BY <1>1, <1>3, <1>5, <1>6, DestroyWrites
<1>8. h \in Sides /\ Sides = {h, Other(h)}
  BY <1>3 DEF Target, Sides, Other
<1> HIDE DEF k, h
<1>9. SameMembers' /\ side' = [o \in Sides |-> side'[o]]
  BY <1>1, <1>2, <1>7, WritesMembers
<1>10. \A o \in Sides : \A a \in Address : side'[o].slots[a] = Holds(o, a)'
  <2> SUFFICES ASSUME NEW o \in Sides, NEW a \in Address
               PROVE  side'[o].slots[a] = Holds(o, a)'
    OBVIOUS
  <2>1. a \in Int /\ side[o].slots[a] = Holds(o, a)
    BY <1>2, BeforeHolds DEF SlotsAre
  <2>2. Holds(o, a)' =
          IF AtStart(a) THEN GuardedSlot(front, startOwner, o, a)
          ELSE IF AtEnd(a) THEN GuardedSlot(back', endOwner, o, a)
          ELSE IF Paired(a) /\ a < place THEN before[Other(o)].slots[a]
          ELSE before[o].slots[a]
    BY <1>1, SameCall DEF Holds, GuardedSlot
  <2>3. CASE a # k \/ o # h
    <3>1. side'[o].slots[a] = side[o].slots[a]
      BY <1>7, <1>8, <2>3 DEF Writes
    <3>2. GuardedSlot(back', endOwner, o, a) = GuardedSlot(back, endOwner, o, a)
      BY <1>4, <2>1, <2>3
    <3> QED
      BY <2>1, <2>2, <3>1, <3>2 DEF Holds
  <2>4. CASE a = k /\ o = h
    BY <1>4, <1>5, <1>7, <2>2, <2>4 DEF Writes
  <2> QED
    BY <2>3, <2>4
<1>11. SlotsAre'
  BY <1>7, <1>10 DEF SlotsAre, Writes
<1>12. Reached'
  BY <1>1, <1>2, <1>4, SameCall DEF Reached, SwapInv, KeepsCopies, KeepsOriginals, Spent
<1> QED
  BY <1>1, <1>4, <1>9, <1>11, <1>12, SameCall DEF SwapInv, Inside

\* ~front_guard, when nothing is left to the other one
LEMMA DestructFrontKeeps == SwapInv /\ DestructFront => SwapInv'
<1> SUFFICES ASSUME SwapInv, DestructFront PROVE SwapInv'
  OBVIOUS
<1> DEFINE k == TargetAt(front)
           h == Target(front, startOwner)
<1>1. /\ UNCHANGED <<before, pc, back, place>> /\ pc \in {"success", "failure"}
      /\ front' = LessOne(front) /\ ~Done(front)
  BY DEF DestructFront
<1>2. /\ Called /\ SameMembers /\ SlotsAre /\ Inside(front, startLo, startHi)
      /\ pc = "success" => KeepsCopies(front, startLo, startHi)
      /\ pc = "failure" => KeepsOriginals(front, startLo)
  BY <1>1 DEF SwapInv, Reached
<1>3. /\ startOwner \in Sides /\ startLo \in Nat /\ startHi \in Int /\ startHi =< SBuf
      /\ SBuf \in Nat /\ MaxSize \in Nat /\ SBuf =< MaxSize
  <2>1. SBuf \in Nat /\ MaxSize \in Nat /\ SBuf =< MaxSize
    BY SizesAssumption DEF Size
  <2> QED
    BY <1>2, <2>1, PlanCovers
<1>4. /\ Inside(front', startLo, startHi)
      /\ KeepsCopies(front, startLo, startHi) => KeepsCopies(front', startLo, startHi)
      /\ KeepsOriginals(front, startLo) => KeepsOriginals(front', startLo)
      /\ k \in Int /\ startLo =< k /\ k < startHi
      /\ \A o \in Sides : \A a \in Int : a # k \/ o # h =>
           GuardedSlot(front', startOwner, o, a) = GuardedSlot(front, startOwner, o, a)
      /\ GuardedSlot(front', startOwner, h, k) = Raw
  <2>1. startLo \in Int /\ (KeepsCopies(front, startLo, startHi) \/ KeepsOriginals(front, startLo))
    BY <1>1, <1>2, <1>3
  <2>2. Inside(front, startLo, startHi) /\ ~Done(front) /\ startOwner \in Sides /\ startHi \in Int
    BY <1>1, <1>2, <1>3
  <2> QED
    BY <1>1, <2>1, <2>2, GuardShrinks
<1>5. k \in Address /\ AtStart(k)
  BY <1>3, <1>4 DEF Address, AtStart
<1>6. DestroyOne(front, startOwner)
  BY <1>2, PlanIs DEF DestructFront
<1>7. Writes(h, k, Raw, side[Other(h)].slots[k])
  BY <1>1, <1>3, <1>5, <1>6, DestroyWrites
<1>8. h \in Sides /\ Sides = {h, Other(h)}
  BY <1>3 DEF Target, Sides, Other
<1> HIDE DEF k, h
<1>9. SameMembers' /\ side' = [o \in Sides |-> side'[o]]
  BY <1>1, <1>2, <1>7, WritesMembers
<1>10. \A o \in Sides : \A a \in Address : side'[o].slots[a] = Holds(o, a)'
  <2> SUFFICES ASSUME NEW o \in Sides, NEW a \in Address
               PROVE  side'[o].slots[a] = Holds(o, a)'
    OBVIOUS
  <2>1. a \in Int /\ side[o].slots[a] = Holds(o, a)
    BY <1>2, BeforeHolds DEF SlotsAre
  <2>2. Holds(o, a)' =
          IF AtStart(a) THEN GuardedSlot(front', startOwner, o, a)
          ELSE IF AtEnd(a) THEN GuardedSlot(back, endOwner, o, a)
          ELSE IF Paired(a) /\ a < place THEN before[Other(o)].slots[a]
          ELSE before[o].slots[a]
    BY <1>1, SameCall DEF Holds, GuardedSlot
  <2>3. CASE a # k \/ o # h
    <3>1. side'[o].slots[a] = side[o].slots[a]
      BY <1>7, <1>8, <2>3 DEF Writes
    <3>2. GuardedSlot(front', startOwner, o, a) = GuardedSlot(front, startOwner, o, a)
      BY <1>4, <2>1, <2>3
    <3> QED
      BY <2>1, <2>2, <3>1, <3>2 DEF Holds
  <2>4. CASE a = k /\ o = h
    BY <1>4, <1>5, <1>7, <2>2, <2>4 DEF Writes
  <2> QED
    BY <2>3, <2>4
<1>11. SlotsAre'
  BY <1>7, <1>10 DEF SlotsAre, Writes
<1>12. Reached'
  BY <1>1, <1>2, <1>4, SameCall DEF Reached, SwapInv, KeepsCopies, KeepsOriginals, Spent
<1> QED
  BY <1>1, <1>4, <1>9, <1>11, <1>12, SameCall DEF SwapInv, Inside

\* The members of one devector with everything in which another one differs.
LEMMA OtherMembers ==
  ASSUME NEW d \in DevectorType, NEW e \in DevectorType, d.cap = e.cap, d.buf = e.buf
  PROVE  [d EXCEPT !.slots = e.slots, !.front = e.front, !.back = e.back] = e
<1> DEFINE r == [d EXCEPT !.slots = e.slots, !.front = e.front, !.back = e.back]
<1>1. r \in DevectorType
  BY DEF DevectorType
<1>2. r.cap = e.cap /\ r.front = e.front /\ r.back = e.back /\ r.slots = e.slots /\ r.buf = e.buf
  BY DEF DevectorType
<1> HIDE DEF r
<1> QED
  BY <1>1, <1>2 DEF DevectorType, r

\* swap returns, or throws on.
LEMMA FinishKeeps == SwapInv /\ Finish => SwapInv'
<1> SUFFICES ASSUME SwapInv, Finish PROVE SwapInv'
  OBVIOUS
<1>1. /\ UNCHANGED <<before, front, back, place>> /\ pc \in {"success", "failure"}
      /\ Done(front) /\ Done(back)
  BY DEF Finish
<1>2. /\ Called /\ SameMembers /\ SlotsAre
      /\ Inside(front, startLo, startHi) /\ Inside(back, endLo, endHi)
  BY <1>1 DEF SwapInv
<1>3. CASE pc = "failure"
  <2>1. pc' = "threw" /\ side' = side
    BY <1>3 DEF Finish
  <2>2. SlotsAre' /\ SameMembers'
    BY <1>1, <1>2, <2>1, SlotsStay DEF SameMembers
  <2>3. Reached'
    BY <1>1, <1>3, <2>1, SameCall DEF Reached, SwapInv, KeepsOriginals, Spent, Done
  <2> QED
    BY <1>1, <2>1, <2>2, <2>3, SameCall DEF SwapInv, Inside
<1>4. CASE pc = "success"
  <2>1. /\ pc' = "done"
        /\ side' = [o \in Sides |-> [side[o] EXCEPT !.front = side[Other(o)].front,
                                                    !.back = side[Other(o)].back]]
    BY <1>4 DEF Finish
  <2>2. /\ KeepsCopies(front, startLo, startHi) /\ KeepsCopies(back, endLo, endHi)
        /\ place = pairHi
    BY <1>4 DEF SwapInv, Reached
  <2>3. /\ startLo \in Int /\ startHi \in Int /\ endLo \in Int /\ endHi \in Int
        /\ startLo =< startHi /\ endLo =< endHi
        /\ startOwner \in Sides /\ endOwner \in Sides
    BY <1>2, PlanCovers
  <2>4. /\ front.src.at = startHi /\ front.dst.at = startLo /\ Top(front) = startHi
        /\ back.src.at = endHi /\ back.dst.at = endLo /\ Top(back) = endHi
    BY <1>1, <1>2, <2>2, <2>3 DEF KeepsCopies, Done, Spent, Inside, Top, Larger
  <2>5. ASSUME NEW o \in Sides, NEW a \in Address
        PROVE  side[o].slots[a] = before[Other(o)].slots[a]
    <3>1. a \in Int /\ side[o].slots[a] = Holds(o, a)
      BY <1>2, BeforeHolds DEF SlotsAre
    <3>2. Other(o) \in Sides /\ Other(o) # o /\ Sides = {o, Other(o)}
      BY DEF Sides, Other
    <3>3. CASE AtStart(a)
      BY <1>2, <2>3, <2>4, <3>1, <3>2, <3>3, BeforeHolds DEF Holds, GuardedSlot, AtStart
    <3>4. CASE AtEnd(a)
      <4>1. ~AtStart(a)
        BY <1>2, <3>4, BeforeHolds
      <4> QED
        BY <1>2, <2>3, <2>4, <3>1, <3>2, <3>4, <4>1, BeforeHolds
        DEF Holds, GuardedSlot, AtEnd
    <3>5. CASE ~AtStart(a) /\ ~AtEnd(a)
      <4>1. Paired(a) => a < place
        BY <2>2 DEF Paired
      <4> QED
        BY <1>2, <3>1, <3>2, <3>5, <4>1, BeforeHolds DEF Holds
    <3> QED
      BY <3>3, <3>4, <3>5
  <2>6. ASSUME NEW o \in Sides PROVE side'[o] = before[Other(o)]
    <3>1. /\ Other(o) \in Sides /\ before[o] \in DevectorType
          /\ before[Other(o)] \in DevectorType
          /\ before[o].cap = before[Other(o)].cap /\ before[o].buf = before[Other(o)].buf
      BY <1>2 DEF Called, Sides, Other
    <3>2. /\ side[o] = [before[o] EXCEPT !.slots = side[o].slots]
          /\ side[Other(o)] = [before[Other(o)] EXCEPT !.slots = side[Other(o)].slots]
      BY <1>2, <3>1 DEF SameMembers
    <3>3. side[o].slots = before[Other(o)].slots
      BY <1>2, <2>5, <3>1 DEF SlotsAre, Memory, DevectorType
    <3>4. side[Other(o)].front = before[Other(o)].front
          /\ side[Other(o)].back = before[Other(o)].back
      BY <3>1, <3>2 DEF DevectorType
    <3>5. side'[o] = [before[o] EXCEPT !.slots = before[Other(o)].slots,
                                       !.front = before[Other(o)].front,
                                       !.back = before[Other(o)].back]
      BY <2>1, <3>1, <3>2, <3>3, <3>4 DEF DevectorType
    <3> QED
      BY <3>1, <3>5, OtherMembers
  <2>7. side' = [o \in Sides |-> side'[o]] /\ Reached'
    BY <2>1 DEF Reached
  <2>8. \A o \in Sides : (side[o] = before[Other(o)])'
    BY <1>1, <2>6
  <2> QED
    BY <1>1, <2>1, <2>7, <2>8, SameCall DEF SwapInv, Inside
<1> QED
  BY <1>1, <1>3, <1>4

\* Every step keeps the invariant.
LEMMA SwapSteps == SwapInv /\ [Step]_swapVars => SwapInv'
<1>1. SwapInv /\ UNCHANGED swapVars => SwapInv'
  <2> SUFFICES ASSUME SwapInv, UNCHANGED swapVars PROVE SwapInv'
    OBVIOUS
  <2>1. UNCHANGED <<side, before, pc, front, back, place>>
    BY DEF swapVars
  <2>2. pc # "done" => SameMembers' /\ SlotsAre'
    BY <2>1, SlotsStay DEF SwapInv, SameMembers
  <2>3. pc = "done" => \A o \in Sides : (side[o] = before[Other(o)])'
    BY <2>1 DEF SwapInv
  <2>4. Reached'
    BY <2>1, SameCall DEF Reached, SwapInv, Growing, KeepsCopies, KeepsOriginals, Spent
  <2> QED
    BY <2>1, <2>2, <2>3, <2>4, SameCall DEF SwapInv, Inside
<1> QED
  BY <1>1, MoveFrontKeeps, MoveBackKeeps, MovedKeeps, ExchangeKeeps, ExchangedKeeps, ThrowKeeps,
     DestructBackKeeps, DestructFrontKeeps, FinishKeeps DEF Step

\* So it always holds.
LEMMA AlwaysSwapInv ==
  ASSUME ~AnyRanges
  PROVE  SwapSpec => []SwapInv
<1>1. SwapInit => SwapInv
  BY SwapBegins
<1> QED
  BY <1>1, SwapSteps, PTL DEF SwapSpec

\* What is there after a throw: elements in the same place may be exchanged, nothing else is
\* different.
LEMMA ThrewHolds ==
  ASSUME SwapInv, pc = "threw", NEW o \in Sides, NEW a \in Address
  PROVE  side[o].slots[a] =
           IF Paired(a) /\ a < place THEN before[Other(o)].slots[a] ELSE before[o].slots[a]
<1>1. /\ Called /\ SlotsAre /\ ShiftMayThrow
      /\ Inside(front, startLo, startHi) /\ Inside(back, endLo, endHi)
      /\ KeepsOriginals(front, startLo) /\ KeepsOriginals(back, endLo)
      /\ Spent(front.dst) /\ Spent(back.dst)
  BY DEF SwapInv, Reached
<1>2. /\ startLo \in Int /\ endLo \in Int
      /\ startOwner \in Sides /\ endOwner \in Sides
  BY <1>1, PlanCovers
<1>3. /\ front.src.at = startLo /\ Top(front) = front.dst.at /\ front.dst.at \in Int
      /\ back.src.at = endLo /\ Top(back) = back.dst.at /\ back.dst.at \in Int
  BY <1>1, <1>2 DEF KeepsOriginals, Spent, Inside, Top, Larger
<1>4. a \in Int /\ side[o].slots[a] = Holds(o, a)
  BY <1>1, BeforeHolds DEF SlotsAre
<1>5. CASE AtStart(a)
  BY <1>1, <1>2, <1>3, <1>4, <1>5, BeforeHolds DEF Holds, GuardedSlot, AtStart
<1>6. CASE AtEnd(a)
  <2>1. ~AtStart(a) /\ ~Paired(a)
    BY <1>1, <1>6, BeforeHolds
  <2> QED
    BY <1>1, <1>2, <1>3, <1>4, <1>6, <2>1, BeforeHolds DEF Holds, GuardedSlot, AtEnd
<1>7. CASE ~AtStart(a) /\ ~AtEnd(a)
  BY <1>4, <1>7 DEF Holds
<1> QED
  BY <1>5, <1>6, <1>7

\* At the end of swap_small_small, wherever a copy or an exchange threw, exactly the elements
\* are objects: of each pair of original and copy the guards destroyed one, and no object
\* that another one stands for.
THEOREM SwapDestroysOneOfEachPair ==
  ASSUME ~AnyRanges
  PROVE  SwapSpec => []OnePerPair
<1>1. SwapInv => OnePerPair
  <2> SUFFICES ASSUME SwapInv, pc \in {"done", "threw"}, NEW o \in Sides
               PROVE  LiveExactly(side[o])
    BY DEF OnePerPair
  <2>1. Called /\ Other(o) \in Sides /\ LiveExactly(before[o]) /\ LiveExactly(before[Other(o)])
    BY DEF SwapInv, Called, Sides, Other
  <2>2. CASE pc = "done"
    BY <2>1, <2>2 DEF SwapInv
  <2>3. CASE pc = "threw"
    <3>1. side[o].front = before[o].front /\ side[o].back = before[o].back
      BY <2>1, <2>3 DEF SwapInv, SameMembers, Called, DevectorType
    <3>2. \A a \in Address : side[o].slots[a] # Raw <=> before[o].slots[a] # Raw
      BY <2>1, <2>3, ThrewHolds, BeforeHolds, MarkersAssumption DEF Object
    <3> QED
      BY <2>1, <3>1, <3>2 DEF LiveExactly
  <2> QED
    BY <2>2, <2>3
<1> QED
  BY <1>1, AlwaysSwapInv, PTL

\* swap_small_small exchanges the contents; if it throws, elements in the same place may be
\* exchanged and all others are as they were.
THEOREM SwapExchangesContents ==
  ASSUME ~AnyRanges
  PROVE  SwapSpec => []Effect
<1>1. SwapInv => Effect
  BY ThrewHolds DEF SwapInv, Effect
<1> QED
  BY <1>1, AlwaysSwapInv, PTL

\* Taken step by step, the swap of two small ones becomes what DevectorPair takes it for: the
\* two devectors change places, slot by slot.  On the way it exchanges nothing that is not
\* there.
THEOREM SwapIsOneStep ==
  ASSUME ~AnyRanges
  PROVE  SwapSpec => [](/\ pc # "undefined"
                        /\ pc = "done" => side = [o \in Sides |-> before[Other(o)]])
<1>1. SwapInv => /\ pc # "undefined"
                 /\ pc = "done" => side = [o \in Sides |-> before[Other(o)]]
  BY DEF SwapInv
<1> QED
  BY <1>1, AlwaysSwapInv, PTL

-----------------------------------------------------------------------------
\* A devector filled from input iterators: what was read and what is left are the range

\* What the call is to make of the contents
Wanted ==
  LET old == Contents(initial)
      xs  == request.xs
  IN  IF request.op # "insert" THEN xs
      ELSE SubSeq(old, 1, request.at) \o xs \o Without(old, request.at)

\* The call that was made
Asked ==
  /\ Good(initial)
  /\ request \in [op : {"assign", "insert", "construct"},
                  at : 0 .. SizeOf(initial), xs : Seq(Object)]
  /\ request.op = "construct" => Contents(initial) = << >>

\* How far it is: what was stored, then what was gathered, then what was not read.
Progress ==
  /\ next = "overwrite" =>
       request.op = "assign" /\ dv = initial /\ stream = request.xs
  /\ next = "push" =>
       /\ request.op = "insert" => request.at = SizeOf(initial)
       /\ Contents(dv) \o stream = Wanted
  /\ next = "gather" =>
       /\ request.op = "insert" /\ dv = initial /\ range \o stream = request.xs
       /\ RequestFits(initial, Len(request.xs))
  /\ next = "done" => Contents(dv) = Wanted

InputInv ==
  /\ Asked /\ Good(dv)
  /\ stream \in Seq(Object) /\ range \in Seq(Object)
  /\ next \in {"overwrite", "push", "gather", "done", "threw"}
  /\ Progress

\* The next element goes from what is left to what was read.
LEMMA OneRead ==
  ASSUME NEW S, NEW s \in Seq(S), NEW t \in Seq(S), t # << >>
  PROVE  /\ Head(t) \in S /\ Tail(t) \in Seq(S) /\ Append(s, Head(t)) \in Seq(S)
         /\ Append(s, Head(t)) \o Tail(t) = s \o t
<1>1. /\ Head(t) \in S /\ Tail(t) \in Seq(S) /\ Append(s, Head(t)) \in Seq(S)
      /\ <<Head(t)>> \in Seq(S)
  OBVIOUS
<1>2. s \o <<Head(t)>> = Append(s, Head(t))
  BY <1>1
<1>3. <<Head(t)>> \o Tail(t) = t
  BY <1>1, HeadTailProperties
<1>4. (s \o <<Head(t)>>) \o Tail(t) = s \o (<<Head(t)>> \o Tail(t))
  BY <1>1, ConcatAssociative
<1> QED
  BY <1>1, <1>2, <1>3, <1>4

\* The first elements and the others are all of them.
LEMMA FirstAndRest ==
  ASSUME NEW xs \in Seq(Object), NEW n \in 0 .. Len(xs)
  PROVE  FirstOf(xs, n) \o Without(xs, n) = xs
<1>1. /\ Len(xs) \in Nat /\ 1 \in 1 .. Len(xs) + 1
      /\ n \in 1 - 1 .. Len(xs) /\ Len(xs) \in n .. Len(xs)
  OBVIOUS
<1>2. SubSeq(xs, 1, n) \o SubSeq(xs, n + 1, Len(xs)) = SubSeq(xs, 1, Len(xs))
  BY <1>1, ConcatAdjacentSubSeq
<1>3. SubSeq(xs, 1, Len(xs)) = xs
  BY SubSeqFull
<1> QED
  BY <1>2, <1>3 DEF FirstOf, Without

\* A range a request may have is one of objects.
LEMMA RangesAre ==
  ASSUME NEW n \in Nat, NEW xs \in Ranges(n)
  PROVE  xs \in Seq(Object) /\ Len(xs) \in Nat
<1>1. PICK m \in 0 .. n : xs \in [1 .. m -> Values]
  BY DEF Ranges
<1>2. m \in Nat /\ xs \in [1 .. m -> Object]
  BY <1>1 DEF Object
<1> QED
  BY <1>2

\* A devector that a call may start with
LEMMA HoldingGood ==
  ASSUME NEW d \in Devectors, {MaxBefore, MaxFree} \subseteq Nat
  PROVE  Good(d)
<1>1. PICK m \in 0 .. MaxFree, n \in 0 .. MaxFree, xs \in Ranges(MaxBefore) :
        d = Holding(m, xs, n) /\ d.cap =< MaxSize
  BY DEF Devectors
<1>2. /\ m \in Nat /\ n \in Nat /\ xs \in Seq(Object) /\ Len(xs) \in Nat
      /\ SBuf \in Nat /\ MaxSize \in Nat
  BY <1>1, RangesAre, SizesAssumption DEF Size
<1> DEFINE e == Reserved(m, Len(xs) + n)
<1>3. /\ e.cap = Larger(m + (Len(xs) + n), SBuf) /\ e.back = m
      /\ d.cap = e.cap
  BY <1>1 DEF Reserved, Holding, PutBack
<1>4. m + (Len(xs) + n) =< e.cap
  BY <1>2, <1>3 DEF Larger
<1>5. e.cap \in Int /\ e.cap =< MaxSize
  BY <1>1, <1>2, <1>3 DEF Larger
<1>6. Good(e) /\ Len(xs) =< BackFree(e)
  <2> HIDE DEF e
  <2>1. m + (Len(xs) + n) =< MaxSize /\ Len(xs) + n \in Nat
    BY <1>2, <1>4, <1>5
  <2>2. Good(e)
    BY <1>2, <2>1, ReservedGood DEF e
  <2> QED
    BY <1>2, <1>3, <1>4, <2>2, GoodIndices DEF BackFree, Indices
<1> QED
  BY <1>1, <1>2, <1>6, PutBackGood DEF Holding

\* A request
LEMMA RequestsAre ==
  ASSUME NEW d, Good(d), NEW r \in Requests(d), MaxStream \in Nat
  PROVE  /\ r \in [op : {"assign", "insert", "construct"}, at : 0 .. SizeOf(d), xs : Seq(Object)]
         /\ r.op = "construct" => Contents(d) = << >>
         /\ r.op = "insert" => r.at = SizeOf(d) \/ RequestFits(d, Len(r.xs))
<1>1. SizeOf(d) \in Nat /\ Len(Contents(d)) = SizeOf(d) /\ Contents(d) \in Seq(Object)
  BY ContentsSeq
<1>2. \A xs \in Ranges(MaxStream) : xs \in Seq(Object)
  BY RangesAre
<1>3. CASE r \in {[op |-> "assign", at |-> 0, xs |-> xs] : xs \in Ranges(MaxStream)}
  BY <1>1, <1>2, <1>3
<1>4. CASE r \in {q \in {[op |-> "insert", at |-> i, xs |-> xs] :
                           i \in 0 .. SizeOf(d), xs \in Ranges(MaxStream)} :
                    q.at = SizeOf(d) \/ RequestFits(d, Len(q.xs))}
  BY <1>2, <1>4
<1>5. CASE d = Reserved(0, 0) /\ r \in {[op |-> "construct", at |-> 0, xs |-> xs] :
                                           xs \in Ranges(MaxStream)}
  <2>1. SizeOf(d) = 0
    BY <1>5 DEF Reserved, SizeOf
  <2> QED
    BY <1>1, <1>2, <1>5, <2>1, EmptySeq
<1> QED
  BY <1>3, <1>4, <1>5 DEF Requests

\* Nothing was read yet.
LEMMA InputBegins ==
  ASSUME {MaxBefore, MaxFree, MaxStream} \subseteq Nat
  PROVE  InputInit => InputInv
<1> SUFFICES ASSUME InputInit PROVE InputInv
  OBVIOUS
<1>1. Good(dv) /\ initial = dv /\ stream = request.xs /\ range = << >>
      /\ next = FirstStep(request, dv)
  BY HoldingGood DEF InputInit
<1>2. /\ request \in [op : {"assign", "insert", "construct"}, at : 0 .. SizeOf(dv),
                        xs : Seq(Object)]
      /\ request.op = "construct" => Contents(dv) = << >>
      /\ request.op = "insert" => request.at = SizeOf(dv) \/ RequestFits(dv, Len(request.xs))
  BY <1>1, RequestsAre DEF InputInit
<1>3. Asked
  BY <1>1, <1>2 DEF Asked
<1>4. stream \in Seq(Object) /\ range \in Seq(Object) /\ range \o stream = request.xs
  BY <1>1, <1>2, ConcatEmptySeq, EmptySeq
<1>5. Contents(dv) \in Seq(Object) /\ Len(Contents(dv)) = SizeOf(dv)
  BY <1>1, ContentsSeq
<1>6. next = "push" => /\ request.op = "insert" => request.at = SizeOf(dv)
                       /\ Contents(dv) \o stream = Wanted
  <2>1. CASE request.op = "construct"
    BY <1>1, <1>2, <1>4, <2>1, ConcatEmptySeq DEF Wanted
  <2>2. CASE request.op = "insert" /\ request.at = SizeOf(dv)
    <3>1. LET s == Contents(dv)
          IN  SubSeq(s, 1, Len(s)) \o request.xs \o SubSeq(s, Len(s) + 1, Len(s))
                = s \o request.xs
      <4>1. request.xs \in Seq(Object)
        BY <1>2
      <4> QED
        BY <1>5, <4>1, EndParts, Zenon
    <3> QED
      BY <1>1, <1>5, <2>2, <3>1 DEF Wanted, Without
  <2>3. CASE request.op = "insert" /\ request.at # SizeOf(dv)
    BY <1>1, <2>3 DEF FirstStep
  <2>4. CASE request.op = "assign"
    BY <1>1, <2>4 DEF FirstStep
  <2> QED
    BY <1>2, <2>1, <2>2, <2>3, <2>4
<1>7. Progress
  BY <1>1, <1>2, <1>4, <1>6 DEF Progress, FirstStep
<1>8. next \in {"overwrite", "push", "gather"}
  BY <1>1 DEF FirstStep
<1> QED
  BY <1>1, <1>3, <1>4, <1>7, <1>8 DEF InputInv

\* assign constructs in the buffer what fits into it.
LEMMA OverwriteReads == InputInv /\ Overwrite => InputInv'
<1> SUFFICES ASSUME InputInv, Overwrite PROVE InputInv'
  OBVIOUS
<1> DEFINE n  == Smaller(dv.cap, Len(stream))
           xs == FirstOf(stream, n)
<1>1. /\ Good(dv) /\ stream \in Seq(Object) /\ Len(stream) \in Nat /\ dv.cap \in Nat
      /\ request.op = "assign" /\ stream = request.xs /\ next = "overwrite"
  BY GoodIndices DEF InputInv, Progress, Overwrite, Indices
<1>2. n \in 0 .. Len(stream) /\ n =< dv.cap /\ n =< MaxSize
  <2>1. dv.cap =< MaxSize /\ MaxSize \in Nat
    BY <1>1, SizesAssumption DEF Good, DevectorType, Size
  <2> QED
    BY <1>1, <2>1 DEF Smaller
<1> HIDE DEF n
<1>3. /\ xs \in Seq(Object) /\ Len(xs) = n
      /\ stream' \in Seq(Object) /\ xs \o stream' = stream
  BY <1>1, <1>2, PartsOfRange, FirstAndRest DEF Overwrite, NotOverwritten, Overwritten, n
<1>4. Asked' /\ UNCHANGED <<request, initial, range>> /\ Wanted' = Wanted
  BY DEF InputInv, Asked, Overwrite, Wanted
<1> HIDE DEF xs
<1>5. CASE dv' = OverwriteBuffer(dv, xs) /\ next' = "push"
  <2>1. Good(dv') /\ AssignOk(dv, Len(xs))
    BY <1>1, <1>2, <1>3, <1>5, OverwriteBufferGood DEF AssignOk
  <2>2. Contents(Assign(dv, xs)) = xs
    BY <1>1, <1>3, <2>1, AssignContents
  <2>3. Assign(dv, xs) = dv'
    BY <1>2, <1>3, <1>1, <1>5 DEF Assign
  <2>4. Progress'
    BY <1>1, <1>3, <1>4, <1>5, <2>2, <2>3 DEF Progress, Wanted
  <2> QED
    BY <1>3, <1>4, <1>5, <2>1, <2>4 DEF InputInv
<1>6. CASE dv' \in AssignThrew(dv, xs) /\ next' = "threw"
  <2>1. Good(dv')
    BY <1>1, <1>3, <1>6, AssignThrewGood
  <2> QED
    BY <1>3, <1>4, <1>6, <2>1 DEF InputInv, Progress
<1> QED
  BY <1>5, <1>6 DEF Overwrite, Overwritten, n, xs

\* One more is pushed.
LEMMA PushReads == InputInv /\ PushNext => InputInv'
<1> SUFFICES ASSUME InputInv, PushNext PROVE InputInv'
  OBVIOUS
<1> DEFINE x == Head(stream)
           old == Contents(dv)
<1>1. /\ Good(dv) /\ stream \in Seq(Object) /\ stream # << >> /\ next = "push"
      /\ request.op = "insert" => request.at = SizeOf(initial)
      /\ old \o stream = Wanted /\ stream' = Tail(stream)
  BY DEF InputInv, Progress, PushNext
<1>2. old \in Seq(Object) /\ Len(old) = SizeOf(dv) /\ SizeOf(dv) \in Nat
  BY <1>1, ContentsSeq
<1>3. Asked' /\ UNCHANGED <<request, initial, range>> /\ Wanted' = Wanted
  BY DEF InputInv, Asked, PushNext, Wanted
<1> HIDE DEF old
<1>4. /\ x \in Object /\ stream' \in Seq(Object)
      /\ old \o <<x>> = Append(old, x) /\ Append(old, x) \o stream' = old \o stream
  <2>1. /\ Head(stream) \in Object /\ Tail(stream) \in Seq(Object)
        /\ old \o <<Head(stream)>> = Append(old, Head(stream))
        /\ Append(old, Head(stream)) \o Tail(stream) = old \o stream
    <3>1. stream \in Seq(Object) /\ stream # << >> /\ old \in Seq(Object)
      BY <1>1, <1>2
    <3>2. /\ Head(stream) \in Object /\ Tail(stream) \in Seq(Object)
          /\ Append(old, Head(stream)) \o Tail(stream) = old \o stream
      BY <3>1, OneRead
    <3>3. Append(old, Head(stream)) = old \o <<Head(stream)>>
      BY <3>1, <3>2, AppendIsConcat
    <3> QED
      BY <3>2, <3>3
  <2> QED
    BY <1>1, <2>1
<1> HIDE DEF x
<1>5. CASE EmplaceBackOk(dv) /\ dv' = EmplaceBack(dv, x) /\ next' = next
  <2>1. Good(dv') /\ Inserted(dv, dv', SizeOf(dv), <<x>>)
    BY <1>1, <1>4, <1>5, EmplaceBackGood, EmplaceBackInserted
  <2>2. <<x>> \in Seq(Object) /\ SizeOf(dv) \in 0 .. SizeOf(dv)
    BY <1>2, <1>4
  <2>3. Contents(dv') = SubSeq(old, 1, SizeOf(dv)) \o <<x>> \o SubSeq(old, SizeOf(dv) + 1, Len(old))
    BY <1>1, <2>1, <2>2, InsertedContents DEF old
  <2>4. Contents(dv') = old \o <<x>>
    <3>1. SubSeq(old, 1, Len(old)) \o <<x>> \o SubSeq(old, Len(old) + 1, Len(old)) = old \o <<x>>
      BY <1>2, <2>2, EndParts
    <3> QED
      BY <1>2, <2>3, <3>1
  <2>5. Progress'
    BY <1>1, <1>3, <1>4, <1>5, <2>4 DEF Progress
  <2> QED
    BY <1>1, <1>3, <1>4, <1>5, <2>1, <2>5 DEF InputInv
<1>6. CASE dv' = dv /\ next' = "threw"
  BY <1>1, <1>3, <1>4, <1>6 DEF InputInv, Progress
<1> QED
  BY <1>5, <1>6 DEF PushNext, x

LEMMA PushedReads == InputInv /\ AllPushed => InputInv'
<1> SUFFICES ASSUME InputInv, AllPushed PROVE InputInv'
  OBVIOUS
<1>1. Contents(dv) \in Seq(Object) /\ stream = << >>
  BY ContentsSeq DEF InputInv, AllPushed
<1>2. Contents(dv) = Wanted
  BY <1>1, ConcatEmptySeq DEF InputInv, Progress, AllPushed
<1> QED
  BY <1>2 DEF InputInv, Progress, AllPushed, Asked, Wanted

\* One more is gathered.
LEMMA GatherReads == InputInv /\ GatherNext => InputInv'
<1> SUFFICES ASSUME InputInv, GatherNext PROVE InputInv'
  OBVIOUS
<1>1. /\ stream \in Seq(Object) /\ range \in Seq(Object) /\ stream # << >>
      /\ range \o stream = request.xs /\ stream' = Tail(stream)
      /\ next = "gather" /\ UNCHANGED <<dv, request, initial>>
  BY DEF InputInv, Progress, GatherNext
<1>2. /\ stream' \in Seq(Object) /\ Append(range, Head(stream)) \in Seq(Object)
      /\ Append(range, Head(stream)) \o stream' = range \o stream
  <2>1. stream \in Seq(Object) /\ stream # << >> /\ range \in Seq(Object)
    BY <1>1
  <2>2. /\ Tail(stream) \in Seq(Object) /\ Append(range, Head(stream)) \in Seq(Object)
        /\ Append(range, Head(stream)) \o Tail(stream) = range \o stream
    BY <2>1, OneRead
  <2> QED
    BY <1>1, <2>2
<1>3. << >> \in Seq(Object)
  BY EmptySeq
<1>4. CASE range' = Append(range, Head(stream)) /\ next' = next
  BY <1>1, <1>2, <1>4 DEF InputInv, Progress, Asked
<1>5. CASE range' = << >> /\ next' = "threw"
  BY <1>1, <1>2, <1>3, <1>5 DEF InputInv, Progress, Asked
<1> QED
  BY <1>4, <1>5 DEF GatherNext

\* What was gathered is inserted.
LEMMA InsertReads == InputInv /\ InsertGathered => InputInv'
<1> SUFFICES ASSUME InputInv, InsertGathered PROVE InputInv'
  OBVIOUS
<1>1. /\ Good(dv) /\ range \in Seq(Object) /\ stream = << >> /\ range' = << >>
      /\ range \o stream = request.xs /\ dv = initial
      /\ request.op = "insert" /\ request.at \in 0 .. SizeOf(dv)
      /\ RequestFits(dv, Len(request.xs)) /\ UNCHANGED <<request, initial, stream>>
  BY DEF InputInv, Progress, InsertGathered, Asked
<1>2. range = request.xs /\ << >> \in Seq(Object)
  BY <1>1, ConcatEmptySeq, EmptySeq
<1>3. CASE /\ InsertRangeOk(dv, Len(range)) /\ dv' = InsertRange(dv, request.at, range)
           /\ next' = "done"
  <2>1. FreeSlots(dv) >= Len(range) \/ dv.cap + Len(range) =< SizeMax
    BY <1>1, <1>2 DEF RequestFits
  <2>2. Good(dv') /\ Inserted(dv, dv', request.at, range)
    BY <1>1, <1>3, <2>1, InsertRangeGood, InsertRangeInserted
  <2>3. LET s == Contents(dv)
        IN  Contents(dv') = SubSeq(s, 1, request.at) \o range \o SubSeq(s, request.at + 1, Len(s))
    BY <1>1, <2>2, InsertedContents
  <2>4. Contents(dv') = Wanted'
    BY <1>1, <1>2, <2>3 DEF Wanted, Without
  <2> QED
    BY <1>1, <1>2, <1>3, <2>2, <2>4 DEF InputInv, Progress, Asked
<1>4. CASE dv' \in InsertRangeThrew(dv, request.at, range) /\ next' = "threw"
  <2>1. Good(dv')
    BY <1>1, <1>2, <1>4, InsertRangeThrewGood
  <2> QED
    BY <1>1, <1>2, <1>4, <2>1 DEF InputInv, Progress, Asked
<1> QED
  BY <1>3, <1>4 DEF InsertGathered

LEMMA AlwaysInputInv ==
  ASSUME {MaxBefore, MaxFree, MaxStream} \subseteq Nat
  PROVE  InputSpec => []InputInv
<1>1. InputInit => InputInv
  BY InputBegins
<1>2. InputInv /\ [InputStep]_inputVars => InputInv'
  <2>1. InputInv /\ UNCHANGED inputVars => InputInv'
    BY DEF inputVars, InputInv, Asked, Progress, Wanted
  <2> QED
    BY <2>1, OverwriteReads, PushReads, PushedReads, GatherReads, InsertReads DEF InputStep
<1> QED
  BY <1>1, <1>2, PTL DEF InputSpec

\* While a devector reads from input iterators, after each element read and after it threw,
\* its members, its buffer and the objects in it fit each other.
THEOREM InputAlwaysWhole ==
  ASSUME {MaxBefore, MaxFree, MaxStream} \subseteq Nat, ~ShiftMayThrow
  PROVE  InputSpec => []Whole
<1>1. InputInv => Whole
  <2>1. Good(dv) => LiveExactly(dv)
    BY DEF Good, Held, LiveExactly
  <2> QED
    BY <2>1 DEF InputInv, Good, Whole
<1> QED
  BY <1>1, AlwaysInputInv, PTL

\* However the elements are split between the buffer overwritten and the pushes after it, or
\* between the stream and the temporary, none of those read is lost, read twice or out of
\* place.
THEOREM InputReadInOrder ==
  ASSUME {MaxBefore, MaxFree, MaxStream} \subseteq Nat
  PROVE  InputSpec => []ReadInOrder
<1>1. InputInv => ReadInOrder
  BY DEF InputInv, Progress, ReadInOrder, Wanted
<1> QED
  BY <1>1, AlwaysInputInv, PTL

-----------------------------------------------------------------------------
\* One devector that is saved and loaded (DevectorSerialization)

\* The members and the buffer fit together, whatever the slots hold.
Framed(d) == d \in DevectorType /\ InvariantsOk(d) /\ BufferMatches(d)

\* No object lies outside the elements; some of these may be raw.
Loose(d) ==
  /\ Framed(d)
  /\ \A a \in Address : d.slots[a] # Raw => d.front =< a /\ a < d.back

LEMMA FramedFacts ==
  ASSUME NEW d, Framed(d)
  PROVE  /\ Indices(d) /\ d.slots \in Memory
         /\ SizeOf(d) \in Nat /\ SizeOf(d) = d.back - d.front
         /\ FrontFree(d) = d.front /\ FrontCapacity(d) = d.back
         /\ BackFree(d) \in Nat /\ BackFree(d) = d.cap - d.back
         /\ BackCapacity(d) = d.cap - d.front
<1>1. Indices(d) /\ d.slots \in Memory
  BY SizesAssumption DEF Framed, DevectorType, InvariantsOk, Indices, Size, Memory
<1> QED
  BY <1>1 DEF Indices, SizeOf, FrontFree, FrontCapacity, BackFree, BackCapacity

\* With every element an object, nothing is left to ask for.
LEMMA LooseIsGood ==
  ASSUME NEW d, Loose(d), Initialized(d)
  PROVE  Good(d)
<1>1. Indices(d)
  BY FramedFacts DEF Loose
<1>2. ASSUME NEW a \in Address, d.front =< a, a < d.back
      PROVE  d.slots[a] # Raw
  <2>1. a \in d.front .. d.back - 1
    BY <1>1, <1>2, SizesAssumption DEF Address, Indices
  <2> QED
    BY <2>1 DEF Initialized
<1> QED
  BY <1>2 DEF Loose, Framed, Good, Held

LEMMA GoodIsLoose ==
  ASSUME NEW d, Good(d), ~ShiftMayThrow
  PROVE  Loose(d) /\ Initialized(d)
<1>1. Indices(d)
  BY GoodIndices
<1>2. \A a \in d.front .. d.back - 1 : a \in Address /\ d.front =< a /\ a < d.back
  BY <1>1, SizesAssumption DEF Address, Indices
<1> QED
  BY <1>2 DEF Loose, Framed, Good, Held, Initialized

\* A buffer of `allocate`
LEMMA NewFramed ==
  ASSUME NEW c \in Size, NEW f \in Nat, NEW b \in Nat, NEW m \in Memory,
         SBuf =< c, f =< b, b =< c
  PROVE  Framed([cap |-> c, front |-> f, back |-> b, slots |-> m, buf |-> BufferFor(c)])
<1> DEFINE d == [cap |-> c, front |-> f, back |-> b, slots |-> m, buf |-> BufferFor(c)]
<1>1. d \in DevectorType
  BY SizesAssumption DEF DevectorType, Size, Memory, BufferFor
<1>2. InvariantsOk(d)
  BY SizesAssumption DEF InvariantsOk, HasBuffer, BufferFor, Size
<1>3. BufferMatches(d)
  BY SizesAssumption DEF BufferMatches, MustFree, IsSmall, HasBuffer, BufferFor, Size
<1> QED
  BY <1>1, <1>2, <1>3 DEF Framed

\* The buffer at hand
LEMMA SameFramed ==
  ASSUME NEW d, Framed(d), NEW f \in Nat, NEW b \in Nat, NEW m \in Memory,
         f =< b, b =< d.cap
  PROVE  Framed([d EXCEPT !.slots = m, !.front = f, !.back = b])
<1> DEFINE e == [d EXCEPT !.slots = m, !.front = f, !.back = b]
<1>1. d \in DevectorType /\ InvariantsOk(d) /\ BufferMatches(d)
  BY DEF Framed
<1>2. e.cap = d.cap /\ e.front = f /\ e.back = b /\ e.slots = m /\ e.buf = d.buf
  BY <1>1 DEF DevectorType
<1>3. f \in Size /\ b \in Size
  BY <1>1, SizesAssumption DEF DevectorType, Size
<1>4. e \in DevectorType
  BY <1>1, <1>3 DEF DevectorType, Memory
<1>5. InvariantsOk(e) /\ BufferMatches(e)
  BY <1>1, <1>2 DEF InvariantsOk, BufferMatches, MustFree, IsSmall, HasBuffer
<1> QED
  BY <1>2, <1>4, <1>5 DEF Framed

\* All elements of d in a new buffer, the raw ones too
LEMMA MovedFramed ==
  ASSUME NEW d, Framed(d), NEW c \in Size, NEW offset \in Nat,
         offset + SizeOf(d) =< c, SBuf =< c,
         NEW e, e = ReallocateAt(d, c, offset)
  PROVE  /\ Framed(e)
         /\ e.cap = c /\ e.front = offset /\ e.back = offset + SizeOf(d)
         /\ \A i \in 0 .. SizeOf(d) - 1 : e.slots[offset + i] = d.slots[d.front + i]
         /\ \A a \in Address : e.slots[a] # Raw => offset =< a /\ a < offset + SizeOf(d)
<1> DEFINE m == Transfer(d.slots, d.front, d.back, NoObjects, offset)
<1>1. /\ Indices(d) /\ d.slots \in Memory
      /\ SizeOf(d) \in Nat /\ SizeOf(d) = d.back - d.front
  BY FramedFacts
<1>2. \A a \in Address : a \in Int
  BY SizesAssumption DEF Address
<1>3. m \in Memory
  <2>1. ASSUME NEW a \in Address, offset =< a, a < offset + (d.back - d.front)
        PROVE  d.front + (a - offset) \in Address
    BY <1>1, <1>2, <2>1 DEF Address, Indices
  <2> QED
    BY <1>1, <2>1, NoObjectsRaw DEF Transfer, Memory
<1>4. \A a \in Address : m[a] # Raw => offset =< a /\ a < offset + SizeOf(d)
  BY <1>1, <1>2, NoObjectsRaw DEF Transfer
<1>5. ASSUME NEW i \in 0 .. SizeOf(d) - 1
      PROVE  m[offset + i] = d.slots[d.front + i]
  <2>1. offset + i \in Address
    <3>1. c \in Nat /\ c =< MaxSize /\ MaxSize \in Nat
      BY SizesAssumption DEF Size
    <3>2. i \in Nat /\ i + 1 =< SizeOf(d) /\ SizeOf(d) \in Nat
      BY <1>1
    <3>3. offset + i \in Nat /\ offset + i + 1 =< c
      BY <3>1, <3>2
    <3> QED
      BY <3>1, <3>3 DEF Address
  <2>2. i \in 0 .. d.back - d.front - 1 /\ d.front \in Int /\ d.back \in Int
    BY <1>1 DEF Indices
  <2> QED
    BY <2>1, <2>2, TransferReads
<1> HIDE DEF m
<1>6. e = [cap |-> c, front |-> offset, back |-> offset + SizeOf(d),
           slots |-> m, buf |-> BufferFor(c)]
  BY DEF ReallocateAt, m
<1>7. Framed(e)
  BY <1>1, <1>3, <1>6, NewFramed
<1> QED
  BY <1>4, <1>5, <1>6, <1>7

\* The last, or the first, k elements are the same.
SameAtBack(d, e, k)  == \A i \in 1 .. k : e.slots[e.back - i] = d.slots[d.back - i]
SameAtFront(d, e, k) == \A i \in 0 .. k - 1 : e.slots[e.front + i] = d.slots[d.front + i]

\* unsafe_uninitialized_resize_front
LEMMA UnsafeFrontResized ==
  ASSUME NEW d, Framed(d), NEW n \in Nat, UnsafeResizeFrontOk(d, n),
         NEW e, e = UnsafeResizeFront(d, n)
  PROVE  /\ Framed(e) /\ SizeOf(e) = n
         /\ n =< d.back => e.slots = d.slots /\ e.cap = d.cap /\ e.back = d.back
         /\ SameAtBack(d, e, Smaller(n, SizeOf(d)))
         /\ Loose(d) /\ n > SizeOf(d) => Loose(e)
<1>1. /\ Indices(d) /\ d.slots \in Memory /\ d \in DevectorType
      /\ SizeOf(d) \in Nat /\ SizeOf(d) = d.back - d.front
      /\ FrontFree(d) = d.front /\ FrontCapacity(d) = d.back
      /\ BackFree(d) \in Nat /\ BackFree(d) = d.cap - d.back
  BY FramedFacts DEF Framed
<1> DEFINE need == n - SizeOf(d)
<1>2. CASE n =< d.back
  <2> DEFINE f == d.front - need
  <2>1. f \in Nat /\ f = d.back - n /\ f =< d.back /\ d.back \in Nat /\ d.back =< d.cap
    BY <1>1, <1>2 DEF Indices
  <2>2. e = [d EXCEPT !.front = f]
    <3>1. CASE n > SizeOf(d)
      <4>1. ~(need > FrontFree(d))
        BY <1>1, <1>2 DEF Indices
      <4> QED
        BY <3>1, <4>1 DEF UnsafeResizeFront, UnsafeGrowFront
    <3>2. CASE ~(n > SizeOf(d))
      <4>1. d.front + (SizeOf(d) - n) = f
        BY <1>1 DEF Indices
      <4> QED
        BY <3>2, <4>1 DEF UnsafeResizeFront, UnsafeShrinkFront
    <3> QED
      BY <3>1, <3>2
  <2> HIDE DEF f, need
  <2>3. e = [d EXCEPT !.slots = d.slots, !.front = f, !.back = d.back]
    BY <1>1, <2>2 DEF DevectorType
  <2>4. Framed(e) /\ e.cap = d.cap /\ e.front = f /\ e.back = d.back /\ e.slots = d.slots
    <3> DEFINE g == [d EXCEPT !.slots = d.slots, !.front = f, !.back = d.back]
    <3>1. Framed(g)
      BY <1>1, <2>1, SameFramed
    <3>2. g.cap = d.cap /\ g.front = f /\ g.back = d.back /\ g.slots = d.slots
      BY <1>1, <2>1 DEF DevectorType, Framed
    <3> HIDE DEF g
    <3>3. e = g
      BY <2>3 DEF g
    <3> QED
      BY <3>1, <3>2, <3>3
  <2>5. SizeOf(e) = n
    BY <1>1, <2>1, <2>4 DEF SizeOf, Indices
  <2>6. Loose(d) /\ n > SizeOf(d) => Loose(e)
    <3>1. n > SizeOf(d) => f < d.front
      BY <1>1, <2>1 DEF Indices
    <3>2. \A a \in Address : a \in Int
      BY SizesAssumption DEF Address
    <3> QED
      BY <1>1, <2>1, <2>4, <3>1, <3>2 DEF Loose, Indices
  <2> QED
    BY <2>4, <2>5, <2>6 DEF SameAtBack
<1>3. CASE ~(n =< d.back)
  <2> DEFINE c    == n + BackFree(d)
             room == ReallocateAt(d, c, need)
  <2>1. n > d.back /\ c =< MaxSize
    BY <1>1, <1>3 DEF UnsafeResizeFrontOk, Indices
  <2>2. /\ c \in Size /\ SBuf =< c /\ Wrap(c) = c
        /\ need \in Nat /\ need > d.front /\ need + SizeOf(d) = n /\ n =< c
    <3>1. c \in Nat /\ c > d.cap
      BY <1>1, <2>1 DEF Indices
    <3>2. c \in Size /\ SBuf =< c
      BY <1>1, <2>1, <3>1 DEF Indices, Size
    <3>3. Wrap(c) = c
      BY <2>1, <3>1, SizesAssumption DEF Wrap
    <3>4. need \in Nat /\ need > d.front /\ need + SizeOf(d) = n
      BY <1>1, <2>1 DEF Indices
    <3> QED
      BY <1>1, <3>2, <3>3, <3>4
  <2>3. e = [room EXCEPT !.front = @ - need]
    <3>1. n > SizeOf(d)
      BY <1>1, <2>1 DEF Indices
    <3> QED
      BY <1>1, <2>2, <3>1 DEF UnsafeResizeFront, UnsafeGrowFront
  <2> HIDE DEF c, need
  <2>4. /\ Framed(room) /\ room.cap = c /\ room.front = need /\ room.back = n
        /\ \A i \in 0 .. SizeOf(d) - 1 : room.slots[need + i] = d.slots[d.front + i]
        /\ \A a \in Address : room.slots[a] # Raw => need =< a /\ a < n
    BY <2>2, MovedFramed
  <2> HIDE DEF room
  <2>5. /\ e = [room EXCEPT !.slots = room.slots, !.front = 0, !.back = n]
        /\ room.slots \in Memory
    <3>1. room \in DevectorType
      BY <2>4 DEF Framed
    <3>2. room.front - need = 0
      BY <2>2, <2>4
    <3> QED
      BY <2>3, <2>4, <3>1, <3>2 DEF DevectorType, Memory
  <2>6. /\ Framed(e) /\ e.cap = c /\ e.front = 0 /\ e.back = n /\ e.slots = room.slots
    <3>1. 0 =< n /\ n =< room.cap /\ 0 \in Nat
      BY <2>2, <2>4
    <3> DEFINE g == [room EXCEPT !.slots = room.slots, !.front = 0, !.back = n]
    <3>2. Framed(g)
      BY <2>2, <2>4, <2>5, <3>1, SameFramed
    <3>3. g.cap = room.cap /\ g.front = 0 /\ g.back = n /\ g.slots = room.slots
      BY <2>2, <2>4, <2>5, <3>1 DEF DevectorType, Framed
    <3> HIDE DEF g
    <3>4. e = g
      BY <2>5 DEF g
    <3> QED
      BY <2>4, <3>2, <3>3, <3>4
  <2>7. SizeOf(e) = n
    BY <2>6 DEF SizeOf
  <2>8. ASSUME NEW i \in 1 .. SizeOf(d)
        PROVE  e.slots[e.back - i] = d.slots[d.back - i]
    <3> DEFINE j == SizeOf(d) - i
    <3>1. j \in 0 .. SizeOf(d) - 1
      BY <1>1
    <3>2. need + j = n - i
      <4>1. need \in Nat /\ SizeOf(d) \in Nat /\ need + SizeOf(d) = n
        BY <1>1, <2>2
      <4> QED
        BY <4>1
    <3>3. d.front + j = d.back - i
      BY <1>1 DEF Indices
    <3> HIDE DEF j
    <3> QED
      BY <2>4, <2>6, <3>1, <3>2, <3>3
  <2>9. Smaller(n, SizeOf(d)) = SizeOf(d)
    BY <1>1, <2>1 DEF Smaller, Indices
  <2>10. Loose(e)
    <3>1. \A a \in Address : 0 =< a
      BY SizesAssumption DEF Address
    <3> QED
      BY <2>4, <2>6, <3>1 DEF Loose
  <2> QED
    BY <1>3, <2>6, <2>7, <2>8, <2>9, <2>10 DEF SameAtBack
<1> QED
  BY <1>2, <1>3

\* unsafe_uninitialized_resize_back
LEMMA UnsafeBackResized ==
  ASSUME NEW d, Framed(d), NEW n \in Nat, UnsafeResizeBackOk(d, n),
         NEW e, e = UnsafeResizeBack(d, n)
  PROVE  /\ Framed(e) /\ SizeOf(e) = n
         /\ n =< d.cap - d.front =>
              e.slots = d.slots /\ e.cap = d.cap /\ e.front = d.front
         /\ SameAtFront(d, e, Smaller(n, SizeOf(d)))
         /\ Loose(d) /\ n > SizeOf(d) => Loose(e)
<1>1. /\ Indices(d) /\ d.slots \in Memory /\ d \in DevectorType
      /\ SizeOf(d) \in Nat /\ SizeOf(d) = d.back - d.front
      /\ FrontFree(d) = d.front /\ BackCapacity(d) = d.cap - d.front
      /\ BackFree(d) \in Nat /\ BackFree(d) = d.cap - d.back
  BY FramedFacts DEF Framed
<1> DEFINE need == n - SizeOf(d)
<1>2. CASE n =< d.cap - d.front
  <2> DEFINE b == d.back + need
  <2>1. b \in Nat /\ b = d.front + n /\ d.front =< b /\ b =< d.cap /\ d.front \in Nat
    BY <1>1, <1>2 DEF Indices
  <2>2. e = [d EXCEPT !.back = b]
    <3>1. CASE n > SizeOf(d)
      <4>1. ~(need > BackFree(d))
        BY <1>1, <1>2 DEF Indices
      <4> QED
        BY <3>1, <4>1 DEF UnsafeResizeBack, UnsafeGrowBack
    <3>2. CASE ~(n > SizeOf(d))
      <4>1. d.back - (SizeOf(d) - n) = b
        BY <1>1 DEF Indices
      <4> QED
        BY <3>2, <4>1 DEF UnsafeResizeBack, UnsafeShrinkBack
    <3> QED
      BY <3>1, <3>2
  <2> HIDE DEF b, need
  <2>3. e = [d EXCEPT !.slots = d.slots, !.front = d.front, !.back = b]
    BY <1>1, <2>2 DEF DevectorType
  <2>4. Framed(e) /\ e.cap = d.cap /\ e.front = d.front /\ e.back = b /\ e.slots = d.slots
    <3> DEFINE g == [d EXCEPT !.slots = d.slots, !.front = d.front, !.back = b]
    <3>1. Framed(g)
      BY <1>1, <2>1, SameFramed
    <3>2. g.cap = d.cap /\ g.front = d.front /\ g.back = b /\ g.slots = d.slots
      BY <1>1, <2>1 DEF DevectorType, Framed
    <3> HIDE DEF g
    <3>3. e = g
      BY <2>3 DEF g
    <3> QED
      BY <3>1, <3>2, <3>3
  <2>5. SizeOf(e) = n
    BY <1>1, <2>1, <2>4 DEF SizeOf, Indices
  <2>6. Loose(d) /\ n > SizeOf(d) => Loose(e)
    <3>1. n > SizeOf(d) => d.back < b
      BY <1>1, <2>1 DEF Indices
    <3>2. \A a \in Address : a \in Int
      BY SizesAssumption DEF Address
    <3> QED
      BY <1>1, <2>1, <2>4, <3>1, <3>2 DEF Loose, Indices
  <2> QED
    BY <2>4, <2>5, <2>6 DEF SameAtFront
<1>3. CASE ~(n =< d.cap - d.front)
  <2> DEFINE c    == n + FrontFree(d)
             room == ReallocateAt(d, c, d.front)
  <2>1. n > d.cap - d.front /\ c =< MaxSize
    BY <1>1, <1>3 DEF UnsafeResizeBackOk, Indices
  <2>2. /\ c \in Size /\ SBuf =< c /\ Wrap(c) = c /\ d.front \in Nat
        /\ d.front + SizeOf(d) =< c /\ c = d.front + n /\ n > SizeOf(d)
        /\ d.front + SizeOf(d) = d.back /\ d.back + need = c /\ d.back \in Nat /\ d.back < c
    <3>1. c \in Nat /\ c > d.cap /\ n > SizeOf(d)
      BY <1>1, <2>1 DEF Indices
    <3>2. c \in Size /\ SBuf =< c
      BY <1>1, <2>1, <3>1 DEF Indices, Size
    <3>3. Wrap(c) = c
      BY <2>1, <3>1, SizesAssumption DEF Wrap
    <3>4. d.back + need = c /\ d.front + SizeOf(d) = d.back /\ d.back =< c /\ d.back < c
      BY <1>1, <3>1 DEF Indices
    <3> QED
      BY <1>1, <3>1, <3>2, <3>3, <3>4 DEF Indices
  <2>3. e = [room EXCEPT !.back = @ + need]
    <3>1. need > BackFree(d)
      BY <1>1, <2>1 DEF Indices
    <3> QED
      BY <1>1, <2>2, <3>1 DEF UnsafeResizeBack, UnsafeGrowBack
  <2> HIDE DEF c, need
  <2>4. /\ Framed(room) /\ room.cap = c /\ room.front = d.front /\ room.back = d.back
        /\ \A i \in 0 .. SizeOf(d) - 1 : room.slots[d.front + i] = d.slots[d.front + i]
        /\ \A a \in Address : room.slots[a] # Raw => d.front =< a /\ a < d.back
    BY <2>2, MovedFramed
  <2> HIDE DEF room
  <2>5. /\ e = [room EXCEPT !.slots = room.slots, !.front = d.front, !.back = c]
        /\ room.slots \in Memory
    <3>1. room \in DevectorType
      BY <2>4 DEF Framed
    <3> QED
      BY <2>2, <2>3, <2>4, <3>1 DEF DevectorType, Memory
  <2>6. /\ Framed(e) /\ e.cap = c /\ e.front = d.front /\ e.back = c /\ e.slots = room.slots
    <3>1. c \in Nat /\ d.front =< c /\ c =< room.cap
      BY <1>1, <2>2, <2>4 DEF Indices
    <3> DEFINE g == [room EXCEPT !.slots = room.slots, !.front = d.front, !.back = c]
    <3>2. Framed(g)
      BY <2>2, <2>4, <2>5, <3>1, SameFramed
    <3>3. g.cap = room.cap /\ g.front = d.front /\ g.back = c /\ g.slots = room.slots
      BY <2>2, <2>4, <2>5, <3>1 DEF DevectorType, Framed
    <3> HIDE DEF g
    <3>4. e = g
      BY <2>5 DEF g
    <3> QED
      BY <2>4, <3>2, <3>3, <3>4
  <2>7. SizeOf(e) = n
    BY <2>2, <2>6 DEF SizeOf
  <2>8. SameAtFront(d, e, SizeOf(d))
    BY <2>4, <2>6 DEF SameAtFront
  <2>9. Smaller(n, SizeOf(d)) = SizeOf(d)
    BY <1>1, <2>2 DEF Smaller
  <2>10. Loose(e)
    <3>1. \A a \in Address : a < d.back => a < c
      BY <2>2, SizesAssumption DEF Address, Size
    <3> QED
      BY <2>4, <2>6, <3>1 DEF Loose
  <2> QED
    BY <1>3, <2>6, <2>7, <2>8, <2>9, <2>10
<1> QED
  BY <1>2, <1>3

\* Other contents of the same slots
LEMMA SlotsFramed ==
  ASSUME NEW d, Framed(d), NEW m \in Memory
  PROVE  /\ Framed([d EXCEPT !.slots = m])
         /\ [d EXCEPT !.slots = m].cap = d.cap
         /\ [d EXCEPT !.slots = m].front = d.front
         /\ [d EXCEPT !.slots = m].back = d.back
         /\ [d EXCEPT !.slots = m].slots = m
<1>1. d \in DevectorType /\ InvariantsOk(d) /\ BufferMatches(d)
  BY DEF Framed
<1> DEFINE e == [d EXCEPT !.slots = m]
<1>2. e \in DevectorType
  BY <1>1 DEF DevectorType, Memory
<1>3. e.cap = d.cap /\ e.front = d.front /\ e.back = d.back /\ e.slots = m /\ e.buf = d.buf
  BY <1>1 DEF DevectorType
<1> HIDE DEF e
<1>4. InvariantsOk(e) /\ BufferMatches(e)
  BY <1>1, <1>3 DEF InvariantsOk, BufferMatches, MustFree, IsSmall, HasBuffer
<1>5. Framed(e)
  BY <1>2, <1>4 DEF Framed
<1> QED
  BY <1>3, <1>5 DEF e

LEMMA ForgetLoose ==
  ASSUME NEW d, Framed(d)
  PROVE  /\ Loose(Forget(d)) /\ Forget(d).cap = d.cap
         /\ Forget(d).front = d.front /\ Forget(d).back = d.back
<1> DEFINE m == [a \in Address |->
                   IF d.front =< a /\ a < d.back THEN d.slots[a] ELSE Raw]
<1>1. d \in DevectorType
  BY DEF Framed
<1>2. m \in Memory /\ \A a \in Address : m[a] # Raw => d.front =< a /\ a < d.back
  BY <1>1 DEF DevectorType, Memory, Slot
<1>3. Forget(d) = [d EXCEPT !.slots = m]
  BY <1>1 DEF Forget, DevectorType
<1> HIDE DEF m
<1>4. /\ Framed(Forget(d)) /\ Forget(d).cap = d.cap
      /\ Forget(d).front = d.front /\ Forget(d).back = d.back /\ Forget(d).slots = m
  BY <1>2, <1>3, SlotsFramed
<1> QED
  BY <1>2, <1>4 DEF Loose

\* What Contents gives, raw slots included.
LEMMA FramedContents ==
  ASSUME NEW d, Framed(d)
  PROVE  /\ Contents(d) \in Seq(Slot) /\ Len(Contents(d)) = SizeOf(d)
         /\ \A i \in 1 .. SizeOf(d) : Contents(d)[i] = d.slots[d.front + i - 1]
<1>1. Indices(d) /\ d.slots \in Memory /\ SizeOf(d) \in Nat /\ SizeOf(d) = d.back - d.front
  BY FramedFacts
<1>2. ASSUME NEW i \in 1 .. SizeOf(d) PROVE d.slots[d.front + i - 1] \in Slot
  <2>1. d.front + i - 1 \in Address
    BY <1>1 DEF Address, Indices
  <2> QED
    BY <1>1, <2>1 DEF Memory
<1>3. Contents(d) \in [1 .. SizeOf(d) -> Slot]
  BY <1>2 DEF Contents
<1> QED
  BY <1>1, <1>3 DEF Contents

\* The same last slots hold the same last elements.
LEMMA LastSame ==
  ASSUME NEW d, Framed(d), NEW e, Framed(e),
         NEW k \in Nat, k =< SizeOf(d), k =< SizeOf(e), SameAtBack(d, e, k)
  PROVE  LastOf(Contents(e), k) = LastOf(Contents(d), k)
<1> DEFINE s == Contents(d)
           r == Contents(e)
           m == SizeOf(d) - k
           n == SizeOf(e) - k
<1>1. /\ s \in Seq(Slot) /\ Len(s) = SizeOf(d) /\ SizeOf(d) = d.back - d.front
      /\ \A i \in 1 .. SizeOf(d) : s[i] = d.slots[d.front + i - 1]
      /\ r \in Seq(Slot) /\ Len(r) = SizeOf(e) /\ SizeOf(e) = e.back - e.front
      /\ \A i \in 1 .. SizeOf(e) : r[i] = e.slots[e.front + i - 1]
      /\ SizeOf(d) \in Nat /\ SizeOf(e) \in Nat
      /\ d.front \in Nat /\ d.back \in Nat /\ e.front \in Nat /\ e.back \in Nat
  BY FramedContents, FramedFacts DEF Indices
<1> HIDE DEF s, r
<1>2. /\ m \in Nat /\ m + k = SizeOf(d) /\ m \in 0 .. Len(s) /\ Len(s) - m = k
      /\ n \in Nat /\ n + k = SizeOf(e) /\ n \in 0 .. Len(r) /\ Len(r) - n = k
  <2>1. SizeOf(d) \in Nat /\ SizeOf(e) \in Nat /\ Len(s) = SizeOf(d) /\ Len(r) = SizeOf(e)
    BY <1>1
  <2>2. \A size \in Nat : k =< size =>
          LET rest == size - k
          IN  rest \in Nat /\ rest + k = size /\ rest =< size /\ size - rest = k
    OBVIOUS
  <2>3. m \in Nat /\ m + k = SizeOf(d) /\ m =< SizeOf(d) /\ SizeOf(d) - m = k
    BY <2>1, <2>2
  <2>4. n \in Nat /\ n + k = SizeOf(e) /\ n =< SizeOf(e) /\ SizeOf(e) - n = k
    BY <2>1, <2>2
  <2> HIDE DEF m, n
  <2> QED
    BY <2>1, <2>3, <2>4
<1> HIDE DEF m, n
<1>3. /\ SubSeq(s, m + 1, Len(s)) \in Seq(Slot) /\ Len(SubSeq(s, m + 1, Len(s))) = k
      /\ \A i \in 1 .. k : SubSeq(s, m + 1, Len(s))[i] = s[m + i]
  <2>1. Len(s) \in m .. Len(s) /\ s \in Seq(Slot)
    BY <1>1, <1>2
  <2> QED
    BY <1>2, <2>1, Run
<1>4. /\ SubSeq(r, n + 1, Len(r)) \in Seq(Slot) /\ Len(SubSeq(r, n + 1, Len(r))) = k
      /\ \A i \in 1 .. k : SubSeq(r, n + 1, Len(r))[i] = r[n + i]
  <2>1. Len(r) \in n .. Len(r) /\ r \in Seq(Slot)
    BY <1>1, <1>2
  <2> QED
    BY <1>2, <2>1, Run
<1>5. ASSUME NEW i \in 1 .. k PROVE s[m + i] = r[n + i]
  <2> DEFINE j == k - i + 1
  <2>1. j \in 1 .. k
    OBVIOUS
  <2>2. m + i \in 1 .. SizeOf(d) /\ d.front + (m + i) - 1 = d.back - j
    <3>1. /\ d.front \in Nat /\ d.back \in Nat /\ m \in Nat
          /\ m + k = SizeOf(d) /\ SizeOf(d) = d.back - d.front
      BY <1>1, <1>2
    <3> QED
      BY <3>1
  <2>3. n + i \in 1 .. SizeOf(e) /\ e.front + (n + i) - 1 = e.back - j
    <3>1. /\ e.front \in Nat /\ e.back \in Nat /\ n \in Nat
          /\ n + k = SizeOf(e) /\ SizeOf(e) = e.back - e.front
      BY <1>1, <1>2
    <3> QED
      BY <3>1
  <2> HIDE DEF j
  <2>4. e.slots[e.back - j] = d.slots[d.back - j]
    BY <2>1 DEF SameAtBack
  <2>5. s[m + i] = d.slots[d.back - j]
    BY <1>1, <2>2
  <2>6. r[n + i] = e.slots[e.back - j]
    BY <1>1, <2>3
  <2> QED
    BY <2>4, <2>5, <2>6
<1>6. SubSeq(r, n + 1, Len(r)) = SubSeq(s, m + 1, Len(s))
  BY <1>3, <1>4, <1>5, SeqEqual
<1>7. LastOf(s, k) = SubSeq(s, m + 1, Len(s)) /\ LastOf(r, k) = SubSeq(r, n + 1, Len(r))
  BY <1>1 DEF LastOf, m, n
<1> QED
  BY <1>6, <1>7 DEF s, r

\* The same first slots hold the same first elements.
LEMMA FirstSame ==
  ASSUME NEW d, Framed(d), NEW e, Framed(e),
         NEW k \in Nat, k =< SizeOf(d), k =< SizeOf(e), SameAtFront(d, e, k)
  PROVE  FirstOf(Contents(e), k) = FirstOf(Contents(d), k)
<1> DEFINE s == Contents(d)
           r == Contents(e)
<1>1. /\ s \in Seq(Slot) /\ Len(s) = SizeOf(d)
      /\ \A i \in 1 .. SizeOf(d) : s[i] = d.slots[d.front + i - 1]
      /\ r \in Seq(Slot) /\ Len(r) = SizeOf(e)
      /\ \A i \in 1 .. SizeOf(e) : r[i] = e.slots[e.front + i - 1]
      /\ SizeOf(d) \in Nat /\ SizeOf(e) \in Nat /\ d.front \in Nat /\ e.front \in Nat
  BY FramedContents, FramedFacts DEF Indices
<1> HIDE DEF s, r
<1>2. /\ SubSeq(s, 0 + 1, k) \in Seq(Slot) /\ Len(SubSeq(s, 0 + 1, k)) = k - 0
      /\ \A i \in 1 .. k - 0 : SubSeq(s, 0 + 1, k)[i] = s[0 + i]
  <2>1. 0 \in 0 .. Len(s) /\ k \in 0 .. Len(s)
    BY <1>1
  <2> QED
    BY <1>1, <2>1, Run
<1>3. /\ SubSeq(r, 0 + 1, k) \in Seq(Slot) /\ Len(SubSeq(r, 0 + 1, k)) = k - 0
      /\ \A i \in 1 .. k - 0 : SubSeq(r, 0 + 1, k)[i] = r[0 + i]
  <2>1. 0 \in 0 .. Len(r) /\ k \in 0 .. Len(r)
    BY <1>1
  <2> QED
    BY <1>1, <2>1, Run
<1>4. ASSUME NEW i \in 1 .. k PROVE s[0 + i] = r[0 + i]
  <2>1. i - 1 \in 0 .. k - 1 /\ 0 + i = i /\ i \in 1 .. SizeOf(d) /\ i \in 1 .. SizeOf(e)
        /\ d.front + i - 1 = d.front + (i - 1) /\ e.front + i - 1 = e.front + (i - 1)
    BY <1>1
  <2>2. e.slots[e.front + (i - 1)] = d.slots[d.front + (i - 1)]
    BY <2>1 DEF SameAtFront
  <2> QED
    BY <1>1, <2>1, <2>2
<1>5. SubSeq(r, 0 + 1, k) = SubSeq(s, 0 + 1, k)
  BY <1>2, <1>3, <1>4, SeqEqual
<1> QED
  BY <1>5 DEF FirstOf, s, r

\* resize_front that need not reallocate
LEMMA FrontResizedInPlace ==
  ASSUME NEW d, Good(d), NEW n \in 0 .. d.back, NEW x \in Object
  PROVE  LET e == ResizeFront(d, n, x)
         IN  Good(e) /\ SizeOf(e) = n /\ e.cap = d.cap /\ e.back = d.back
<1> DEFINE e  == ResizeFront(d, n, x)
           xs == Copies(n - SizeOf(d), x)
<1>1. /\ Indices(d) /\ d \in DevectorType /\ SizeOf(d) = d.back - d.front
      /\ SizeOf(d) \in Nat /\ n \in Nat
      /\ FrontCapacity(d) = d.back
  BY GoodIndices DEF Good, Indices, SizeOf, FrontCapacity
<1>2. Good(e)
  <2>1. n =< FrontCapacity(d)
    BY <1>1
  <2> QED
    BY <1>1, <2>1, ResizeFrontGood DEF ResizeFrontOk
<1>3. e.cap = d.cap /\ e.back = d.back /\ e.front = d.back - n
  <2>1. CASE n =< SizeOf(d)
    <3>1. d.front + (SizeOf(d) - n) = d.back - n
      BY <1>1 DEF Indices
    <3> QED
      BY <1>1, <2>1, <3>1 DEF ResizeFront, PopFront, DevectorType
  <2>2. CASE ~(n =< SizeOf(d))
    <3>1. Len(xs) = n - SizeOf(d)
      <4>1. n - SizeOf(d) \in Nat
        BY <1>1, <2>2
      <4> QED
        BY <4>1, SomeCopies
    <3> HIDE DEF xs
    <3>2. d.front - Len(xs) = d.back - n
      <4>1. d.front \in Nat /\ d.back \in Nat /\ Len(xs) = n - (d.back - d.front)
        BY <1>1, <3>1 DEF Indices
      <4> QED
        BY <1>1, <4>1
    <3>3. e = PutFront(d, xs)
      BY <1>1, <2>2 DEF ResizeFront, xs
    <3> QED
      BY <1>1, <3>2, <3>3 DEF PutFront, DevectorType
  <2> QED
    BY <2>1, <2>2
<1> HIDE DEF e
<1>4. SizeOf(e) = n
  BY <1>1, <1>3 DEF SizeOf, Indices
<1> QED
  BY <1>2, <1>3, <1>4 DEF e

\* resize_back, whether it reallocates or not
LEMMA BackResized ==
  ASSUME NEW d, Good(d), NEW n \in Nat, NEW x \in Object,
         n =< d.cap - d.front \/ n + d.front =< SizeMax, ResizeBackOk(d, n)
  PROVE  LET e == ResizeBack(d, n, x)
         IN  /\ Good(e) /\ SizeOf(e) = n
             /\ n =< d.cap - d.front => e.cap = d.cap
<1> DEFINE e  == ResizeBack(d, n, x)
           xs == Copies(n - SizeOf(d), x)
<1>1. /\ Indices(d) /\ d \in DevectorType /\ SizeOf(d) = d.back - d.front
      /\ SizeOf(d) \in Nat /\ FrontFree(d) = d.front /\ BackCapacity(d) = d.cap - d.front
  BY GoodIndices DEF Good, Indices, SizeOf, FrontFree, BackCapacity
<1>2. Good(e)
  BY <1>1, ResizeBackGood
<1>3. /\ e.front = d.front /\ e.back = d.front + n
      /\ n =< d.cap - d.front => e.cap = d.cap
  <2>1. CASE n =< SizeOf(d)
    <3>1. d.back - (SizeOf(d) - n) = d.front + n
      BY <1>1 DEF Indices
    <3> QED
      BY <1>1, <2>1, <3>1 DEF ResizeBack, PopBack, DevectorType
  <2>2. CASE ~(n =< SizeOf(d))
    <3>1. Len(xs) = n - SizeOf(d)
      <4>1. n - SizeOf(d) \in Nat
        BY <1>1, <2>2
      <4> QED
        BY <4>1, SomeCopies
    <3> HIDE DEF xs
    <3>2. d.back + Len(xs) = d.front + n
      <4>1. d.front \in Nat /\ d.back \in Nat /\ Len(xs) = n - (d.back - d.front)
        BY <1>1, <3>1 DEF Indices
      <4> QED
        BY <4>1
    <3>3. CASE n =< BackCapacity(d)
      <4>1. e = PutBack(d, xs)
        BY <2>2, <3>3 DEF ResizeBack, xs
      <4> QED
        BY <1>1, <3>2, <4>1 DEF PutBack, DevectorType
    <3>4. CASE ~(n =< BackCapacity(d))
      <4>1. e = ResizeBackSlowPath(d, n, xs)
        BY <2>2, <3>4 DEF ResizeBack, xs
      <4> QED
        BY <1>1, <3>2, <3>4, <4>1 DEF ResizeBackSlowPath
    <3> QED
      BY <3>3, <3>4
  <2> QED
    BY <2>1, <2>2
<1> HIDE DEF e
<1>4. SizeOf(e) = n
  BY <1>1, <1>3 DEF SizeOf, Indices
<1> QED
  BY <1>2, <1>3, <1>4 DEF e

\* How much of the front load uses
LEMMA FrontUsed ==
  ASSUME NEW d, Framed(d), NEW n \in Nat
  PROVE  /\ ToFront(d, n) \in 0 .. d.back /\ ToFront(d, n) =< n
         /\ ToFront(d, n) = d.back \/ ToFront(d, n) = n
<1>1. Indices(d) /\ SizeOf(d) = d.back - d.front /\ FrontFree(d) = d.front
  BY FramedFacts
<1>2. FrontFree(d) + SizeOf(d) = d.back /\ d.back \in Nat
  BY <1>1 DEF Indices
<1> QED
  BY <1>2 DEF ToFront, Smaller

\* What load reads over has room for what is saved, in the memory at hand if it fits.
LEMMA RoomToRead ==
  ASSUME NEW d, Loose(d), Initialized(d), NEW n \in 0 .. MaxSize,
         Default \in Object, ~ShiftMayThrow, NEW e \in Resized(d, n)
  PROVE  /\ Loose(e) /\ SizeOf(e) = n
         /\ n =< d.cap => e.cap = d.cap
         /\ ~Trivial => Initialized(e)
<1>1. Good(d) /\ Framed(d)
  BY LooseIsGood DEF Loose
<1>2. /\ Indices(d) /\ FrontCapacity(d) = d.back /\ n \in Nat /\ n =< SizeMax
      /\ ToFront(d, n) \in 0 .. d.back /\ ToFront(d, n) =< n
      /\ ToFront(d, n) = d.back \/ ToFront(d, n) = n
  BY <1>1, FramedFacts, FrontUsed, SizesAssumption
<1> DEFINE used    == ToFront(d, n)
           cleared == Clear(d)
<1>3. /\ Good(cleared) /\ Framed(cleared)
      /\ cleared.front = 0 /\ cleared.back = 0 /\ cleared.cap = d.cap
  BY <1>1, ClearGood DEF Clear, Good, Framed, DevectorType
<1> HIDE DEF used, cleared
<1>4. CASE Trivial
  <2> DEFINE resized == UnsafeResizeFront(d, used)
  <2>1. PICK g \in ResizedTrivially(d, n) : e = Forget(g)
    BY <1>4 DEF Resized
  <2>2. Framed(g) /\ SizeOf(g) = n /\ (n =< d.cap => g.cap = d.cap)
    <3>1. CASE n =< d.cap
      <4>1. Framed(resized) /\ SizeOf(resized) = used /\ resized.cap = d.cap /\ resized.back = d.back
        <5>1. UnsafeResizeFrontOk(d, used) /\ used \in Nat /\ used =< d.back
          BY <1>2 DEF UnsafeResizeFrontOk, used
        <5> QED
          BY <1>1, <5>1, UnsafeFrontResized
      <4> HIDE DEF resized
      <4>2. resized.front \in Nat /\ resized.front = d.back - used
        BY <1>2, <4>1, FramedFacts DEF Indices, used
      <4>3. SizeToReach(d, resized, n) = n
        BY <1>2, <4>1 DEF SizeToReach, used
      <4>4. n =< resized.cap - resized.front
        BY <1>2, <3>1, <4>1, <4>2 DEF used, Indices
      <4>5. UnsafeResizeBackOk(resized, n)
        BY <4>4 DEF UnsafeResizeBackOk, BackCapacity
      <4>6. g = UnsafeResizeBack(resized, n)
        BY <2>1, <3>1, <4>3 DEF ResizedTrivially, resized, used
      <4> QED
        BY <1>2, <4>1, <4>4, <4>5, <4>6, UnsafeBackResized
    <3>2. CASE ~(n =< d.cap)
      <4>1. g = UnsafeResizeBack(cleared, n) /\ UnsafeResizeBackOk(cleared, n)
        BY <2>1, <3>2 DEF ResizedTrivially, cleared
      <4> QED
        BY <1>2, <1>3, <3>2, <4>1, UnsafeBackResized
    <3> QED
      BY <3>1, <3>2
  <2>3. Loose(e) /\ e.cap = g.cap /\ e.front = g.front /\ e.back = g.back
    BY <2>1, <2>2, ForgetLoose
  <2> QED
    BY <1>4, <2>2, <2>3 DEF SizeOf
<1>5. CASE ~Trivial
  <2> DEFINE resized == ResizeFront(d, used, Default)
  <2>1. e \in ResizedByElement(d, n)
    BY <1>5 DEF Resized
  <2>2. Good(e) /\ SizeOf(e) = n /\ (n =< d.cap => e.cap = d.cap)
    <3>1. CASE n =< d.cap
      <4>1. Good(resized) /\ SizeOf(resized) = used /\ resized.cap = d.cap /\ resized.back = d.back
        BY <1>1, <1>2, FrontResizedInPlace DEF used
      <4> HIDE DEF resized
      <4>2. resized.front \in Nat /\ resized.front = d.back - used
        BY <1>2, <4>1, GoodIndices DEF Indices, SizeOf, used
      <4>3. SizeToReach(d, resized, n) = n
        BY <1>2, <4>1 DEF SizeToReach, used
      <4>4. n =< resized.cap - resized.front
        BY <1>2, <3>1, <4>1, <4>2 DEF used, Indices
      <4>5. e = ResizeBack(resized, n, Default) /\ ResizeBackOk(resized, n)
        BY <2>1, <3>1, <4>3 DEF ResizedByElement, resized, used
      <4> QED
        BY <1>2, <4>1, <4>4, <4>5, BackResized
    <3>2. CASE ~(n =< d.cap)
      <4>1. e = ResizeBack(cleared, n, Default) /\ ResizeBackOk(cleared, n)
        BY <2>1, <3>2 DEF ResizedByElement, cleared
      <4>2. n + cleared.front =< SizeMax
        BY <1>2, <1>3
      <4> QED
        BY <1>2, <1>3, <3>2, <4>1, <4>2, BackResized
    <3> QED
      BY <3>1, <3>2
  <2> QED
    BY <2>2, GoodIsLoose
<1> QED
  BY <1>4, <1>5

\* A load that did not get that far leaves objects.
LEMMA NoRoomToRead ==
  ASSUME NEW d, Loose(d), Initialized(d), NEW n \in 0 .. MaxSize,
         Default \in Object, ~ShiftMayThrow, NEW e \in ResizeThrew(d, n)
  PROVE  Loose(e) /\ Initialized(e) /\ (n =< d.cap => e.cap = d.cap)
<1>1. Good(d) /\ Framed(d)
  BY LooseIsGood DEF Loose
<1>2. Good(e) /\ (n =< d.cap => e.cap = d.cap)
  <2>1. CASE n > d.cap
    <3>1. Indices(d) /\ n \in Nat
      BY <1>1, GoodIndices
    <3>2. ~(n =< d.cap)
      BY <2>1, <3>1 DEF Indices
    <3>3. e = Clear(d)
      BY <2>1 DEF ResizeThrew
    <3> QED
      BY <1>1, <3>2, <3>3, ClearGood
  <2>2. CASE ~(n > d.cap)
    <3>1. e = d \/ e = ResizeFront(d, ToFront(d, n), Default)
      BY <2>2 DEF ResizeThrew
    <3>2. ToFront(d, n) \in 0 .. d.back
      BY <1>1, FrontUsed
    <3> QED
      BY <1>1, <3>1, <3>2, FrontResizedInPlace
  <2> QED
    BY <2>1, <2>2
<1> QED
  BY <1>2, GoodIsLoose

\* The memory fits the members, the archive fits a devector, and after a load the elements
\* are objects.
SerialInv ==
  /\ Loose(vec)
  /\ archive \in Seq(Object) /\ Len(archive) =< MaxSize
  /\ latest.op = "load" => Initialized(vec)

\* Reading the first k elements; with all of them, those saved are there.
LEMMA ReadElements ==
  ASSUME archive \in Seq(Object), NEW d, Loose(d), SizeOf(d) = Len(archive),
         NEW k \in 0 .. Len(archive)
  PROVE  /\ Loose(Read(d, k)) /\ Read(d, k).cap = d.cap
         /\ SizeOf(Read(d, k)) = SizeOf(d)
         /\ Initialized(d) \/ k = Len(archive) => Initialized(Read(d, k))
         /\ k = Len(archive) =>
              \A i \in 0 .. Len(archive) - 1 :
                Read(d, k).slots[Read(d, k).front + i] = archive[i + 1]
<1> DEFINE xs == FirstOf(archive, k)
           m  == Put(d.slots, d.front, xs)
<1>1. /\ Framed(d) /\ Indices(d) /\ d.slots \in Memory /\ d \in DevectorType
      /\ SizeOf(d) = d.back - d.front /\ Len(archive) \in Nat
  BY FramedFacts DEF Loose, Framed
<1>2. xs \in Seq(Object) /\ Len(xs) = k /\ \A i \in 1 .. k : xs[i] = archive[i]
  <2>1. /\ SubSeq(archive, 0 + 1, k) \in Seq(Object)
        /\ Len(SubSeq(archive, 0 + 1, k)) = k - 0
        /\ \A i \in 1 .. k - 0 : SubSeq(archive, 0 + 1, k)[i] = archive[0 + i]
    BY Run
  <2> QED
    BY <2>1 DEF FirstOf
<1> HIDE DEF xs
<1>3. /\ m \in Memory
      /\ \A a \in Address :
           m[a] # Raw <=> (d.front =< a /\ a < d.front + k) \/ d.slots[a] # Raw
  <2>1. d.front \in Int
    BY <1>1 DEF Indices
  <2> QED
    BY <1>1, <1>2, <2>1, PutObjects
<1>4. Read(d, k) = [d EXCEPT !.slots = m]
  BY <1>1 DEF Read, xs, DevectorType
<1> DEFINE e == Read(d, k)
<1> HIDE DEF m
<1>5. /\ Framed(e) /\ e.cap = d.cap /\ e.front = d.front /\ e.back = d.back /\ e.slots = m
  BY <1>1, <1>3, <1>4, SlotsFramed
<1> HIDE DEF e
<1>6. d.front + Len(archive) = d.back /\ d.front + k =< d.back
  <2>1. d.front + Len(archive) = d.back
    BY <1>1 DEF Indices
  <2> QED
    BY <1>1, <2>1 DEF Indices
<1>7. Loose(e)
  <2>1. ASSUME NEW a \in Address, m[a] # Raw PROVE d.front =< a /\ a < d.back
    <3>1. CASE d.slots[a] # Raw
      BY <3>1 DEF Loose
    <3>2. CASE d.front =< a /\ a < d.front + k
      BY <1>1, <1>6, <3>2, SizesAssumption DEF Address, Indices
    <3> QED
      BY <1>3, <2>1, <3>1, <3>2
  <2> QED
    BY <1>5, <2>1 DEF Loose
<1>8. ASSUME Initialized(d) \/ k = Len(archive)
      PROVE  Initialized(e)
  <2>1. ASSUME NEW a \in d.front .. d.back - 1 PROVE m[a] # Raw
    <3>1. a \in Address /\ d.front =< a /\ a < d.back
      <4>1. d.front \in Nat /\ d.back \in Nat /\ d.back =< MaxSize /\ MaxSize \in Nat
        BY <1>1 DEF Indices
      <4> QED
        BY <4>1 DEF Address
    <3>2. CASE Initialized(d)
      BY <1>3, <3>1, <3>2 DEF Initialized
    <3>3. CASE k = Len(archive)
      BY <1>3, <1>6, <3>1, <3>3
    <3> QED
      BY <1>8, <3>2, <3>3
  <2> QED
    BY <1>5, <2>1 DEF Initialized
<1>9. ASSUME k = Len(archive), NEW i \in 0 .. Len(archive) - 1
      PROVE  e.slots[e.front + i] = archive[i + 1]
  <2>0. i \in Nat /\ i < Len(archive) /\ Len(archive) \in Nat
    BY <1>1
  <2>1. d.front + i \in Address /\ d.front \in Int
    <3>1. /\ d.front \in Nat /\ d.back \in Nat /\ d.back =< MaxSize /\ MaxSize \in Nat
          /\ d.front + Len(archive) = d.back
      <4>1. d.front \in Nat /\ d.back \in Nat /\ d.back =< MaxSize /\ MaxSize \in Nat
        BY <1>1 DEF Indices
      <4> QED
        BY <1>6, <4>1
    <3> QED
      BY <2>0, <3>1 DEF Address
  <2>2. i \in 0 .. Len(xs) - 1 /\ i + 1 \in 1 .. k
    <3>1. k = Len(archive) /\ Len(xs) = k
      BY <1>2, <1>9
    <3> QED
      BY <2>0, <3>1
  <2>3. m[d.front + i] = xs[i + 1]
    <3>1. \A j \in 0 .. Len(xs) - 1 :
            d.front + j \in Address => Put(d.slots, d.front, xs)[d.front + j] = xs[j + 1]
      <4>1. xs \in Seq(Object) /\ d.front \in Int
        BY <1>2, <2>1
      <4> QED
        BY <4>1, PutReads
    <3> QED
      BY <2>1, <2>2, <3>1 DEF m
  <2> QED
    BY <1>2, <1>5, <2>2, <2>3
<1>10. SizeOf(e) = SizeOf(d)
  BY <1>5 DEF SizeOf
<1> QED
  BY <1>5, <1>7, <1>8, <1>9, <1>10 DEF e

LEMMA SerialBegins ==
  ASSUME MaxSaved \in 0 .. MaxSize, ~ShiftMayThrow
  PROVE  SerialInit => SerialInv
<1> SUFFICES ASSUME SerialInit PROVE SerialInv
  OBVIOUS
<1>1. PICK m, n \in 0 .. MaxSaved : m + n =< MaxSaved /\ vec = Reserved(m, n)
  BY DEF SerialInit
<1>2. Good(vec)
  BY <1>1, ReservedGood, SizesAssumption
<1>3. archive = << >> /\ latest.op = "construct"
  BY DEF SerialInit
<1>4. archive \in Seq(Object) /\ Len(archive) =< MaxSize
  BY <1>3, SizesAssumption
<1> QED
  BY <1>2, <1>3, <1>4, GoodIsLoose DEF SerialInv

\* The elements that are saved are objects again, and no more than a devector can have.
LEMMA SaveSaves ==
  ASSUME ~ShiftMayThrow
  PROVE  SerialInv /\ Save => SerialInv'
<1> SUFFICES ASSUME SerialInv, Save PROVE SerialInv'
  OBVIOUS
<1>1. Loose(vec) /\ Initialized(vec) /\ archive' = Contents(vec) /\ vec' = vec
  BY DEF SerialInv, Save
<1>2. Good(vec)
  BY <1>1, LooseIsGood
<1>3. Contents(vec) \in Seq(Object) /\ Len(Contents(vec)) = SizeOf(vec)
  BY <1>2, ContentsSeq
<1>4. SizeOf(vec) =< MaxSize
  BY <1>2, GoodIndices DEF Indices, SizeOf
<1> QED
  BY <1>1, <1>3, <1>4 DEF SerialInv, Loose, Framed, Initialized

LEMMA PushPops ==
  ASSUME ~ShiftMayThrow
  PROVE  SerialInv /\ ((\E x \in Values : Push(x)) \/ Pop) => SerialInv'
<1> SUFFICES ASSUME SerialInv, (\E x \in Values : Push(x)) \/ Pop PROVE SerialInv'
  OBVIOUS
<1>1. Good(vec) /\ UNCHANGED archive /\ latest'.op # "load"
  BY LooseIsGood DEF SerialInv, Push, Pop, Recorded
<1>2. Values \subseteq Object
  BY DEF Object
<1>3. Good(vec')
  <2>1. CASE \E x \in Values : Push(x)
    BY <1>1, <1>2, <2>1, EmplaceFrontGood, EmplaceBackGood DEF Push
  <2>2. CASE Pop
    <3>1. 1 \in Nat /\ 1 =< SizeOf(vec)
      BY <1>1, <2>2, GoodIndices DEF Pop, SizeOf, Indices
    <3>2. vec' = PopFront(vec, 1) \/ vec' = PopBack(vec, 1)
      BY <2>2 DEF Pop
    <3> QED
      BY <1>1, <3>1, <3>2, PopFrontGood, PopBackGood
  <2> QED
    BY <2>1, <2>2
<1>4. Loose(vec')
  BY <1>3, GoodIsLoose
<1>5. Loose(vec)'
  BY <1>4 DEF Loose, Framed
<1> QED
  BY <1>1, <1>5 DEF SerialInv

\* The caller grows it, fills it and shrinks it.
LEMMA Grows ==
  ASSUME NEW n \in Nat, n > SizeOf(vec)
  PROVE  SerialInv /\ (GrowFront(n) \/ GrowBack(n)) => SerialInv' /\ ResizeKeeps
<1> SUFFICES ASSUME SerialInv, GrowFront(n) \/ GrowBack(n)
             PROVE  SerialInv' /\ ResizeKeeps
  OBVIOUS
<1>1. Loose(vec) /\ Framed(vec) /\ SizeOf(vec) \in Nat
  BY FramedFacts DEF SerialInv, Loose
<1>2. Smaller(n, SizeOf(vec)) = SizeOf(vec)
  BY <1>1 DEF Smaller
<1>3. UNCHANGED archive /\ latest'.n = n /\ latest'.op \in {"grow front", "grow back"}
  <2>1. CASE GrowFront(n)
    BY <2>1 DEF GrowFront, Recorded
  <2>2. CASE GrowBack(n)
    BY <2>2 DEF GrowBack, Recorded
  <2> QED
    BY <2>1, <2>2
<1>4. Loose(vec') /\ Framed(vec') /\ SizeOf(vec') = n
  BY <1>1, UnsafeFrontResized, UnsafeBackResized DEF GrowFront, GrowBack, Loose
<1>5. SerialInv'
  <2>1. Loose(vec)'
    BY <1>4 DEF Loose, Framed
  <2> QED
    BY <1>3, <2>1 DEF SerialInv
<1> DEFINE old == Contents(vec)
           new == Contents(vec)'
<1>6. Len(new) = n /\ Len(old) = SizeOf(vec) /\ Smaller(Len(old), Len(new)) = SizeOf(vec)
  <2>1. Len(Contents(vec')) = n /\ Len(old) = SizeOf(vec)
    BY <1>1, <1>4, FramedContents
  <2> QED
    BY <1>1, <2>1 DEF Smaller, Contents, SizeOf
<1>7. CASE GrowFront(n)
  <2>1. SameAtBack(vec, vec', SizeOf(vec))
    <3>1. vec' = UnsafeResizeFront(vec, n) /\ UnsafeResizeFrontOk(vec, n)
      BY <1>7 DEF GrowFront
    <3>2. SameAtBack(vec, vec', Smaller(n, SizeOf(vec)))
      BY <1>1, <3>1, UnsafeFrontResized
    <3> QED
      BY <1>2, <3>2
  <2>2. LastOf(Contents(vec'), SizeOf(vec)) = LastOf(Contents(vec), SizeOf(vec))
    BY <1>1, <1>4, <2>1, LastSame
  <2>3. latest'.op = "grow front"
    BY <1>7 DEF GrowFront, Recorded
  <2> QED
    BY <1>3, <1>5, <1>6, <2>2, <2>3 DEF ResizeKeeps
<1>8. CASE GrowBack(n)
  <2>1. SameAtFront(vec, vec', SizeOf(vec))
    <3>1. vec' = UnsafeResizeBack(vec, n) /\ UnsafeResizeBackOk(vec, n)
      BY <1>8 DEF GrowBack
    <3>2. SameAtFront(vec, vec', Smaller(n, SizeOf(vec)))
      BY <1>1, <3>1, UnsafeBackResized
    <3> QED
      BY <1>2, <3>2
  <2>2. FirstOf(Contents(vec'), SizeOf(vec)) = FirstOf(Contents(vec), SizeOf(vec))
    BY <1>1, <1>4, <2>1, FirstSame
  <2>3. latest'.op = "grow back"
    BY <1>8 DEF GrowBack, Recorded
  <2> QED
    BY <1>3, <1>5, <1>6, <2>2, <2>3 DEF ResizeKeeps
<1> QED
  BY <1>7, <1>8

LEMMA Fills ==
  ASSUME NEW x \in Values
  PROVE  SerialInv /\ Fill(x) => SerialInv'
<1> SUFFICES ASSUME SerialInv, Fill(x) PROVE SerialInv'
  OBVIOUS
<1> DEFINE m == [a \in Address |->
                   IF vec.front =< a /\ a < vec.back /\ vec.slots[a] = Raw THEN x
                   ELSE vec.slots[a]]
<1>1. Loose(vec) /\ Framed(vec) /\ vec \in DevectorType
  BY DEF SerialInv, Loose, Framed
<1>2. m \in Memory /\ \A a \in Address : m[a] # Raw => vec.front =< a /\ a < vec.back
  BY <1>1 DEF Loose, DevectorType, Memory, Slot, Object
<1>3. vec' = [vec EXCEPT !.slots = m] /\ UNCHANGED archive /\ latest'.op = "fill"
  BY <1>1 DEF Fill, Recorded, DevectorType
<1> HIDE DEF m
<1>4. Framed(vec') /\ vec'.front = vec.front /\ vec'.back = vec.back /\ vec'.slots = m
  BY <1>1, <1>2, <1>3, SlotsFramed
<1>5. Loose(vec)'
  <2>1. Loose(vec')
    BY <1>2, <1>4 DEF Loose
  <2> QED
    BY <2>1 DEF Loose, Framed
<1> QED
  BY <1>3, <1>5 DEF SerialInv

LEMMA Shrinks ==
  ASSUME NEW n \in 0 .. SizeOf(vec)
  PROVE  SerialInv /\ (ShrinkFront(n) \/ ShrinkBack(n)) => SerialInv' /\ ResizeKeeps
<1> SUFFICES ASSUME SerialInv, ShrinkFront(n) \/ ShrinkBack(n)
             PROVE  SerialInv' /\ ResizeKeeps
  OBVIOUS
<1>1. /\ Loose(vec) /\ Framed(vec) /\ vec \in DevectorType /\ Indices(vec)
      /\ vec.slots \in Memory
      /\ SizeOf(vec) \in Nat /\ SizeOf(vec) = vec.back - vec.front
      /\ n \in Nat /\ n =< SizeOf(vec)
  <2>1. Loose(vec) /\ Framed(vec) /\ vec \in DevectorType
    BY DEF SerialInv, Loose, Framed
  <2>2. Indices(vec) /\ vec.slots \in Memory
        /\ SizeOf(vec) \in Nat /\ SizeOf(vec) = vec.back - vec.front
    BY <2>1, FramedFacts
  <2> QED
    BY <2>1, <2>2
<1>2. Smaller(n, SizeOf(vec)) = n
  BY <1>1 DEF Smaller
<1>3. \A a \in Address : a \in Int
  BY SizesAssumption DEF Address
<1>4. CASE ShrinkFront(n)
  <2> DEFINE keep == vec.back - n
             m    == Destroy(vec.slots, vec.front, keep)
             d    == [vec EXCEPT !.slots = m]
  <2>1. /\ keep \in Nat /\ vec.front =< keep /\ keep =< vec.back
        /\ vec.front \in Nat /\ vec.back \in Nat
    BY <1>1 DEF Indices
  <2>2. /\ m \in Memory
        /\ \A a \in Address : m[a] # Raw <=> ~(vec.front =< a /\ a < keep) /\ vec.slots[a] # Raw
        /\ \A a \in Address : keep =< a => m[a] = vec.slots[a]
    <3>1. keep \in Int /\ vec.front \in Int
      BY <2>1
    <3>2. /\ m \in Memory
          /\ \A a \in Address : m[a] # Raw <=> ~(vec.front =< a /\ a < keep) /\ vec.slots[a] # Raw
      BY <1>1, <3>1, DestroyObjects
    <3>3. \A a \in Address : keep =< a => m[a] = vec.slots[a]
      BY <1>3, <3>1 DEF Destroy
    <3> QED
      BY <3>2, <3>3
  <2>3. /\ vec' = UnsafeResizeFront(d, n)
        /\ UNCHANGED archive /\ latest' = [op |-> "shrink front", n |-> n, out |-> "ok"]
    <3>1. d = [vec EXCEPT !.slots = Destroy(@, vec.front, keep)]
      BY <1>1 DEF DevectorType
    <3> QED
      BY <1>4, <3>1 DEF ShrinkFront, Recorded
  <2> HIDE DEF keep, m
  <2>4. /\ Framed(d) /\ d.cap = vec.cap /\ d.front = vec.front /\ d.back = vec.back
        /\ d.slots = m
    BY <1>1, <2>2, SlotsFramed
  <2> HIDE DEF d
  <2>5. SizeOf(d) = SizeOf(vec) /\ UnsafeResizeFrontOk(d, n) /\ n =< d.back
    <3>1. SizeOf(d) = SizeOf(vec) /\ n =< d.back
      BY <1>1, <2>4 DEF SizeOf, Indices
    <3> QED
      BY <3>1 DEF UnsafeResizeFrontOk, FrontCapacity
  <2>6. /\ Framed(vec') /\ SizeOf(vec') = n /\ vec'.slots = m /\ vec'.back = vec.back
        /\ SameAtBack(d, vec', Smaller(n, SizeOf(d)))
    <3> DEFINE e == UnsafeResizeFront(d, n)
    <3>1. n \in Nat
      BY <1>1
    <3>2. /\ Framed(e) /\ SizeOf(e) = n
          /\ n =< d.back => e.slots = d.slots /\ e.cap = d.cap /\ e.back = d.back
          /\ SameAtBack(d, e, Smaller(n, SizeOf(d)))
      BY <2>4, <2>5, <3>1, UnsafeFrontResized
    <3> HIDE DEF e
    <3>3. vec' = e
      BY <2>3 DEF e
    <3> QED
      BY <2>4, <2>5, <3>2, <3>3
  <2>7. vec'.front = keep
    <3>1. vec'.front \in Nat /\ vec'.back - vec'.front = n
      BY <2>6, FramedFacts DEF Indices
    <3> QED
      BY <1>1, <2>1, <2>6, <3>1 DEF keep
  <2>8. Loose(vec')
    <3>1. ASSUME NEW a \in Address, m[a] # Raw PROVE keep =< a /\ a < vec.back
      <4>1. vec.front =< a /\ a < vec.back /\ ~(vec.front =< a /\ a < keep)
        BY <1>1, <2>2, <3>1 DEF Loose
      <4> QED
        BY <1>3, <2>1, <4>1
    <3> QED
      BY <2>6, <2>7, <3>1 DEF Loose
  <2>9. SameAtBack(vec, vec', n)
    <3>1. SameAtBack(d, vec', n)
      BY <1>2, <2>5, <2>6
    <3>2. ASSUME NEW i \in 1 .. n PROVE m[vec.back - i] = vec.slots[vec.back - i]
      <4>1. vec.back - i \in Address /\ keep =< vec.back - i
        <5>1. /\ vec.back \in Nat /\ n \in Nat /\ vec.back =< MaxSize /\ MaxSize \in Nat
              /\ keep \in Nat /\ keep = vec.back - n
          BY <1>1, <2>1 DEF keep, Indices
        <5> QED
          BY <5>1 DEF Address
      <4> QED
        BY <2>2, <4>1
    <3> QED
      BY <2>4, <3>1, <3>2 DEF SameAtBack
  <2>10. LastOf(Contents(vec'), n) = LastOf(Contents(vec), n)
    BY <1>1, <2>6, <2>9, LastSame
  <2>11. Len(Contents(vec')) = n /\ Len(Contents(vec)) = SizeOf(vec)
    BY <1>1, <2>6, FramedContents
  <2>12. Smaller(Len(Contents(vec)), Len(Contents(vec'))) = n
    BY <1>1, <2>11 DEF Smaller
  <2>13. ResizeKeeps
    BY <2>3, <2>10, <2>11, <2>12 DEF ResizeKeeps
  <2>14. Loose(vec)'
    BY <2>8 DEF Loose, Framed
  <2> QED
    BY <2>3, <2>13, <2>14 DEF SerialInv
<1>5. CASE ShrinkBack(n)
  <2> DEFINE keep == vec.front + n
             m    == Destroy(vec.slots, keep, vec.back)
             d    == [vec EXCEPT !.slots = m]
  <2>1. /\ keep \in Nat /\ vec.front =< keep /\ keep =< vec.back
        /\ vec.front \in Nat /\ vec.back \in Nat
    BY <1>1 DEF Indices
  <2>2. /\ m \in Memory
        /\ \A a \in Address : m[a] # Raw <=> ~(keep =< a /\ a < vec.back) /\ vec.slots[a] # Raw
        /\ \A a \in Address : a < keep => m[a] = vec.slots[a]
    <3>1. keep \in Int /\ vec.back \in Int
      BY <2>1
    <3>2. /\ m \in Memory
          /\ \A a \in Address : m[a] # Raw <=> ~(keep =< a /\ a < vec.back) /\ vec.slots[a] # Raw
      BY <1>1, <3>1, DestroyObjects
    <3>3. \A a \in Address : a < keep => m[a] = vec.slots[a]
      BY <1>3, <3>1 DEF Destroy
    <3> QED
      BY <3>2, <3>3
  <2>3. /\ vec' = UnsafeResizeBack(d, n)
        /\ UNCHANGED archive /\ latest' = [op |-> "shrink back", n |-> n, out |-> "ok"]
    <3>1. d = [vec EXCEPT !.slots = Destroy(@, keep, vec.back)]
      BY <1>1 DEF DevectorType
    <3> QED
      BY <1>5, <3>1 DEF ShrinkBack, Recorded
  <2> HIDE DEF keep, m
  <2>4. /\ Framed(d) /\ d.cap = vec.cap /\ d.front = vec.front /\ d.back = vec.back
        /\ d.slots = m
    BY <1>1, <2>2, SlotsFramed
  <2> HIDE DEF d
  <2>5. SizeOf(d) = SizeOf(vec) /\ UnsafeResizeBackOk(d, n) /\ n =< d.cap - d.front
    <3>1. SizeOf(d) = SizeOf(vec) /\ n =< d.cap - d.front
      BY <1>1, <2>4 DEF SizeOf, Indices
    <3> QED
      BY <3>1 DEF UnsafeResizeBackOk, BackCapacity
  <2>6. /\ Framed(vec') /\ SizeOf(vec') = n /\ vec'.slots = m /\ vec'.front = vec.front
        /\ SameAtFront(d, vec', Smaller(n, SizeOf(d)))
    <3> DEFINE e == UnsafeResizeBack(d, n)
    <3>1. n \in Nat
      BY <1>1
    <3>2. /\ Framed(e) /\ SizeOf(e) = n
          /\ n =< d.cap - d.front => e.slots = d.slots /\ e.cap = d.cap /\ e.front = d.front
          /\ SameAtFront(d, e, Smaller(n, SizeOf(d)))
      BY <2>4, <2>5, <3>1, UnsafeBackResized
    <3> HIDE DEF e
    <3>3. vec' = e
      BY <2>3 DEF e
    <3> QED
      BY <2>4, <2>5, <3>2, <3>3
  <2>7. vec'.back = keep
    <3>1. vec'.back \in Nat /\ vec'.back - vec'.front = n
      BY <2>6, FramedFacts DEF Indices
    <3> QED
      BY <1>1, <2>1, <2>6, <3>1 DEF keep
  <2>8. Loose(vec')
    <3>1. ASSUME NEW a \in Address, m[a] # Raw PROVE vec.front =< a /\ a < keep
      <4>1. vec.front =< a /\ a < vec.back /\ ~(keep =< a /\ a < vec.back)
        BY <1>1, <2>2, <3>1 DEF Loose
      <4> QED
        BY <1>3, <2>1, <4>1
    <3> QED
      BY <2>6, <2>7, <3>1 DEF Loose
  <2>9. SameAtFront(vec, vec', n)
    <3>1. SameAtFront(d, vec', n)
      BY <1>2, <2>5, <2>6
    <3>2. ASSUME NEW i \in 0 .. n - 1 PROVE m[vec.front + i] = vec.slots[vec.front + i]
      <4>1. vec.front + i \in Address /\ vec.front + i < keep
        <5>1. /\ vec.front \in Nat /\ n \in Nat /\ vec.back =< MaxSize /\ MaxSize \in Nat
              /\ vec.back \in Nat /\ keep =< vec.back /\ keep = vec.front + n
          BY <1>1, <2>1 DEF keep, Indices
        <5> QED
          BY <5>1 DEF Address
      <4> QED
        BY <2>2, <4>1
    <3> QED
      BY <2>4, <3>1, <3>2 DEF SameAtFront
  <2>10. FirstOf(Contents(vec'), n) = FirstOf(Contents(vec), n)
    BY <1>1, <2>6, <2>9, FirstSame
  <2>11. Len(Contents(vec')) = n /\ Len(Contents(vec)) = SizeOf(vec)
    BY <1>1, <2>6, FramedContents
  <2>12. Smaller(Len(Contents(vec)), Len(Contents(vec'))) = n
    BY <1>1, <2>11 DEF Smaller
  <2>13. ResizeKeeps
    BY <2>3, <2>10, <2>11, <2>12 DEF ResizeKeeps
  <2>14. Loose(vec)'
    BY <2>8 DEF Loose, Framed
  <2> QED
    BY <2>3, <2>13, <2>14 DEF SerialInv
<1> QED
  BY <1>4, <1>5

\* Reading that throws leaves what was read, or nothing if elements need no destruction.
LEMMA ReadingThrew ==
  ASSUME archive \in Seq(Object), NEW d, Loose(d), SizeOf(d) = Len(archive),
         ~Trivial => Initialized(d), NEW k \in 0 .. Len(archive)
  PROVE  /\ Loose(AfterReadThrew(d, k)) /\ Initialized(AfterReadThrew(d, k))
         /\ AfterReadThrew(d, k).cap = d.cap
<1> DEFINE r == Read(d, k)
<1>1. Loose(r) /\ r.cap = d.cap /\ (Initialized(d) => Initialized(r))
  BY ReadElements
<1>2. CASE ~Trivial
  BY <1>1, <1>2 DEF AfterReadThrew
<1>3. CASE Trivial
  <2> HIDE DEF r
  <2> DEFINE none == UnsafeResizeBack(r, 0)
  <2>1. Framed(r) /\ 0 =< r.cap - r.front
    <3>1. Framed(r)
      BY <1>1 DEF Loose
    <3>2. Indices(r)
      BY <3>1, FramedFacts
    <3> QED
      BY <3>1, <3>2 DEF Indices
  <2>2. Framed(none) /\ SizeOf(none) = 0 /\ none.cap = r.cap
    <3>1. UnsafeResizeBackOk(r, 0)
      BY <2>1 DEF UnsafeResizeBackOk, BackCapacity
    <3> QED
      BY <2>1, <3>1, UnsafeBackResized
  <2> HIDE DEF none
  <2>3. /\ Loose(Forget(none)) /\ Forget(none).cap = none.cap
        /\ Forget(none).front = none.front /\ Forget(none).back = none.back
    BY <2>2, ForgetLoose
  <2>4. none.front .. none.back - 1 = {}
    <3>1. none.front \in Nat /\ none.back \in Nat /\ none.back - none.front = 0
      BY <2>2, FramedFacts DEF Indices
    <3> QED
      BY <3>1
  <2>5. Initialized(Forget(none))
    BY <2>3, <2>4 DEF Initialized
  <2> QED
    BY <1>1, <1>3, <2>2, <2>3, <2>5 DEF AfterReadThrew, none, r
<1> QED
  BY <1>2, <1>3

LEMMA Loads ==
  ASSUME ~ShiftMayThrow, Default \in Object
  PROVE  SerialInv /\ (Load \/ LoadThrows) => SerialInv' /\ Restores /\ ReusesMemory
<1> SUFFICES ASSUME SerialInv, Load \/ LoadThrows
             PROVE  SerialInv' /\ Restores /\ ReusesMemory
  OBVIOUS
<1> DEFINE n == Len(archive)
<1>1. /\ Loose(vec) /\ Initialized(vec) /\ archive \in Seq(Object) /\ archive' = archive
      /\ n \in 0 .. MaxSize
  <2>1. Loose(vec) /\ archive \in Seq(Object) /\ n =< MaxSize /\ MaxSize \in Nat
    BY SizesAssumption DEF SerialInv
  <2>2. n \in Nat
    BY <2>1
  <2>3. Initialized(vec) /\ archive' = archive
    BY DEF Load, LoadThrows
  <2> QED
    BY <2>1, <2>2, <2>3
<1>2. ASSUME NEW d \in Resized(vec, n)
      PROVE  /\ Loose(d) /\ SizeOf(d) = n /\ (n =< vec.cap => d.cap = vec.cap)
             /\ ~Trivial => Initialized(d)
  BY <1>1, RoomToRead
<1>3. CASE Load
  <2>1. PICK d \in Resized(vec, n) : vec' = Read(d, n)
    BY <1>3 DEF Load
  <2>2. /\ Loose(vec') /\ Initialized(vec') /\ vec'.cap = d.cap /\ SizeOf(vec') = n
        /\ \A i \in 0 .. n - 1 : vec'.slots[vec'.front + i] = archive[i + 1]
    <3>1. n \in 0 .. n
      BY <1>1
    <3> QED
      BY <1>1, <1>2, <2>1, <3>1, ReadElements
  <2>3. Contents(vec') = archive
    BY <1>1, <2>2, LooseIsGood, ContentsAre
  <2>4. SerialInv'
    <3>1. Loose(vec)' /\ Initialized(vec)'
      BY <2>2 DEF Loose, Framed, Initialized
    <3> QED
      BY <1>1, <3>1 DEF SerialInv
  <2>5. ReusesMemory
    BY <1>2, <2>2 DEF ReusesMemory
  <2> QED
    BY <2>3, <2>4, <2>5 DEF Restores
<1>4. CASE LoadThrows
  <2>1. Loose(vec') /\ Initialized(vec') /\ (n =< vec.cap => vec'.cap = vec.cap)
    <3>1. ASSUME NEW d \in Resized(vec, n), NEW k \in 0 .. n - 1, vec' = AfterReadThrew(d, k)
          PROVE  Loose(vec') /\ Initialized(vec') /\ (n =< vec.cap => vec'.cap = vec.cap)
      <4>1. k \in 0 .. n
        BY <1>1
      <4>2. /\ Loose(AfterReadThrew(d, k)) /\ Initialized(AfterReadThrew(d, k))
            /\ AfterReadThrew(d, k).cap = d.cap
        BY <1>1, <1>2, <4>1, ReadingThrew
      <4> QED
        BY <1>2, <3>1, <4>2
    <3>2. ASSUME vec' \in ResizeThrew(vec, n)
          PROVE  Loose(vec') /\ Initialized(vec') /\ (n =< vec.cap => vec'.cap = vec.cap)
      BY <1>1, <3>2, NoRoomToRead
    <3> QED
      BY <1>4, <3>1, <3>2 DEF LoadThrows
  <2>2. SerialInv'
    <3>1. Loose(vec)' /\ Initialized(vec)'
      BY <2>1 DEF Loose, Framed, Initialized
    <3> QED
      BY <1>1, <3>1 DEF SerialInv
  <2>3. latest'.out = "threw"
    BY <1>4 DEF LoadThrows, Recorded
  <2> QED
    BY <2>1, <2>2, <2>3 DEF Restores, ReusesMemory
<1> QED
  BY <1>3, <1>4

\* Each step preserves the invariant, and does what is asked of a load and of a resize.
LEMMA SerialSteps ==
  ASSUME ~ShiftMayThrow, Default \in Object, MaxSaved \in 0 .. MaxSize
  PROVE  SerialInv /\ SerialNext =>
           /\ SerialInv' /\ ResizeKeeps
           /\ latest'.op = "load" => Restores /\ ReusesMemory
<1> SUFFICES ASSUME SerialInv, SerialNext
             PROVE  /\ SerialInv' /\ ResizeKeeps
                    /\ latest'.op = "load" => Restores /\ ReusesMemory
  OBVIOUS
<1>0. SizeOf(vec) \in Nat /\ MaxSaved \in Nat
  BY FramedFacts, SizesAssumption DEF SerialInv, Loose
<1>1. ASSUME latest'.op \in {"push", "pop", "save", "fill"}
      PROVE  ResizeKeeps /\ latest'.op # "load"
  BY <1>1 DEF ResizeKeeps
<1>2. CASE (\E x \in Values : Push(x)) \/ Pop
  <2>1. latest'.op \in {"push", "pop"}
    BY <1>2 DEF Push, Pop, Recorded
  <2> QED
    BY <1>1, <1>2, <2>1, PushPops
<1>3. CASE Save
  <2>1. latest'.op = "save"
    BY <1>3 DEF Save, Recorded
  <2> QED
    BY <1>1, <1>3, <2>1, SaveSaves
<1>4. CASE \E x \in Values : Fill(x)
  <2>1. latest'.op = "fill"
    BY <1>4 DEF Fill, Recorded
  <2> QED
    BY <1>1, <1>4, <2>1, Fills
<1>5. CASE Load \/ LoadThrows
  <2>1. latest'.op = "load"
    BY <1>5 DEF Load, LoadThrows, Recorded
  <2>2. ResizeKeeps
    BY <2>1 DEF ResizeKeeps
  <2> QED
    BY <1>5, <2>2, Loads
<1>6. CASE \E n \in SizeOf(vec) + 1 .. MaxSaved : GrowFront(n) \/ GrowBack(n)
  <2>1. PICK n \in SizeOf(vec) + 1 .. MaxSaved : GrowFront(n) \/ GrowBack(n)
    BY <1>6
  <2>2. n \in Nat /\ n > SizeOf(vec)
    BY <1>0
  <2>3. SerialInv' /\ ResizeKeeps
    BY <2>1, <2>2, Grows
  <2>4. latest'.op # "load"
    <3>1. CASE GrowFront(n)
      BY <3>1 DEF GrowFront, Recorded
    <3>2. CASE GrowBack(n)
      BY <3>2 DEF GrowBack, Recorded
    <3> QED
      BY <2>1, <3>1, <3>2
  <2> QED
    BY <2>3, <2>4
<1>7. CASE \E n \in 0 .. SizeOf(vec) : ShrinkFront(n) \/ ShrinkBack(n)
  <2>1. PICK n \in 0 .. SizeOf(vec) : ShrinkFront(n) \/ ShrinkBack(n)
    BY <1>7
  <2>2. SerialInv' /\ ResizeKeeps
    BY <2>1, Shrinks
  <2>3. latest'.op # "load"
    <3>1. CASE ShrinkFront(n)
      BY <3>1 DEF ShrinkFront, Recorded
    <3>2. CASE ShrinkBack(n)
      BY <3>2 DEF ShrinkBack, Recorded
    <3> QED
      BY <2>1, <3>1, <3>2
  <2> QED
    BY <2>2, <2>3
<1> QED
  BY <1>2, <1>3, <1>4, <1>5, <1>6, <1>7 DEF SerialNext

LEMMA AlwaysSerialInv ==
  ASSUME ~ShiftMayThrow, Default \in Object, MaxSaved \in 0 .. MaxSize
  PROVE  SerialSpec => []SerialInv
<1>1. SerialInit => SerialInv
  BY SerialBegins
<1>2. SerialInv /\ [SerialNext]_serialVars => SerialInv'
  <2>1. SerialInv /\ UNCHANGED serialVars => SerialInv'
    BY DEF serialVars, SerialInv, Loose, Framed, Initialized
  <2> QED
    BY <2>1, SerialSteps
<1> QED
  BY <1>1, <1>2, PTL DEF SerialSpec

\* Whatever a load was read over, and however far it came before it threw, the devector's
\* members and its buffer fit together, no object is outside of its elements, and each of
\* these is an object, though the caller may leave some uninitialized between loads.
THEOREM LoadsLeaveObjects ==
  ASSUME ~ShiftMayThrow, Default \in Object, MaxSaved \in 0 .. MaxSize
  PROVE  SerialSpec => []LeavesObjects
<1>1. SerialInv => LeavesObjects
  BY DEF SerialInv, Loose, Framed, LeavesObjects
<1> QED
  BY <1>1, AlwaysSerialInv, PTL

\* A load that returns has restored what was saved, whatever the devector held, wherever its
\* elements were, and whether it had to reallocate.
THEOREM LoadsRestore ==
  ASSUME ~ShiftMayThrow, Default \in Object, MaxSaved \in 0 .. MaxSize
  PROVE  SerialSpec => [][latest'.op = "load" => Restores]_serialVars
<1>1. SerialInv /\ [SerialNext]_serialVars => [latest'.op = "load" => Restores]_serialVars
  BY SerialSteps
<1> QED
  BY <1>1, AlwaysSerialInv, PTL DEF SerialSpec

\* A load that fits into the buffer keeps it, also when it throws.
THEOREM LoadsReuseMemory ==
  ASSUME ~ShiftMayThrow, Default \in Object, MaxSaved \in 0 .. MaxSize
  PROVE  SerialSpec => [][latest'.op = "load" => ReusesMemory]_serialVars
<1>1. SerialInv /\ [SerialNext]_serialVars => [latest'.op = "load" => ReusesMemory]_serialVars
  BY SerialSteps
<1> QED
  BY <1>1, AlwaysSerialInv, PTL DEF SerialSpec

\* unsafe_uninitialized_resize_front and _back change the size to the one asked for, at
\* their end, and keep the elements there are, in a new buffer too and raw slots among them.
THEOREM UnsafeResizesKeep ==
  ASSUME ~ShiftMayThrow, Default \in Object, MaxSaved \in 0 .. MaxSize
  PROVE  SerialSpec => [][ResizeKeeps]_serialVars
<1>1. SerialInv /\ [SerialNext]_serialVars => [ResizeKeeps]_serialVars
  BY SerialSteps
<1> QED
  BY <1>1, AlwaysSerialInv, PTL DEF SerialSpec

=============================================================================
