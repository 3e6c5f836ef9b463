--------------------------- MODULE DevectorOpsProofs ---------------------------
(***************************************************************************)
(* Each member function of DevectorOps takes a devector whose members and  *)
(* memory fit together to one where they do, whether it returns or throws. *)
(* One lemma for each operator on memory says which slots hold objects     *)
(* after it; one for each member function puts them together.  After that, *)
(* what the slots hold: the elements each member function has inserted or  *)
(* removed, and that the others are still there, in order.  The proofs     *)
(* about modules that use DevectorOps start from these lemmas.             *)
(***************************************************************************)
EXTENDS DevectorOps, SequenceTheorems, TLAPS

\* Slot a holds what it must: an object, if it is between the indices, and only then
\* unless a move that threw left an object behind outside of them.
Held(s, a, f, b) ==
  /\ f =< a /\ a < b => s[a] # Raw
  /\ ~ShiftMayThrow /\ s[a] # Raw => f =< a /\ a < b

\* What every operation relies on and reestablishes.
Good(d) ==
  /\ d \in DevectorType
  /\ InvariantsOk(d)
  /\ BufferMatches(d)
  /\ \A a \in Address : Held(d.slots, a, d.front, d.back)

Memory == [Address -> Slot]

\* All slots from lo to hi - 1 hold objects.
LiveIn(s, lo, hi) == \A a \in Address : lo =< a /\ a < hi => s[a] # Raw

-----------------------------------------------------------------------------
\* Which slots hold objects after each of the operations on memory

\* Constructing or assigning a run of objects.
LEMMA PutObjects ==
  ASSUME NEW s \in Memory, NEW at \in Int, NEW xs \in Seq(Object)
  PROVE  /\ Put(s, at, xs) \in Memory
         /\ \A a \in Address :
              Put(s, at, xs)[a] # Raw <=>
                (at =< a /\ a < at + Len(xs)) \/ s[a] # Raw
<1>1. Len(xs) \in Nat /\ \A i \in 1 .. Len(xs) : xs[i] \in Object
  OBVIOUS
<1>2. \A a \in Address : a \in Int
  BY SizesAssumption DEF Address
<1>3. \A a \in Address : at =< a /\ a < at + Len(xs) => xs[a - at + 1] \in Object
  BY <1>1, <1>2
<1>4. Raw \notin Object
  BY MarkersAssumption DEF Object
<1> QED
  BY <1>3, <1>4 DEF Put, Memory, Slot

\* Destroying a run of objects.
LEMMA DestroyObjects ==
  ASSUME NEW s \in Memory, NEW lo \in Int, NEW hi \in Int
  PROVE  /\ Destroy(s, lo, hi) \in Memory
         /\ \A a \in Address :
              Destroy(s, lo, hi)[a] # Raw <=> ~(lo =< a /\ a < hi) /\ s[a] # Raw
  BY DEF Destroy, Memory, Slot

\* Constructing a run of objects again in another buffer.
LEMMA TransferObjects ==
  ASSUME NEW src \in Memory, NEW dst \in Memory,
         NEW lo \in Nat, NEW hi \in 0 .. MaxSize, NEW at \in Int,
         LiveIn(src, lo, hi)
  PROVE  /\ Transfer(src, lo, hi, dst, at) \in Memory
         /\ \A a \in Address :
              Transfer(src, lo, hi, dst, at)[a] # Raw <=>
                (at =< a /\ a < at + (hi - lo)) \/ dst[a] # Raw
<1>1. \A a \in Address : a \in Int
  BY SizesAssumption DEF Address
<1>2. ASSUME NEW a \in Address, at =< a, a < at + (hi - lo)
      PROVE  lo + (a - at) \in Address /\ src[lo + (a - at)] # Raw
  <2>1. lo + (a - at) \in Address
    BY <1>1, <1>2, SizesAssumption DEF Address
  <2>2. lo =< lo + (a - at) /\ lo + (a - at) < hi
    BY <1>1, <1>2, SizesAssumption
  <2> QED
    BY <2>1, <2>2 DEF LiveIn
<1> QED
  BY <1>2 DEF Transfer, Memory

\* Moving a run of objects within the buffer: what was an object still is one, and
\* so are the slots moved to.
LEMMA SlideObjects ==
  ASSUME NEW s \in Memory, NEW lo \in Nat, NEW hi \in 0 .. MaxSize,
         NEW at \in Int, LiveIn(s, lo, hi)
  PROVE  /\ Slide(s, lo, hi, at) \in Memory
         /\ \A a \in Address :
              Slide(s, lo, hi, at)[a] # Raw <=>
                (at =< a /\ a < at + (hi - lo)) \/ s[a] # Raw
<1>1. \A a \in Address : a \in Int
  BY SizesAssumption DEF Address
<1>2. Unspec \in Slot /\ Unspec # Raw
  BY MarkersAssumption DEF Slot, Object
<1>3. ASSUME NEW a \in Address, at =< a, a < at + (hi - lo)
      PROVE  lo + (a - at) \in Address /\ s[lo + (a - at)] # Raw
  <2>1. lo + (a - at) \in Address
    BY <1>1, <1>3, SizesAssumption DEF Address
  <2>2. lo =< lo + (a - at) /\ lo + (a - at) < hi
    BY <1>1, <1>3, SizesAssumption
  <2> QED
    BY <2>1, <2>2 DEF LiveIn
<1>4. CASE at = lo
  BY <1>1, <1>2, <1>4, SizesAssumption DEF Slide, Memory, LiveIn
<1>5. CASE at # lo
  BY <1>1, <1>2, <1>3, <1>5 DEF Slide, Memory, LiveIn
<1> QED
  BY <1>4, <1>5

\* Rotating a run of objects leaves it a run of objects.
LEMMA RotateObjects ==
  ASSUME NEW s \in Memory, NEW lo \in Nat, NEW mid \in Nat,
         NEW hi \in 0 .. MaxSize, lo =< mid, mid =< hi, LiveIn(s, lo, hi)
  PROVE  /\ Rotate(s, lo, mid, hi) \in Memory
         /\ \A a \in Address : Rotate(s, lo, mid, hi)[a] # Raw <=> s[a] # Raw
<1> DEFINE from(a) == IF a + (mid - lo) < hi THEN a + (mid - lo) ELSE a - (hi - mid)
<1>1. \A a \in Address : a \in Int
  BY SizesAssumption DEF Address
<1>2. ASSUME NEW a \in Address, lo =< a, a < hi
      PROVE  from(a) \in Address /\ s[from(a)] # Raw
  <2>1. from(a) \in Address /\ lo =< from(a) /\ from(a) < hi
    BY <1>1, <1>2, SizesAssumption DEF Address
  <2> QED
    BY <2>1 DEF LiveIn
<1> QED
  BY <1>2 DEF Rotate, Memory, LiveIn

\* A new buffer is all raw memory.
LEMMA NoObjectsRaw ==
  /\ NoObjects \in Memory
  /\ \A a \in Address : NoObjects[a] = Raw
  BY DEF NoObjects, Memory, Slot

-----------------------------------------------------------------------------
\* Objects in the good state

\* Where the elements are, in numbers.
Indices(d) ==
  /\ d.cap \in Nat /\ d.front \in Nat /\ d.back \in Nat
  /\ d.front =< d.back /\ d.back =< d.cap /\ d.cap =< MaxSize
  /\ MaxSize \in Nat /\ SBuf \in Nat /\ SBuf =< d.cap

\* The indices and the capacity of a good object are ordered numbers.
LEMMA GoodIndices ==
  ASSUME NEW d, Good(d)
  PROVE  Indices(d) /\ d.back \in 0 .. MaxSize
  BY SizesAssumption DEF Good, DevectorType, InvariantsOk, Indices, Size

\* What a good object says of its memory.
LEMMA GoodFacts ==
  ASSUME NEW d, Good(d)
  PROVE  /\ d.cap \in 0 .. MaxSize /\ d.front \in Nat /\ d.back \in 0 .. MaxSize
         /\ d.front =< d.back /\ d.back =< d.cap /\ SBuf =< d.cap
         /\ d.slots \in Memory
         /\ LiveIn(d.slots, d.front, d.back)
         /\ \A a \in Address : Held(d.slots, a, d.front, d.back)
  BY SizesAssumption
  DEF Good, DevectorType, InvariantsOk, Held, LiveIn, Memory, Size

\* Moving all elements to a new buffer.
LEMMA TransferAll ==
  ASSUME NEW d, Good(d), NEW dst \in Memory, NEW at \in Int
  PROVE  /\ Transfer(d.slots, d.front, d.back, dst, at) \in Memory
         /\ \A a \in Address :
              Transfer(d.slots, d.front, d.back, dst, at)[a] # Raw <=>
                (at =< a /\ a < at + SizeOf(d)) \/ dst[a] # Raw
<1>1. /\ d.slots \in Memory /\ d.front \in Nat /\ d.back \in 0 .. MaxSize
      /\ LiveIn(d.slots, d.front, d.back)
  BY GoodFacts
<1> QED
  BY <1>1, TransferObjects DEF SizeOf

\* The members of an object and its memory fit together.
Fits(c, f, b, m) ==
  /\ c \in Size /\ SBuf =< c
  /\ f \in Nat /\ b \in Nat /\ f =< b /\ b =< c
  /\ m \in Memory
  /\ \A a \in Address : Held(m, a, f, b)

\* A buffer of `allocate`, with objects between the indices, is good.
LEMMA NewBufferGood ==
  ASSUME NEW c, NEW f, NEW b, NEW m, Fits(c, f, b, m)
  PROVE  Good([cap |-> c, front |-> f, back |-> b,
               slots |-> m, buf |-> BufferFor(c)])
<1> DEFINE d == [cap |-> c, front |-> f, back |-> b,
                 slots |-> m, buf |-> BufferFor(c)]
<1>1. d \in DevectorType
  BY SizesAssumption DEF Fits, DevectorType, Size, Memory, BufferFor
<1>2. InvariantsOk(d)
  BY SizesAssumption
  DEF Fits, InvariantsOk, HasBuffer, BufferFor, Size
<1>3. BufferMatches(d)
  BY SizesAssumption
  DEF Fits, BufferMatches, MustFree, IsSmall, HasBuffer, BufferFor, Size
<1>4. \A a \in Address : Held(d.slots, a, d.front, d.back)
  BY DEF Fits
<1> QED
  BY <1>1, <1>2, <1>3, <1>4 DEF Good

\* Changing the indices and the objects in the same buffer alike stays good.
LEMMA SameBufferGood ==
  ASSUME NEW d, Good(d), NEW f, NEW b, NEW m, Fits(d.cap, f, b, m)
  PROVE  Good([d EXCEPT !.slots = m, !.front = f, !.back = b])
<1> DEFINE e == [d EXCEPT !.slots = m, !.front = f, !.back = b]
<1>0. d \in DevectorType /\ InvariantsOk(d) /\ BufferMatches(d)
  BY DEF Good
<1>1. /\ e.cap = d.cap /\ e.front = f /\ e.back = b
      /\ e.slots = m /\ e.buf = d.buf
  BY <1>0 DEF DevectorType
<1>2. e \in DevectorType
  <2>1. f \in Size /\ b \in Size /\ m \in [Address -> Slot]
    BY SizesAssumption DEF Fits, Size, Memory
  <2> QED
    BY <1>0, <2>1 DEF DevectorType
<1>3. InvariantsOk(e)
  BY <1>0, <1>1 DEF Fits, InvariantsOk, HasBuffer
<1>4. BufferMatches(e)
  BY <1>0, <1>1 DEF BufferMatches, MustFree, IsSmall, HasBuffer
<1>5. \A a \in Address : Held(e.slots, a, e.front, e.back)
  BY <1>1 DEF Fits
<1> QED
  BY <1>2, <1>3, <1>4, <1>5 DEF Good

\* The same, for an operation at the front.
LEMMA SameBackGood ==
  ASSUME NEW d, Good(d), NEW f, NEW m, Fits(d.cap, f, d.back, m)
  PROVE  Good([d EXCEPT !.slots = m, !.front = f])
<1>1. [d EXCEPT !.slots = m, !.front = f]
        = [d EXCEPT !.slots = m, !.front = f, !.back = d.back]
  BY DEF Good, DevectorType
<1>2. Good([d EXCEPT !.slots = m, !.front = f, !.back = d.back])
  BY SameBufferGood
<1> QED
  BY <1>1, <1>2

\* The same, for an operation at the back.
LEMMA SameFrontGood ==
  ASSUME NEW d, Good(d), NEW b, NEW m, Fits(d.cap, d.front, b, m)
  PROVE  Good([d EXCEPT !.slots = m, !.back = b])
<1>1. [d EXCEPT !.slots = m, !.back = b]
        = [d EXCEPT !.slots = m, !.front = d.front, !.back = b]
  BY DEF Good, DevectorType
<1>2. Good([d EXCEPT !.slots = m, !.front = d.front, !.back = b])
  BY SameBufferGood
<1> QED
  BY <1>1, <1>2

\* Changing values but not which slots hold objects stays good.
LEMMA SameIndicesGood ==
  ASSUME NEW d, Good(d), NEW m, Fits(d.cap, d.front, d.back, m)
  PROVE  /\ Good([d EXCEPT !.slots = m])
         /\ SizeOf([d EXCEPT !.slots = m]) = SizeOf(d)
<1>1. [d EXCEPT !.slots = m] = [d EXCEPT !.slots = m, !.front = d.front]
  BY DEF Good, DevectorType
<1>2. Good([d EXCEPT !.slots = m, !.front = d.front])
  BY SameBackGood
<1>3. SizeOf([d EXCEPT !.slots = m]) = SizeOf(d)
  BY DEF SizeOf, Good, DevectorType
<1> QED
  BY <1>1, <1>2, <1>3

-----------------------------------------------------------------------------
\* Constructors

\* The constructor with two capacities.
LEMMA ReservedGood ==
  ASSUME NEW m \in Nat, NEW n \in Nat, m + n =< MaxSize
  PROVE  Good(Reserved(m, n))
<1> DEFINE cap == Larger(m + n, SBuf)
<1>1. Fits(cap, m, m, NoObjects)
  BY NoObjectsRaw, SizesAssumption DEF Fits, Held, Larger, Size, Address
<1> QED
  BY <1>1, NewBufferGood DEF Reserved

\* The constructors with elements.
LEMMA ConstructedGood ==
  ASSUME NEW xs \in Seq(Object), Len(xs) =< MaxSize
  PROVE  Good(Constructed(xs))
<1> DEFINE cap == Larger(Len(xs), SBuf)
<1>1. Len(xs) \in Nat
  OBVIOUS
<1>2. /\ Put(NoObjects, 0, xs) \in Memory
      /\ \A a \in Address :
           Put(NoObjects, 0, xs)[a] # Raw <=> 0 =< a /\ a < 0 + Len(xs)
  BY PutObjects, NoObjectsRaw
<1>3. Fits(cap, 0, Len(xs), Put(NoObjects, 0, xs))
  BY <1>1, <1>2, SizesAssumption DEF Fits, Held, Larger, Size, Address
<1> QED
  BY <1>3, NewBufferGood DEF Constructed

-----------------------------------------------------------------------------
\* Both ends

\* Constructing objects in the free slots at the front.
LEMMA PutFrontGood ==
  ASSUME NEW d, Good(d), NEW xs \in Seq(Object), Len(xs) =< FrontFree(d)
  PROVE  Good(PutFront(d, xs))
<1> DEFINE f == d.front - Len(xs)
           m == Put(d.slots, f, xs)
<1>1. Len(xs) \in Nat /\ Len(xs) =< d.front
  BY DEF FrontFree
<1>2. m \in Memory /\ \A a \in Address :
        m[a] # Raw <=> (f =< a /\ a < f + Len(xs)) \/ d.slots[a] # Raw
  BY <1>1, GoodFacts, PutObjects
<1>3. f \in Nat /\ f =< d.back
  BY <1>1, GoodFacts
<1>4. ASSUME NEW a \in Address PROVE Held(m, a, f, d.back)
  BY <1>1, <1>2, GoodFacts, SizesAssumption DEF Address, Held
<1>5. Fits(d.cap, f, d.back, m)
  BY <1>2, <1>3, <1>4, GoodFacts DEF Fits, Size
<1> QED
  BY <1>5, SameBackGood DEF PutFront

\* Constructing objects in the free slots at the back.
LEMMA PutBackGood ==
  ASSUME NEW d, Good(d), NEW xs \in Seq(Object), Len(xs) =< BackFree(d)
  PROVE  Good(PutBack(d, xs))
<1> DEFINE b == d.back + Len(xs)
           m == Put(d.slots, d.back, xs)
<1>1. Len(xs) \in Nat /\ b =< d.cap
  BY GoodFacts DEF BackFree
<1>2. m \in Memory /\ \A a \in Address :
        m[a] # Raw <=> (d.back =< a /\ a < b) \/ d.slots[a] # Raw
  BY <1>1, GoodFacts, PutObjects
<1>3. b \in Nat /\ d.front =< b
  BY <1>1, GoodFacts
<1>4. ASSUME NEW a \in Address PROVE Held(m, a, d.front, b)
  BY <1>1, <1>2, GoodFacts, SizesAssumption DEF Address, Held
<1>5. Fits(d.cap, d.front, b, m)
  BY <1>1, <1>2, <1>3, <1>4, GoodFacts DEF Fits, Size
<1> QED
  BY <1>5, SameFrontGood DEF PutBack

\* Destroying objects at the front.
LEMMA PopFrontGood ==
  ASSUME NEW d, Good(d), NEW n \in Nat, n =< SizeOf(d)
  PROVE  Good(PopFront(d, n))
<1> DEFINE f == d.front + n
           m == Destroy(d.slots, d.front, f)
<1>1. f =< d.back
  BY GoodFacts DEF SizeOf
<1>2. m \in Memory /\ \A a \in Address :
        m[a] # Raw <=> ~(d.front =< a /\ a < f) /\ d.slots[a] # Raw
  BY GoodFacts, DestroyObjects
<1>3. ASSUME NEW a \in Address PROVE Held(m, a, f, d.back)
  BY <1>1, <1>2, GoodFacts, SizesAssumption DEF Address, Held
<1>4. Fits(d.cap, f, d.back, m)
  BY <1>1, <1>2, <1>3, GoodFacts DEF Fits, Size
<1> QED
  BY <1>4, SameBackGood DEF PopFront

\* Destroying objects at the back.
LEMMA PopBackGood ==
  ASSUME NEW d, Good(d), NEW n \in Nat, n =< SizeOf(d)
  PROVE  Good(PopBack(d, n))
<1> DEFINE b == d.back - n
           m == Destroy(d.slots, b, d.back)
<1>1. d.front =< b
  BY GoodFacts DEF SizeOf
<1>2. m \in Memory /\ \A a \in Address :
        m[a] # Raw <=> ~(b =< a /\ a < d.back) /\ d.slots[a] # Raw
  BY GoodFacts, DestroyObjects
<1>3. ASSUME NEW a \in Address PROVE Held(m, a, d.front, b)
  BY <1>1, <1>2, GoodFacts, SizesAssumption DEF Address, Held
<1>4. Fits(d.cap, d.front, b, m)
  BY <1>1, <1>2, <1>3, GoodFacts DEF Fits, Size
<1> QED
  BY <1>4, SameFrontGood DEF PopBack

\* clear() destroys every object.
LEMMA ClearGood ==
  ASSUME NEW d, Good(d)
  PROVE  Good(Clear(d))
<1> DEFINE m == Destroy(d.slots, d.front, d.back)
<1>1. m \in Memory /\ \A a \in Address :
        m[a] # Raw <=> ~(d.front =< a /\ a < d.back) /\ d.slots[a] # Raw
  BY GoodFacts, DestroyObjects
<1>2. Fits(d.cap, 0, 0, m)
  BY <1>1, GoodFacts, SizesAssumption DEF Fits, Held, Size, Address
<1> QED
  BY <1>2, SameBufferGood DEF Clear

-----------------------------------------------------------------------------
\* Reallocation

\* What is asked of calculate_new_capacity is there, unless size_type wrapped
\* around; one element more never does.
LEMMA CapacityFacts ==
  ASSUME NEW d, Good(d), NEW n \in Nat, CapacityOk(d, n),
         n =< SizeMax \/ n = d.cap + 1
  PROVE  CalculateNewCapacity(d, n) \in Size /\ CalculateNewCapacity(d, n) >= n
<1> DEFINE policy == NewCapacity[d.cap]
<1>1. d.cap \in Size /\ policy \in 0 .. SizeMax
  BY GoodFacts, SizesAssumption DEF Size
<1>2. CalculateNewCapacity(d, n) =< MaxSize /\ CalculateNewCapacity(d, n) >= d.cap
  BY DEF CapacityOk
<1>3. CASE n =< SizeMax
  BY <1>1, <1>2, <1>3, SizesAssumption DEF CalculateNewCapacity, Wrap, Larger, Size
<1>4. CASE n = d.cap + 1 /\ n > SizeMax
  <2>1. d.cap = MaxSize /\ MaxSize = SizeMax /\ policy # MaxSize
    BY <1>1, <1>4, SizesAssumption DEF Size
  <2>2. CalculateNewCapacity(d, n) = Larger(0, policy)
    BY <1>4, <2>1, SizesAssumption DEF CalculateNewCapacity, Wrap
  <2> QED
    BY <1>1, <1>2, <2>1, <2>2, SizesAssumption DEF Larger, Size
<1> QED
  BY <1>3, <1>4, SizesAssumption

\* The arithmetic of the new buffer: the old elements and the new ones fit in
\* front of the free slots that stay at the back, and the three runs of objects
\* follow each other without a gap.
LEMMA RoomInFront ==
  ASSUME NEW c \in Nat, NEW cap \in Nat, NEW front \in Nat, NEW back \in Nat,
         NEW n \in Nat, front =< back, back =< cap, c >= cap + n,
         NEW f, f = c - (cap - back) - (back - front) - n
  PROVE  f \in Nat /\ f + (back - front) + n =< c
  OBVIOUS

\* The two halves of the old elements and the new ones between them make one run.
LEMMA HalvesMeet ==
  ASSUME NEW a \in Int, NEW f \in Nat, NEW front \in Nat, NEW back \in Nat,
         NEW index \in Nat, NEW n \in Nat, index =< back - front
  PROVE  (\/ f + index + n =< a /\ a < f + index + n + (back - (front + index))
          \/ f =< a /\ a < f + (front + index - front)
          \/ f + index =< a /\ a < f + index + n)
         <=> f =< a /\ a < f + (back - front) + n
  OBVIOUS

\* Both of the reallocating slow paths of emplace and insert.
LEMMA InsertReallocatingGood ==
  ASSUME NEW d, Good(d), NEW makeFrontFree \in BOOLEAN,
         NEW index \in 0 .. SizeOf(d), NEW xs \in Seq(Object),
         InsertReallocatingOk(d, Len(xs)),
         Len(xs) = 1 \/ d.cap + Len(xs) =< SizeMax
  PROVE  Good(InsertReallocating(d, makeFrontFree, index, xs))
<1> DEFINE n   == Len(xs)
           c   == CalculateNewCapacity(d, d.cap + n)
           f   == IF makeFrontFree THEN c - BackFree(d) - SizeOf(d) - n ELSE d.front
           pos == f + index
           old == d.front + index
           m1  == Put(NoObjects, pos, xs)
           m2  == Transfer(d.slots, d.front, old, m1, f)
           m3  == Transfer(d.slots, old, d.back, m2, pos + n)
           b   == f + SizeOf(d) + n
<1>0. Indices(d) /\ index \in Nat /\ index =< d.back - d.front
  BY GoodIndices DEF SizeOf, Indices
<1>1. n \in Nat
  OBVIOUS
<1>2. c \in Size /\ c >= d.cap + n
  <2>1. d.cap + n \in Nat
    BY <1>0, <1>1 DEF Indices
  <2>2. d.cap + n =< SizeMax \/ d.cap + n = d.cap + 1
    OBVIOUS
  <2> QED
    BY <2>1, <2>2, CapacityFacts DEF InsertReallocatingOk
<1>3. f \in Nat /\ b \in Nat /\ f =< b /\ b =< c /\ SBuf =< c
  <2>1. c \in Nat /\ c >= d.cap + n
    BY <1>0, <1>2 DEF Size, Indices
  <2>2. b = f + (d.back - d.front) + n
    BY DEF SizeOf
  <2>3. f \in Nat /\ f + (d.back - d.front) + n =< c
    <3>1. CASE makeFrontFree
      <4>1. f = c - (d.cap - d.back) - (d.back - d.front) - n
        BY <3>1 DEF SizeOf, BackFree
      <4> HIDE DEF c, f, n
      <4> QED
        BY <1>0, <1>1, <2>1, <4>1, RoomInFront DEF Indices
    <3>2. CASE ~makeFrontFree
      <4>1. f = d.front
        BY <3>2
      <4> HIDE DEF c, f, n
      <4> QED
        BY <1>0, <1>1, <2>1, <4>1 DEF Indices
    <3> QED
      BY <3>1, <3>2
  <2>4. b \in Nat /\ f =< b /\ b =< c
    <3> HIDE DEF c, f, n, b
    <3> QED
      BY <1>0, <1>1, <2>2, <2>3 DEF Indices
  <2>5. SBuf =< c
    <3> HIDE DEF c, n
    <3> QED
      BY <1>0, <1>1, <2>1 DEF Indices
  <2> QED
    BY <2>3, <2>4, <2>5
<1>4. /\ old \in 0 .. MaxSize /\ d.front =< old /\ old =< d.back
      /\ old \in Nat /\ pos \in Nat
  <2>1. old = d.front + index /\ pos = f + index
    OBVIOUS
  <2> HIDE DEF c, f, n, b, pos, old, m1, m2, m3
  <2>2. /\ index \in Nat /\ index =< d.back - d.front
        /\ d.front \in Nat /\ d.back \in Nat /\ d.back =< MaxSize
        /\ f \in Nat /\ MaxSize \in Nat
    BY <1>0, <1>3 DEF Indices
  <2> QED
    BY <2>1, <2>2
<1>5. LiveIn(d.slots, d.front, old) /\ LiveIn(d.slots, old, d.back)
  <2>1. \A a \in Address : a \in Int
    BY SizesAssumption DEF Address
  <2> QED
    BY <1>4, <2>1, GoodFacts DEF LiveIn
<1> HIDE DEF c, f, pos, old, m1, m2, m3, b
<1>6. m1 \in Memory /\ \A a \in Address : m1[a] # Raw <=> pos =< a /\ a < pos + n
  BY <1>4, PutObjects, NoObjectsRaw DEF m1
<1>7. m2 \in Memory /\ \A a \in Address :
        m2[a] # Raw <=> (f =< a /\ a < f + (old - d.front)) \/ m1[a] # Raw
  <2>1. d.slots \in Memory /\ d.front \in Nat /\ f \in Int
    BY <1>0, <1>3, GoodFacts DEF Indices
  <2> QED
    BY <1>4, <1>5, <1>6, <2>1, TransferObjects DEF m2
<1>8. m3 \in Memory /\ \A a \in Address :
        m3[a] # Raw <=> (pos + n =< a /\ a < pos + n + (d.back - old)) \/ m2[a] # Raw
  <2>1. d.slots \in Memory /\ d.back \in 0 .. MaxSize /\ pos + n \in Int
    BY <1>1, <1>4, GoodFacts
  <2> QED
    BY <1>4, <1>5, <1>7, <2>1, TransferObjects DEF m3
<1>9. ASSUME NEW a \in Address PROVE Held(m3, a, f, b)
  <2>1. a \in Int
    BY <1>0 DEF Address, Indices
  <2>2. m3[a] # Raw <=>
          \/ pos + n =< a /\ a < pos + n + (d.back - old)
          \/ f =< a /\ a < f + (old - d.front)
          \/ pos =< a /\ a < pos + n
    BY <1>6, <1>7, <1>8
  <2> HIDE DEF n
  <2>3. (\/ pos + n =< a /\ a < pos + n + (d.back - old)
         \/ f =< a /\ a < f + (old - d.front)
         \/ pos =< a /\ a < pos + n)
        <=> f =< a /\ a < b
    <3>1. d.front \in Nat /\ d.back \in Nat /\ f \in Nat
          /\ index \in Nat /\ n \in Nat /\ index =< d.back - d.front
      BY <1>0, <1>1, <1>3 DEF Indices
    <3>2. (\/ f + index + n =< a
              /\ a < f + index + n + (d.back - (d.front + index))
           \/ f =< a /\ a < f + (d.front + index - d.front)
           \/ f + index =< a /\ a < f + index + n)
          <=> f =< a /\ a < f + (d.back - d.front) + n
      BY <2>1, <3>1, HalvesMeet
    <3> QED
      BY <2>1, <3>1, <3>2 DEF pos, old, b, SizeOf
  <2> QED
    BY <2>2, <2>3 DEF Held
<1>10. Fits(c, f, b, m3)
  BY <1>2, <1>3, <1>8, <1>9 DEF Fits
<1> QED
  BY <1>10, NewBufferGood DEF InsertReallocating, c, f, pos, old, m1, m2, m3, b

\* reallocate_at, for a capacity and an offset that leave room.
LEMMA ReallocateAtGood ==
  ASSUME NEW d, Good(d), NEW c \in Size, NEW offset \in Nat,
         SBuf =< c, offset + SizeOf(d) =< c
  PROVE  Good(ReallocateAt(d, c, offset))
<1> DEFINE m == Transfer(d.slots, d.front, d.back, NoObjects, offset)
           b == offset + SizeOf(d)
<1>1. m \in Memory /\ \A a \in Address : m[a] # Raw <=> offset =< a /\ a < b
  BY NoObjectsRaw, TransferAll
<1>2. b \in Nat /\ offset =< b
  BY GoodIndices DEF SizeOf, Indices
<1>3. Fits(c, offset, b, m)
  BY <1>1, <1>2 DEF Fits, Held
<1> QED
  BY <1>3, NewBufferGood DEF ReallocateAt

\* reserve_front
LEMMA ReserveFrontGood ==
  ASSUME NEW d, Good(d), NEW n \in Nat, ReserveFrontOk(d, n)
  PROVE  Good(ReserveFront(d, n))
<1>1. CASE FrontCapacity(d) >= n
  BY <1>1 DEF ReserveFront
<1>2. CASE ~(FrontCapacity(d) >= n)
  <2> DEFINE c == n + BackFree(d)
  <2>1. Indices(d) /\ c =< MaxSize /\ n > d.back
    BY <1>2, GoodIndices DEF ReserveFrontOk, FrontCapacity, Indices
  <2>2. /\ c \in Size /\ SBuf =< c /\ Wrap(c) = c
        /\ n - SizeOf(d) \in Nat /\ (n - SizeOf(d)) + SizeOf(d) =< c
    <3>1. SizeMax \in Nat /\ MaxSize =< SizeMax
      BY SizesAssumption
    <3>2. c = n + (d.cap - d.back) /\ SizeOf(d) = d.back - d.front
      BY DEF BackFree, SizeOf
    <3>3. c \in Nat /\ SBuf =< c
      BY <2>1, <3>2 DEF Indices
    <3>4. c \in Size /\ Wrap(c) = c
      BY <2>1, <3>1, <3>3 DEF Wrap, Size, Indices
    <3>5. n - SizeOf(d) \in Nat /\ (n - SizeOf(d)) + SizeOf(d) =< c
      BY <2>1, <3>2 DEF Indices
    <3> QED
      BY <3>3, <3>4, <3>5
  <2> QED
    BY <1>2, <2>2, ReallocateAtGood DEF ReserveFront
<1> QED
  BY <1>1, <1>2

\* reserve_back
LEMMA ReserveBackGood ==
  ASSUME NEW d, Good(d), NEW n \in Nat, ReserveBackOk(d, n)
  PROVE  Good(ReserveBack(d, n))
<1>1. CASE BackCapacity(d) >= n
  BY <1>1 DEF ReserveBack
<1>2. CASE ~(BackCapacity(d) >= n)
  <2> DEFINE c == n + FrontFree(d)
  <2>1. Indices(d) /\ c =< MaxSize /\ n > d.cap - d.front
    BY <1>2, GoodIndices DEF ReserveBackOk, BackCapacity, Indices
  <2>2. /\ c \in Size /\ SBuf =< c /\ Wrap(c) = c
        /\ d.front \in Nat /\ d.front + SizeOf(d) =< c
    <3>1. SizeMax \in Nat /\ MaxSize =< SizeMax
      BY SizesAssumption
    <3>2. c = n + d.front /\ SizeOf(d) = d.back - d.front
      BY DEF FrontFree, SizeOf
    <3>3. c \in Nat /\ SBuf =< c /\ d.front + SizeOf(d) =< c
      BY <2>1, <3>2 DEF Indices
    <3>4. c \in Size /\ Wrap(c) = c
      <4> HIDE DEF c
      <4> QED
        BY <2>1, <3>1, <3>3 DEF Wrap, Size, Indices
    <3> QED
      BY <2>1, <3>3, <3>4 DEF Indices
  <2> QED
    BY <1>2, <2>2, ReallocateAtGood DEF ReserveBack
<1> QED
  BY <1>1, <1>2

\* shrink_to_fit, the return to the small buffer included.
LEMMA ShrinkToFitGood ==
  ASSUME NEW d, Good(d)
  PROVE  Good(ShrinkToFit(d))
<1> DEFINE n == SizeOf(d)
           m == Transfer(d.slots, d.front, d.back, NoObjects, 0)
<1>1. n \in Size
  BY GoodFacts, SizesAssumption DEF SizeOf, Size
<1>2. CASE ~ShouldShrink(n, d.cap) \/ IsSmall(d)
  BY <1>2 DEF ShrinkToFit
<1>3. CASE ~(~ShouldShrink(n, d.cap) \/ IsSmall(d)) /\ n =< SBuf
  <2>1. m \in Memory /\ \A a \in Address : m[a] # Raw <=> 0 =< a /\ a < 0 + n
    BY NoObjectsRaw, TransferAll
  <2>2. Fits(SBuf, 0, n, m)
    BY <1>1, <1>3, <2>1, SizesAssumption DEF Fits, Held, Size, SizeOf
  <2>3. BufferFor(SBuf) = "small"
    BY SizesAssumption DEF BufferFor, Size
  <2>4. Good([cap |-> SBuf, front |-> 0, back |-> n, slots |-> m, buf |-> "small"])
    BY <2>2, <2>3, NewBufferGood
  <2> QED
    BY <1>3, <2>4 DEF ShrinkToFit
<1>4. CASE ~(~ShouldShrink(n, d.cap) \/ IsSmall(d)) /\ ~(n =< SBuf)
  <2>1. Good(ReallocateAt(d, n, 0))
    BY <1>1, <1>4, SizesAssumption, ReallocateAtGood DEF Size
  <2> QED
    BY <1>4, <2>1 DEF ShrinkToFit
<1> QED
  BY <1>2, <1>3, <1>4

\* emplace inserts a range of one.
LEMMA OneElement ==
  ASSUME NEW x \in Object
  PROVE  <<x>> \in Seq(Object) /\ Len(<<x>>) = 1
  OBVIOUS

\* resize and insert(pos, n, x) insert a range of copies.
LEMMA SomeCopies ==
  ASSUME NEW n \in Nat, NEW x \in Object
  PROVE  Copies(n, x) \in Seq(Object) /\ Len(Copies(n, x)) = n
<1>1. Copies(n, x) \in [1 .. n -> Object]
  BY DEF Copies
<1> QED
  BY <1>1

\* emplace_front, with and without reallocation.
LEMMA EmplaceFrontGood ==
  ASSUME NEW d, Good(d), NEW x \in Object, EmplaceFrontOk(d)
  PROVE  Good(EmplaceFront(d, x))
<1>0. Indices(d)
  BY GoodIndices
<1>1. CASE FrontFree(d) > 0
  <2>1. Len(<<x>>) =< FrontFree(d)
    BY <1>0, <1>1, OneElement DEF FrontFree, Indices
  <2> QED
    BY <1>1, <2>1, OneElement, PutFrontGood DEF EmplaceFront
<1>2. CASE ~(FrontFree(d) > 0)
  <2>1. 0 \in 0 .. SizeOf(d)
    BY <1>0 DEF SizeOf, Indices
  <2>2. Good(InsertReallocating(d, TRUE, 0, <<x>>))
    BY <1>2, <2>1, OneElement, InsertReallocatingGood DEF EmplaceFrontOk
  <2> QED
    BY <1>2, <2>2 DEF EmplaceFront
<1> QED
  BY <1>1, <1>2

\* emplace_back, with and without reallocation.
LEMMA EmplaceBackGood ==
  ASSUME NEW d, Good(d), NEW x \in Object, EmplaceBackOk(d)
  PROVE  Good(EmplaceBack(d, x))
<1>0. Indices(d)
  BY GoodIndices
<1>1. CASE BackFree(d) > 0
  <2>1. Len(<<x>>) =< BackFree(d)
    BY <1>0, <1>1, OneElement DEF BackFree, Indices
  <2> QED
    BY <1>1, <2>1, OneElement, PutBackGood DEF EmplaceBack
<1>2. CASE ~(BackFree(d) > 0)
  <2>1. SizeOf(d) \in 0 .. SizeOf(d)
    BY <1>0 DEF SizeOf, Indices
  <2>2. Good(InsertReallocating(d, FALSE, SizeOf(d), <<x>>))
    BY <1>2, <2>1, OneElement, InsertReallocatingGood DEF EmplaceBackOk
  <2> QED
    BY <1>2, <2>2 DEF EmplaceBack
<1> QED
  BY <1>1, <1>2

\* The reallocating path of resize_front.
LEMMA ResizeFrontSlowPathGood ==
  ASSUME NEW d, Good(d), NEW sz \in Nat, NEW xs \in Seq(Object),
         SizeOf(d) + Len(xs) = sz, sz > FrontCapacity(d),
         sz + BackFree(d) =< SizeMax, CapacityOk(d, sz + BackFree(d))
  PROVE  Good(ResizeFrontSlowPath(d, sz, xs))
<1> DEFINE c     == CalculateNewCapacity(d, sz + BackFree(d))
           oldAt == c - SizeOf(d)
           newAt == oldAt - Len(xs)
           m1    == Put(NoObjects, newAt, xs)
           m     == Transfer(d.slots, d.front, d.back, m1, oldAt)
           b     == oldAt + SizeOf(d)
<1>0. Indices(d) /\ Len(xs) \in Nat
  BY GoodIndices
<1>1. /\ SizeOf(d) \in Nat /\ SizeOf(d) =< d.back /\ sz > d.back
      /\ BackFree(d) \in Nat /\ d.cap = d.back + BackFree(d)
  <2> HIDE DEF c, oldAt, newAt, m1, m, b
  <2>1. SizeOf(d) \in Nat /\ SizeOf(d) =< d.back
    BY <1>0 DEF SizeOf, Indices
  <2>2. BackFree(d) \in Nat /\ d.cap = d.back + BackFree(d)
    BY <1>0 DEF BackFree, Indices
  <2>3. sz > d.back
    BY DEF FrontCapacity
  <2> QED
    BY <2>1, <2>2, <2>3
<1>2. c \in Size /\ c >= sz + BackFree(d)
  BY <1>1, CapacityFacts
<1>3. c \in Nat
  BY <1>0, <1>2 DEF Size, Indices
<1> HIDE DEF c
<1>4. /\ oldAt \in Nat /\ newAt \in Nat /\ oldAt = newAt + Len(xs)
      /\ b = c /\ newAt =< b /\ SBuf =< c
  <2>1. oldAt \in Nat /\ b = c
    BY <1>0, <1>1, <1>2, <1>3
  <2>2. newAt \in Nat /\ newAt =< c /\ oldAt = newAt + Len(xs)
    BY <1>0, <1>1, <1>2, <1>3
  <2>3. SBuf =< c
    BY <1>0, <1>1, <1>2, <1>3 DEF Indices
  <2> QED
    BY <2>1, <2>2, <2>3
<1> HIDE DEF oldAt, newAt
<1>5. m1 \in Memory /\ \A a \in Address :
        m1[a] # Raw <=> newAt =< a /\ a < newAt + Len(xs)
  BY <1>4, PutObjects, NoObjectsRaw
<1> HIDE DEF m1
<1>6. m \in Memory /\ \A a \in Address :
        m[a] # Raw <=> (oldAt =< a /\ a < oldAt + SizeOf(d)) \/ m1[a] # Raw
  <2>1. oldAt \in Int
    BY <1>4
  <2> QED
    BY <1>5, <2>1, TransferAll
<1> HIDE DEF m
<1>7. ASSUME NEW a \in Address PROVE Held(m, a, newAt, b)
  <2>1. a \in Int
    BY <1>0 DEF Address, Indices
  <2>2. m[a] # Raw <=> \/ oldAt =< a /\ a < oldAt + SizeOf(d)
                       \/ newAt =< a /\ a < newAt + Len(xs)
    BY <1>5, <1>6
  <2> QED
    BY <1>0, <1>1, <1>4, <2>1, <2>2 DEF Held
<1>8. Fits(c, newAt, b, m)
  BY <1>2, <1>3, <1>4, <1>6, <1>7 DEF Fits
<1> QED
  BY <1>8, NewBufferGood DEF ResizeFrontSlowPath, c, oldAt, newAt, m1, m

\* The reallocating path of resize_back.
LEMMA ResizeBackSlowPathGood ==
  ASSUME NEW d, Good(d), NEW sz \in Nat, NEW xs \in Seq(Object),
         SizeOf(d) + Len(xs) = sz, sz > BackCapacity(d),
         sz + FrontFree(d) =< SizeMax, CapacityOk(d, sz + FrontFree(d))
  PROVE  Good(ResizeBackSlowPath(d, sz, xs))
<1> DEFINE c  == CalculateNewCapacity(d, sz + FrontFree(d))
           m1 == Put(NoObjects, d.back, xs)
           m  == Transfer(d.slots, d.front, d.back, m1, d.front)
           b  == d.back + Len(xs)
<1>0. Indices(d) /\ Len(xs) \in Nat
  BY GoodIndices
<1>1. /\ SizeOf(d) = d.back - d.front /\ FrontFree(d) = d.front
      /\ sz + d.front = b /\ b > d.cap
  BY <1>0 DEF SizeOf, FrontFree, BackCapacity, Indices
<1>2. c \in Size /\ c >= sz + FrontFree(d)
  BY <1>0, <1>1, CapacityFacts DEF Indices
<1>3. c \in Nat
  BY <1>0, <1>2 DEF Size, Indices
<1> HIDE DEF c
<1>4. b \in Nat /\ d.front =< b /\ b =< c /\ SBuf =< c
  <2>1. b \in Nat /\ d.front =< b
    BY <1>0 DEF Indices
  <2> HIDE DEF b, m1, m
  <2>2. b =< c
    BY <1>1, <1>2
  <2>3. SBuf \in Nat /\ d.cap \in Nat /\ SBuf =< d.cap /\ d.cap < b
    BY <1>0, <1>1 DEF Indices
  <2>4. SBuf =< c
    BY <1>3, <2>1, <2>2, <2>3
  <2> QED
    BY <2>1, <2>2, <2>4
<1>5. m1 \in Memory /\ \A a \in Address :
        m1[a] # Raw <=> d.back =< a /\ a < d.back + Len(xs)
  BY <1>0, PutObjects, NoObjectsRaw DEF Indices
<1> HIDE DEF m1
<1>6. m \in Memory /\ \A a \in Address :
        m[a] # Raw <=> (d.front =< a /\ a < d.front + SizeOf(d)) \/ m1[a] # Raw
  <2>1. d.front \in Int
    BY <1>0 DEF Indices
  <2> QED
    BY <1>5, <2>1, TransferAll
<1> HIDE DEF m
<1>7. ASSUME NEW a \in Address PROVE Held(m, a, d.front, b)
  <2>1. a \in Int
    BY <1>0 DEF Address, Indices
  <2>2. m[a] # Raw <=> \/ d.front =< a /\ a < d.front + SizeOf(d)
                       \/ d.back =< a /\ a < d.back + Len(xs)
    BY <1>5, <1>6
  <2> QED
    BY <1>0, <1>1, <2>1, <2>2 DEF Indices, Held
<1>8. Fits(c, d.front, b, m)
  BY <1>0, <1>2, <1>4, <1>6, <1>7 DEF Fits, Indices
<1> QED
  BY <1>8, NewBufferGood DEF ResizeBackSlowPath, c, m1, m

\* resize_front, growing and shrinking.
LEMMA ResizeFrontGood ==
  ASSUME NEW d, Good(d), NEW sz \in Nat, NEW x \in Object, ResizeFrontOk(d, sz),
         sz =< FrontCapacity(d) \/ sz + BackFree(d) =< SizeMax
  PROVE  Good(ResizeFront(d, sz, x))
<1> DEFINE xs == Copies(sz - SizeOf(d), x)
<1>0. Indices(d) /\ SizeOf(d) \in Nat
  BY GoodIndices DEF SizeOf, Indices
<1>1. CASE sz =< SizeOf(d)
  <2>1. SizeOf(d) - sz \in Nat /\ SizeOf(d) - sz =< SizeOf(d)
    BY <1>0, <1>1
  <2> QED
    BY <1>1, <2>1, PopFrontGood DEF ResizeFront
<1>2. CASE ~(sz =< SizeOf(d))
  <2>1. xs \in Seq(Object) /\ Len(xs) = sz - SizeOf(d)
    <3>1. sz - SizeOf(d) \in Nat
      BY <1>0, <1>2
    <3> QED
      BY <3>1, SomeCopies
  <2> HIDE DEF xs
  <2>2. CASE sz =< FrontCapacity(d)
    <3>1. Len(xs) =< FrontFree(d)
      BY <1>0, <2>1, <2>2 DEF FrontFree, FrontCapacity, SizeOf, Indices
    <3> QED
      BY <1>2, <2>1, <2>2, <3>1, PutFrontGood DEF ResizeFront, xs
  <2>3. CASE ~(sz =< FrontCapacity(d))
    <3>1. sz > FrontCapacity(d) /\ SizeOf(d) + Len(xs) = sz
      BY <1>0, <2>1, <2>3 DEF FrontCapacity, Indices
    <3>2. sz + BackFree(d) =< SizeMax /\ CapacityOk(d, sz + BackFree(d))
      BY <2>3 DEF ResizeFrontOk
    <3>3. Good(ResizeFrontSlowPath(d, sz, xs))
      BY <2>1, <3>1, <3>2, ResizeFrontSlowPathGood
    <3> QED
      BY <1>2, <2>3, <3>3 DEF ResizeFront, xs
  <2> QED
    BY <2>2, <2>3
<1> QED
  BY <1>1, <1>2

\* resize_back, growing and shrinking.
LEMMA ResizeBackGood ==
  ASSUME NEW d, Good(d), NEW sz \in Nat, NEW x \in Object, ResizeBackOk(d, sz),
         sz =< BackCapacity(d) \/ sz + FrontFree(d) =< SizeMax
  PROVE  Good(ResizeBack(d, sz, x))
<1> DEFINE xs == Copies(sz - SizeOf(d), x)
<1>0. Indices(d) /\ SizeOf(d) \in Nat
  BY GoodIndices DEF SizeOf, Indices
<1>1. CASE sz =< SizeOf(d)
  <2>1. SizeOf(d) - sz \in Nat /\ SizeOf(d) - sz =< SizeOf(d)
    BY <1>0, <1>1
  <2> QED
    BY <1>1, <2>1, PopBackGood DEF ResizeBack
<1>2. CASE ~(sz =< SizeOf(d))
  <2>1. xs \in Seq(Object) /\ Len(xs) = sz - SizeOf(d)
    <3>1. sz - SizeOf(d) \in Nat
      BY <1>0, <1>2
    <3> QED
      BY <3>1, SomeCopies
  <2> HIDE DEF xs
  <2>2. CASE sz =< BackCapacity(d)
    <3>1. Len(xs) =< BackFree(d)
      BY <1>0, <2>1, <2>2 DEF BackFree, BackCapacity, SizeOf, Indices
    <3> QED
      BY <1>2, <2>1, <2>2, <3>1, PutBackGood DEF ResizeBack, xs
  <2>3. CASE ~(sz =< BackCapacity(d))
    <3>1. sz > BackCapacity(d) /\ SizeOf(d) + Len(xs) = sz
      BY <1>0, <2>1, <2>3 DEF BackCapacity, Indices
    <3>2. sz + FrontFree(d) =< SizeMax /\ CapacityOk(d, sz + FrontFree(d))
      BY <2>3 DEF ResizeBackOk
    <3>3. Good(ResizeBackSlowPath(d, sz, xs))
      BY <2>1, <3>1, <3>2, ResizeBackSlowPathGood
    <3> QED
      BY <1>2, <2>3, <3>3 DEF ResizeBack, xs
  <2> QED
    BY <2>2, <2>3
<1> QED
  BY <1>1, <1>2

-----------------------------------------------------------------------------
\* Insertion

\* A part of the elements of a good object.
LEMMA PartLive ==
  ASSUME NEW d, Good(d), NEW lo \in Nat, NEW hi \in Nat,
         d.front =< lo, hi =< d.back
  PROVE  LiveIn(d.slots, lo, hi) /\ hi \in 0 .. MaxSize
<1>1. Indices(d)
  BY GoodIndices
<1>2. ASSUME NEW a \in Address, lo =< a, a < hi PROVE d.slots[a] # Raw
  <2>1. a \in Int
    BY <1>1 DEF Address, Indices
  <2>2. d.front =< a /\ a < d.back
    BY <1>1, <1>2, <2>1 DEF Indices
  <2> QED
    BY <2>2, GoodFacts DEF Held
<1>3. hi \in 0 .. MaxSize
  BY <1>1 DEF Indices
<1> QED
  BY <1>2, <1>3 DEF LiveIn

\* emplace_slow_path towards the free slots at the front.
LEMMA EmplaceNearFrontGood ==
  ASSUME NEW d, Good(d), NEW x \in Object, NEW position \in Nat,
         FrontFree(d) > 0, d.front < position, position =< d.back
  PROVE  Good(EmplaceNearFront(d, position, x))
<1> DEFINE f  == d.front - 1
           m1 == Slide(d.slots, d.front, position, f)
           m  == Put(m1, position - 1, <<x>>)
<1>0. Indices(d) /\ f \in Nat /\ d.slots \in Memory
  BY GoodIndices, GoodFacts DEF FrontFree, Indices
<1>1. m1 \in Memory /\ \A a \in Address :
        m1[a] # Raw <=> (f =< a /\ a < f + (position - d.front)) \/ d.slots[a] # Raw
  <2>1. d.front \in Nat /\ f \in Int
    BY <1>0 DEF Indices
  <2>2. LiveIn(d.slots, d.front, position) /\ position \in 0 .. MaxSize
    BY <1>0, PartLive DEF Indices
  <2> HIDE DEF f
  <2> QED
    BY <1>0, <2>1, <2>2, SlideObjects
<1> HIDE DEF m1
<1>2. m \in Memory /\ \A a \in Address :
        m[a] # Raw <=> (position - 1 =< a /\ a < position - 1 + 1) \/ m1[a] # Raw
  <2>1. position - 1 \in Int
    OBVIOUS
  <2> QED
    BY <1>1, <2>1, OneElement, PutObjects
<1> HIDE DEF m
<1>3. ASSUME NEW a \in Address PROVE Held(m, a, f, d.back)
  <2>1. a \in Int /\ Held(d.slots, a, d.front, d.back)
    BY <1>0, GoodFacts DEF Address, Indices
  <2>2. m[a] # Raw <=> \/ position - 1 =< a /\ a < position - 1 + 1
                       \/ f =< a /\ a < f + (position - d.front)
                       \/ d.slots[a] # Raw
    BY <1>1, <1>2
  <2> QED
    BY <1>0, <2>1, <2>2 DEF Indices, Held
<1>4. Fits(d.cap, f, d.back, m)
  BY <1>0, <1>2, <1>3, SizesAssumption DEF Fits, Indices, Size
<1> QED
  BY <1>4, SameBackGood DEF EmplaceNearFront, m, m1

\* emplace_slow_path towards the free slots at the back.
LEMMA EmplaceNearBackGood ==
  ASSUME NEW d, Good(d), NEW x \in Object, NEW position \in Nat,
         BackFree(d) > 0, d.front =< position, position < d.back
  PROVE  Good(EmplaceNearBack(d, position, x))
<1> DEFINE b  == d.back + 1
           m1 == Slide(d.slots, position, d.back, position + 1)
           m  == Put(m1, position, <<x>>)
<1>0. Indices(d) /\ b =< d.cap /\ d.slots \in Memory
  BY GoodIndices, GoodFacts DEF BackFree, Indices
<1>1. m1 \in Memory /\ \A a \in Address :
        m1[a] # Raw <=> (position + 1 =< a /\ a < position + 1 + (d.back - position))
                        \/ d.slots[a] # Raw
  <2>1. position + 1 \in Int
    OBVIOUS
  <2>2. LiveIn(d.slots, position, d.back) /\ d.back \in 0 .. MaxSize
    BY <1>0, PartLive DEF Indices
  <2> QED
    BY <1>0, <2>1, <2>2, SlideObjects
<1> HIDE DEF m1
<1>2. m \in Memory /\ \A a \in Address :
        m[a] # Raw <=> (position =< a /\ a < position + 1) \/ m1[a] # Raw
  <2>1. position \in Int
    OBVIOUS
  <2> QED
    BY <1>1, <2>1, OneElement, PutObjects
<1> HIDE DEF m
<1>3. ASSUME NEW a \in Address PROVE Held(m, a, d.front, b)
  <2>1. a \in Int /\ Held(d.slots, a, d.front, d.back)
    BY <1>0, GoodFacts DEF Address, Indices
  <2>2. m[a] # Raw <=>
          \/ position =< a /\ a < position + 1
          \/ position + 1 =< a /\ a < position + 1 + (d.back - position)
          \/ d.slots[a] # Raw
    BY <1>1, <1>2
  <2> QED
    BY <1>0, <2>1, <2>2 DEF Indices, Held
<1>4. Fits(d.cap, d.front, b, m)
  <2>1. b \in Nat /\ d.front =< b
    BY <1>0 DEF Indices
  <2> QED
    BY <1>0, <1>2, <1>3, <2>1 DEF Fits, Indices, Size
<1> QED
  BY <1>4, SameFrontGood DEF EmplaceNearBack, m, m1

\* The half of a range insertion that uses the free slots at the front.
LEMMA InsertNearFrontGood ==
  ASSUME NEW d, Good(d), NEW xs \in Seq(Object), NEW position \in Nat,
         Len(xs) =< FrontFree(d), d.front =< position, position =< d.back
  PROVE  Good(InsertNearFront(d, position, xs))
<1> DEFINE f  == d.front - Len(xs)
           m1 == Put(d.slots, f, xs)
           m  == Rotate(m1, f, d.front, position)
<1>0. Indices(d) /\ Len(xs) \in Nat /\ f \in Nat /\ f =< d.front
      /\ f + Len(xs) = d.front /\ d.slots \in Memory
  BY GoodIndices, GoodFacts DEF FrontFree, Indices
<1> HIDE DEF f
<1>1. m1 \in Memory /\ \A a \in Address :
        m1[a] # Raw <=> (f =< a /\ a < f + Len(xs)) \/ d.slots[a] # Raw
  <2>1. f \in Int
    BY <1>0
  <2> QED
    BY <1>0, <2>1, PutObjects
<1> HIDE DEF m1
<1>2. ASSUME NEW a \in Address PROVE Held(m1, a, f, d.back)
  <2>1. a \in Int /\ Held(d.slots, a, d.front, d.back)
    BY <1>0, GoodFacts DEF Address, Indices
  <2>2. m1[a] # Raw <=> \/ f =< a /\ a < f + Len(xs)
                        \/ d.slots[a] # Raw
    BY <1>1
  <2> QED
    BY <1>0, <2>1, <2>2 DEF Indices, Held
<1>3. LiveIn(m1, f, position) /\ position \in 0 .. MaxSize
  <2>1. ASSUME NEW a \in Address, f =< a, a < position PROVE m1[a] # Raw
    <3>1. a \in Int
      BY <1>0 DEF Address, Indices
    <3>2. a < d.back
      BY <1>0, <2>1, <3>1 DEF Indices
    <3> QED
      BY <1>2, <2>1, <3>2 DEF Held
  <2> QED
    BY <1>0, <2>1 DEF LiveIn, Indices
<1>4. m \in Memory /\ \A a \in Address : m[a] # Raw <=> m1[a] # Raw
  <2>1. d.front \in Nat
    BY <1>0 DEF Indices
  <2> QED
    BY <1>0, <1>1, <1>3, <2>1, RotateObjects
<1> HIDE DEF m
<1>5. Fits(d.cap, f, d.back, m)
  <2>1. f =< d.back
    BY <1>0 DEF Indices
  <2> QED
    BY <1>0, <1>2, <1>4, <2>1 DEF Fits, Held, Indices, Size
<1> QED
  BY <1>5, SameBackGood DEF InsertNearFront, m, m1, f

\* The half of a range insertion that uses the free slots at the back.
LEMMA InsertNearBackGood ==
  ASSUME NEW d, Good(d), NEW xs \in Seq(Object), NEW position \in Nat,
         Len(xs) =< BackFree(d), d.front =< position, position =< d.back
  PROVE  Good(InsertNearBack(d, position, xs))
<1> DEFINE b  == d.back + Len(xs)
           m1 == Put(d.slots, d.back, xs)
           m  == Rotate(m1, position, d.back, b)
<1>0. Indices(d) /\ Len(xs) \in Nat /\ b \in Nat /\ b =< d.cap
      /\ b = d.back + Len(xs) /\ d.back =< b /\ d.slots \in Memory
  BY GoodIndices, GoodFacts DEF BackFree, Indices
<1> HIDE DEF b
<1>1. m1 \in Memory /\ \A a \in Address :
        m1[a] # Raw <=> (d.back =< a /\ a < d.back + Len(xs)) \/ d.slots[a] # Raw
  <2>1. d.back \in Int
    BY <1>0 DEF Indices
  <2> QED
    BY <1>0, <2>1, PutObjects
<1> HIDE DEF m1
<1>2. ASSUME NEW a \in Address PROVE Held(m1, a, d.front, b)
  <2>1. a \in Int /\ Held(d.slots, a, d.front, d.back)
    BY <1>0, GoodFacts DEF Address, Indices
  <2>2. m1[a] # Raw <=> \/ d.back =< a /\ a < d.back + Len(xs)
                        \/ d.slots[a] # Raw
    BY <1>1
  <2> QED
    BY <1>0, <2>1, <2>2 DEF Indices, Held
<1>3. LiveIn(m1, position, b) /\ b \in 0 .. MaxSize
  <2>1. ASSUME NEW a \in Address, position =< a, a < b PROVE m1[a] # Raw
    <3>1. a \in Int
      BY <1>0 DEF Address, Indices
    <3>2. d.front =< a
      BY <1>0, <2>1, <3>1 DEF Indices
    <3> QED
      BY <1>2, <2>1, <3>2 DEF Held
  <2> QED
    BY <1>0, <2>1 DEF LiveIn, Indices
<1>4. m \in Memory /\ \A a \in Address : m[a] # Raw <=> m1[a] # Raw
  <2>1. d.back \in Nat
    BY <1>0 DEF Indices
  <2> QED
    BY <1>0, <1>1, <1>3, <2>1, RotateObjects
<1> HIDE DEF m
<1>5. Fits(d.cap, d.front, b, m)
  <2>1. d.front =< b
    BY <1>0 DEF Indices
  <2> QED
    BY <1>0, <1>2, <1>4, <2>1 DEF Fits, Held, Indices, Size
<1> QED
  BY <1>5, SameFrontGood DEF InsertNearBack, m, m1, b

\* The two parts a range insertion cuts the range into.
LEMMA PartsOfRange ==
  ASSUME NEW xs \in Seq(Object), NEW n \in 0 .. Len(xs)
  PROVE  /\ FirstOf(xs, n) \in Seq(Object) /\ Len(FirstOf(xs, n)) = n
         /\ Without(xs, n) \in Seq(Object) /\ Len(Without(xs, n)) = Len(xs) - n
  BY DEF FirstOf, Without

\* A range insertion that uses the free slots on both sides.
LEMMA InsertAroundGood ==
  ASSUME NEW d, Good(d), NEW xs \in Seq(Object), NEW position \in Nat,
         Len(xs) =< FreeSlots(d), d.front =< position, position =< d.back
  PROVE  Good(InsertAround(d, position, xs))
<1> DEFINE nFront == Smaller(FrontFree(d), Len(xs))
           first  == FirstOf(xs, nFront)
           rest   == Without(xs, nFront)
           e      == InsertNearFront(d, position, first)
<1>0. Indices(d) /\ Len(xs) \in Nat
  BY GoodIndices
<1>1. /\ nFront \in 0 .. Len(xs) /\ nFront =< d.front
      /\ Len(xs) - nFront =< d.cap - d.back
  BY <1>0 DEF Smaller, FrontFree, BackFree, FreeSlots, Indices
<1> HIDE DEF nFront
<1>2. /\ first \in Seq(Object) /\ Len(first) = nFront
      /\ rest \in Seq(Object) /\ Len(rest) = Len(xs) - nFront
  BY <1>1, PartsOfRange
<1> HIDE DEF first, rest
<1>3. Good(e)
  <2>1. Len(first) =< FrontFree(d)
    BY <1>1, <1>2 DEF FrontFree
  <2> QED
    BY <1>2, <2>1, InsertNearFrontGood
<1>4. e.cap = d.cap /\ e.back = d.back /\ e.front = d.front - Len(first)
  BY DEF InsertNearFront, Good, DevectorType
<1> HIDE DEF e
<1>5. /\ Len(rest) =< BackFree(e)
      /\ e.front =< position /\ position =< e.back
  <2>1. nFront \in Nat
    BY <1>0, <1>1
  <2> QED
    BY <1>0, <1>1, <1>2, <1>4, <2>1 DEF BackFree, Indices
<1>6. Good(InsertNearBack(e, position, rest))
  BY <1>2, <1>3, <1>5, InsertNearBackGood
<1> QED
  BY <1>6 DEF InsertAround, e, first, rest, nFront

\* emplace, on every one of its paths.
LEMMA EmplaceGood ==
  ASSUME NEW d, Good(d), NEW x \in Object, NEW index \in 0 .. SizeOf(d),
         EmplaceOk(d)
  PROVE  Good(Emplace(d, index, x))
<1>0. /\ Indices(d) /\ index \in Nat /\ index =< d.back - d.front
      /\ d.front + index \in Nat /\ SizeOf(d) = d.back - d.front
  BY GoodIndices DEF SizeOf, Indices
<1>1. CASE index = SizeOf(d) /\ BackFree(d) > 0
  <2>1. Len(<<x>>) =< BackFree(d)
    BY <1>0, <1>1, OneElement DEF BackFree, Indices
  <2> QED
    BY <1>1, <2>1, OneElement, PutBackGood DEF Emplace
<1>2. CASE ~(index = SizeOf(d) /\ BackFree(d) > 0) /\ index = 0 /\ FrontFree(d) > 0
  <2>1. Len(<<x>>) =< FrontFree(d)
    BY <1>0, <1>2, OneElement DEF FrontFree, Indices
  <2> QED
    BY <1>2, <2>1, OneElement, PutFrontGood DEF Emplace
<1>3. CASE /\ ~(index = SizeOf(d) /\ BackFree(d) > 0)
           /\ ~(index = 0 /\ FrontFree(d) > 0)
  <2>1. CASE EmplaceMovesFront(d, index)
    <3>1. FrontFree(d) > 0 /\ index > 0
      BY <1>0, <1>3, <2>1 DEF EmplaceMovesFront
    <3>2. d.front < d.front + index /\ d.front + index =< d.back
      BY <1>0, <3>1 DEF Indices
    <3>3. Good(EmplaceNearFront(d, d.front + index, x))
      BY <1>0, <3>1, <3>2, EmplaceNearFrontGood
    <3> QED
      BY <1>3, <2>1, <3>3 DEF Emplace
  <2>2. CASE ~EmplaceMovesFront(d, index) /\ BackFree(d) > 0
    <3>1. d.front =< d.front + index /\ d.front + index < d.back
      BY <1>0, <1>3, <2>2 DEF Indices
    <3>2. Good(EmplaceNearBack(d, d.front + index, x))
      BY <1>0, <2>2, <3>1, EmplaceNearBackGood
    <3> QED
      BY <1>3, <2>2, <3>2 DEF Emplace
  <2>3. CASE ~EmplaceMovesFront(d, index) /\ ~(BackFree(d) > 0)
    <3>1. ~(FrontFree(d) > 0)
      BY <1>0, <2>3 DEF EmplaceMovesFront, BackFree, Indices
    <3>2. InsertReallocatingOk(d, Len(<<x>>))
      BY <2>3, <3>1, OneElement DEF EmplaceOk
    <3>3. PreferMoveFront(d, index) \in BOOLEAN
      BY DEF PreferMoveFront
    <3>4. Good(InsertReallocating(d, PreferMoveFront(d, index), index, <<x>>))
      BY <3>2, <3>3, OneElement, InsertReallocatingGood
    <3> QED
      BY <1>3, <2>3, <3>4 DEF Emplace
  <2> QED
    BY <2>1, <2>2, <2>3
<1> QED
  BY <1>1, <1>2, <1>3

\* A move that throws leaves an object in the free slot next to the elements, which
\* stay objects.
LEMMA SlideOutGood ==
  ASSUME NEW d, Good(d), NEW lo \in Nat, NEW hi \in Nat, NEW at \in Int, ShiftMayThrow,
         d.front =< lo, lo =< hi, hi =< d.back
  PROVE  Good([d EXCEPT !.slots = Slide(d.slots, lo, hi, at)])
<1> DEFINE m == Slide(d.slots, lo, hi, at)
<1>0. Indices(d) /\ d.slots \in Memory
  BY GoodIndices, GoodFacts
<1>1. m \in Memory /\ \A a \in Address : d.slots[a] # Raw => m[a] # Raw
  <2>1. LiveIn(d.slots, lo, hi) /\ hi \in 0 .. MaxSize
    BY PartLive
  <2> QED
    BY <1>0, <2>1, SlideObjects
<1>2. ASSUME NEW a \in Address PROVE Held(m, a, d.front, d.back)
  BY <1>1, GoodFacts DEF Held
<1> HIDE DEF m
<1>3. Fits(d.cap, d.front, d.back, m)
  BY <1>0, <1>1, <1>2 DEF Fits, Indices, Size
<1> QED
  BY <1>3, SameIndicesGood DEF m

\* A failed emplace did nothing, or lost an object it had already constructed.
LEMMA EmplaceThrewGood ==
  ASSUME NEW d, Good(d), NEW index \in 0 .. SizeOf(d),
         NEW e \in EmplaceThrew(d, index)
  PROVE  Good(e)
<1> DEFINE position == d.front + index
<1>0. /\ Indices(d) /\ index \in Nat /\ index =< d.back - d.front
      /\ position \in Nat /\ SizeOf(d) = d.back - d.front /\ Unspec \in Object
  BY GoodIndices DEF SizeOf, Indices, Object
<1>1. CASE e = d
  BY <1>1
<1>2. CASE /\ ShiftMayThrow /\ EmplaceMovesFront(d, index)
           /\ ~(index = 0 /\ FrontFree(d) > 0)
           /\ \/ \E k \in d.front + 1 .. position - 1 :
                   e = [d EXCEPT !.slots = Slide(@, d.front, k, d.front - 1)]
              \/ e = EmplaceNearFront(d, position, Unspec)
  <2>1. FrontFree(d) > 0 /\ d.front < position /\ position =< d.back
    BY <1>0, <1>2 DEF EmplaceMovesFront, Indices
  <2>2. CASE e = EmplaceNearFront(d, position, Unspec)
    BY <1>0, <2>1, <2>2, EmplaceNearFrontGood
  <2>3. ASSUME NEW k \in d.front + 1 .. position - 1,
               e = [d EXCEPT !.slots = Slide(@, d.front, k, d.front - 1)]
        PROVE  Good(e)
    <3>1. /\ k \in Nat /\ d.front \in Nat /\ d.front - 1 \in Int
          /\ d.front =< d.front /\ d.front =< k /\ k =< d.back
      BY <1>0, <2>1 DEF Indices
    <3> QED
      BY <1>2, <2>3, <3>1, SlideOutGood
  <2> QED
    BY <1>2, <2>2, <2>3
<1>3. CASE /\ ShiftMayThrow /\ BackFree(d) > 0
           /\ ~(index = SizeOf(d) /\ BackFree(d) > 0)
           /\ \/ \E k \in position + 1 .. d.back - 1 :
                   e = [d EXCEPT !.slots = Slide(@, k, d.back, k + 1)]
              \/ e = EmplaceNearBack(d, position, Unspec)
  <2>1. d.front =< position /\ position < d.back
    BY <1>0, <1>3 DEF Indices
  <2>2. CASE e = EmplaceNearBack(d, position, Unspec)
    BY <1>0, <1>3, <2>1, <2>2, EmplaceNearBackGood
  <2>3. ASSUME NEW k \in position + 1 .. d.back - 1,
               e = [d EXCEPT !.slots = Slide(@, k, d.back, k + 1)]
        PROVE  Good(e)
    <3>1. /\ k \in Nat /\ d.back \in Nat /\ k + 1 \in Int
          /\ d.front =< k /\ k =< d.back /\ d.back =< d.back
      BY <1>0, <2>1 DEF Indices
    <3> QED
      BY <1>3, <2>3, <3>1, SlideOutGood
  <2> QED
    BY <1>3, <2>2, <2>3
<1> QED
  BY <1>1, <1>2, <1>3 DEF EmplaceThrew

\* insert of a range, on every one of its paths.
LEMMA InsertRangeGood ==
  ASSUME NEW d, Good(d), NEW xs \in Seq(Object), NEW index \in 0 .. SizeOf(d),
         InsertRangeOk(d, Len(xs)),
         FreeSlots(d) >= Len(xs) \/ d.cap + Len(xs) =< SizeMax
  PROVE  Good(InsertRange(d, index, xs))
<1>0. /\ Indices(d) /\ index \in Nat /\ index =< d.back - d.front
      /\ d.front + index \in Nat /\ Len(xs) \in Nat
      /\ FrontFree(d) \in Nat /\ BackFree(d) \in Nat /\ FreeSlots(d) \in Nat
  <2>1. Indices(d)
    BY GoodIndices
  <2>2. index \in Nat /\ index =< d.back - d.front /\ d.front + index \in Nat
    BY <2>1 DEF SizeOf, Indices
  <2>3. FrontFree(d) \in Nat /\ BackFree(d) \in Nat
    BY <2>1 DEF FrontFree, BackFree, Indices
  <2>4. FreeSlots(d) \in Nat
    BY <2>3 DEF FreeSlots
  <2> QED
    BY <2>1, <2>2, <2>3, <2>4
<1>1. d.front =< d.front + index /\ d.front + index =< d.back
  BY <1>0 DEF Indices
<1>2. CASE index = SizeOf(d) /\ BackFree(d) >= Len(xs)
  <2>1. Len(xs) =< BackFree(d)
    BY <1>0, <1>2
  <2> QED
    BY <1>2, <2>1, PutBackGood DEF InsertRange
<1>3. CASE /\ ~(index = SizeOf(d) /\ BackFree(d) >= Len(xs))
           /\ index = 0 /\ FrontFree(d) >= Len(xs)
  <2>1. /\ Len(xs) =< FrontFree(d) /\ d.front \in Nat
        /\ d.front =< d.front /\ d.front =< d.back
    BY <1>0, <1>3 DEF Indices
  <2> QED
    BY <1>3, <2>1, InsertNearFrontGood DEF InsertRange
<1>4. CASE /\ ~(index = SizeOf(d) /\ BackFree(d) >= Len(xs))
           /\ ~(index = 0 /\ FrontFree(d) >= Len(xs))
           /\ FreeSlots(d) >= Len(xs)
  <2>1. Len(xs) =< FreeSlots(d)
    BY <1>0, <1>4
  <2>2. Good(InsertAround(d, d.front + index, xs))
    BY <1>0, <1>1, <2>1, InsertAroundGood
  <2> QED
    BY <1>4, <2>2 DEF InsertRange
<1>5. CASE /\ ~(index = SizeOf(d) /\ BackFree(d) >= Len(xs))
           /\ ~(index = 0 /\ FrontFree(d) >= Len(xs))
           /\ ~(FreeSlots(d) >= Len(xs))
  <2>1. InsertReallocatingOk(d, Len(xs)) /\ d.cap + Len(xs) =< SizeMax
    BY <1>5 DEF InsertRangeOk
  <2>2. PreferMoveFront(d, index) \in BOOLEAN
    BY DEF PreferMoveFront
  <2>3. Good(InsertReallocating(d, PreferMoveFront(d, index), index, xs))
    BY <2>1, <2>2, InsertReallocatingGood
  <2> QED
    BY <1>5, <2>3 DEF InsertRange
<1> QED
  BY <1>2, <1>3, <1>4, <1>5

\* A rotation that threw leaves the values of objects unspecified, no more.
LEMMA ScrambleGood ==
  ASSUME NEW d, Good(d), NEW lo, NEW hi, ShiftMayThrow
  PROVE  Good([d EXCEPT !.slots = Scramble(d.slots, lo, hi)])
<1> DEFINE m == Scramble(d.slots, lo, hi)
<1>0. Indices(d) /\ d.slots \in Memory
  BY GoodIndices, GoodFacts
<1>1. Unspec \in Slot /\ Unspec # Raw
  BY MarkersAssumption DEF Slot, Object
<1>2. m \in Memory
  BY <1>0, <1>1 DEF Memory, Scramble
<1>3. ASSUME NEW a \in Address PROVE Held(m, a, d.front, d.back)
  <2>1. m[a] = d.slots[a] \/ (m[a] = Unspec /\ ShiftMayThrow)
    BY DEF Scramble
  <2>2. Held(d.slots, a, d.front, d.back)
    BY GoodFacts
  <2> QED
    BY <1>1, <2>1, <2>2 DEF Held
<1> HIDE DEF m
<1>4. Fits(d.cap, d.front, d.back, m)
  BY <1>0, <1>2, <1>3 DEF Fits, Indices, Size
<1> QED
  BY <1>4, SameIndicesGood DEF m

\* A failed range insertion leaves a good object too: the guards destroyed what is not
\* inside the indices.
LEMMA InsertRangeThrewGood ==
  ASSUME NEW d, Good(d), NEW xs \in Seq(Object), NEW index \in 0 .. SizeOf(d),
         NEW e \in InsertRangeThrew(d, index, xs)
  PROVE  Good(e)
<1> DEFINE position == d.front + index
           nFront   == Smaller(FrontFree(d), Len(xs))
           front    == InsertNearFront(d, position, FirstOf(xs, nFront))
<1>0. /\ Indices(d) /\ index \in Nat /\ index =< d.back - d.front
      /\ position \in Nat /\ Len(xs) \in Nat
      /\ FrontFree(d) \in Nat /\ BackFree(d) \in Nat
  BY GoodIndices DEF SizeOf, FrontFree, BackFree, Indices
<1>1. CASE /\ index = SizeOf(d) /\ BackFree(d) >= Len(xs)
           /\ e \in {PutBack(d, FirstOf(xs, k)) : k \in 0 .. Len(xs) - 1}
  <2>1. PICK k \in 0 .. Len(xs) - 1 : e = PutBack(d, FirstOf(xs, k))
    BY <1>1
  <2>2. k \in 0 .. Len(xs) /\ k =< BackFree(d)
    BY <1>0, <1>1
  <2>3. FirstOf(xs, k) \in Seq(Object) /\ Len(FirstOf(xs, k)) = k
    BY <2>2, PartsOfRange
  <2> QED
    BY <2>1, <2>2, <2>3, PutBackGood
<1>2. CASE e = d
  BY <1>2
<1>3. Good(front)
  <2>1. nFront \in 0 .. Len(xs) /\ nFront =< FrontFree(d)
    BY <1>0 DEF Smaller
  <2> HIDE DEF nFront
  <2>2. FirstOf(xs, nFront) \in Seq(Object) /\ Len(FirstOf(xs, nFront)) = nFront
    BY <2>1, PartsOfRange
  <2>3. d.front =< position /\ position =< d.back
    BY <1>0 DEF Indices
  <2> QED
    BY <1>0, <2>1, <2>2, <2>3, InsertNearFrontGood
<1>4. CASE ShiftMayThrow /\ e = [d EXCEPT !.slots = Scramble(@, d.front, position)]
  BY <1>4, ScrambleGood
<1>5. CASE ShiftMayThrow /\ e = [front EXCEPT !.slots = Scramble(@, position, d.back)]
  BY <1>3, <1>5, ScrambleGood
<1> QED
  BY <1>1, <1>2, <1>3, <1>4, <1>5 DEF InsertRangeThrew

-----------------------------------------------------------------------------
\* Erasure and assignment

\* Elements moved over other elements.
LEMMA SlideInsideGood ==
  ASSUME NEW d, Good(d), NEW lo \in Nat, NEW hi \in Nat, NEW at \in Nat,
         d.front =< lo, lo =< hi, hi =< d.back,
         d.front =< at, at + (hi - lo) =< d.back
  PROVE  LET e == [d EXCEPT !.slots = Slide(d.slots, lo, hi, at)]
         IN  Good(e) /\ SizeOf(e) = SizeOf(d)
<1> DEFINE m == Slide(d.slots, lo, hi, at)
<1>0. Indices(d) /\ d.slots \in Memory
  BY GoodIndices, GoodFacts
<1>1. m \in Memory /\ \A a \in Address :
        m[a] # Raw <=> (at =< a /\ a < at + (hi - lo)) \/ d.slots[a] # Raw
  <2>1. LiveIn(d.slots, lo, hi) /\ hi \in 0 .. MaxSize /\ at \in Int
    BY PartLive
  <2> QED
    BY <1>0, <2>1, SlideObjects
<1> HIDE DEF m
<1>2. ASSUME NEW a \in Address PROVE Held(m, a, d.front, d.back)
  <2>1. a \in Int /\ Held(d.slots, a, d.front, d.back)
    BY <1>0, GoodFacts DEF Address, Indices
  <2>2. m[a] # Raw <=> \/ at =< a /\ a < at + (hi - lo)
                       \/ d.slots[a] # Raw
    BY <1>1
  <2> QED
    BY <1>0, <2>1, <2>2 DEF Indices, Held
<1>3. Fits(d.cap, d.front, d.back, m)
  BY <1>0, <1>1, <1>2 DEF Fits, Indices, Size
<1> QED
  BY <1>3, SameIndicesGood DEF m

\* erase, whichever side moves.
LEMMA EraseRangeGood ==
  ASSUME NEW d, Good(d), NEW first \in Nat, NEW last \in Nat,
         d.front =< first, first =< last, last =< d.back
  PROVE  Good(EraseRange(d, first, last))
<1> DEFINE n == last - first
<1>0. Indices(d) /\ n \in Nat /\ n =< SizeOf(d)
  BY GoodIndices DEF SizeOf, Indices
<1>1. CASE EraseMovesFront(d, first, last)
  <2> DEFINE e == [d EXCEPT !.slots = Slide(@, d.front, first, d.front + n)]
  <2>1. Good(e) /\ SizeOf(e) = SizeOf(d)
    <3>1. /\ d.front \in Nat /\ d.front + n \in Nat
          /\ d.front =< d.front /\ d.front =< first /\ first =< d.back
          /\ d.front =< d.front + n
          /\ (d.front + n) + (first - d.front) =< d.back
      BY <1>0 DEF Indices
    <3> QED
      BY <3>1, SlideInsideGood
  <2> HIDE DEF e
  <2>2. Good(PopFront(e, n))
    BY <1>0, <2>1, PopFrontGood
  <2> QED
    BY <1>1, <2>2 DEF EraseRange, e
<1>2. CASE ~EraseMovesFront(d, first, last)
  <2> DEFINE e == [d EXCEPT !.slots = Slide(@, last, d.back, first)]
  <2>1. Good(e) /\ SizeOf(e) = SizeOf(d)
    <3>1. /\ d.back \in Nat
          /\ d.front =< last /\ d.back =< d.back
          /\ first + (d.back - last) =< d.back
      BY <1>0 DEF Indices
    <3> QED
      BY <3>1, SlideInsideGood
  <2> HIDE DEF e
  <2>2. Good(PopBack(e, n))
    BY <1>0, <2>1, PopBackGood
  <2> QED
    BY <1>2, <2>2 DEF EraseRange, e
<1> QED
  BY <1>1, <1>2

\* An erase that threw while it moved elements destroyed nothing.
LEMMA EraseThrewGood ==
  ASSUME NEW d, Good(d), NEW first \in Nat, NEW last \in Nat,
         d.front =< first, first =< last, last =< d.back,
         NEW e \in EraseThrew(d, first, last)
  PROVE  Good(e)
<1> DEFINE n == last - first
<1>0. Indices(d)
  BY GoodIndices
<1>1. ASSUME NEW k \in d.front + 1 .. first,
             e = [d EXCEPT !.slots = Slide(@, k, first, k + n)]
      PROVE  Good(e)
  <2>1. /\ k \in Nat /\ k + n \in Nat /\ d.front =< k /\ k =< first /\ first =< d.back
        /\ d.front =< k + n /\ (k + n) + (first - k) =< d.back
    BY <1>0 DEF Indices
  <2> QED
    BY <1>1, <2>1, SlideInsideGood
<1>2. ASSUME NEW k \in last .. d.back - 1,
             e = [d EXCEPT !.slots = Slide(@, last, k, first)]
      PROVE  Good(e)
  <2>1. /\ k \in Nat /\ d.front =< last /\ last =< k /\ k =< d.back
        /\ first + (k - last) =< d.back
    BY <1>0 DEF Indices
  <2> QED
    BY <1>2, <2>1, SlideInsideGood
<1> QED
  BY <1>1, <1>2 DEF EraseThrew

\* overwrite_buffer, for every overlap of the old and the new elements.
LEMMA OverwriteBufferGood ==
  ASSUME NEW d, Good(d), NEW xs \in Seq(Object), Len(xs) =< d.cap
  PROVE  Good(OverwriteBuffer(d, xs))
<1> DEFINE pos   == Len(xs)
           after == Smaller(Larger(d.front, pos), d.back)
           m1    == Put(d.slots, 0, xs)
           m     == Destroy(m1, after, d.back)
<1>0. Indices(d) /\ pos \in Nat /\ d.slots \in Memory
  BY GoodIndices, GoodFacts
<1>1. /\ after \in Int
      /\ pos < d.front => after = d.front
      /\ d.front =< pos /\ pos =< d.back => after = pos
      /\ d.back < pos => after = d.back
  BY <1>0 DEF Smaller, Larger, Indices
<1> HIDE DEF after
<1>2. m1 \in Memory /\ \A a \in Address :
        m1[a] # Raw <=> (0 =< a /\ a < 0 + pos) \/ d.slots[a] # Raw
  BY <1>0, PutObjects
<1> HIDE DEF m1
<1>3. m \in Memory /\ \A a \in Address :
        m[a] # Raw <=> ~(after =< a /\ a < d.back) /\ m1[a] # Raw
  <2>1. d.back \in Int
    BY <1>0 DEF Indices
  <2> QED
    BY <1>1, <1>2, <2>1, DestroyObjects
<1> HIDE DEF m
<1>4. ASSUME NEW a \in Address PROVE Held(m, a, 0, pos)
  <2>1. a \in Int /\ 0 =< a /\ Held(d.slots, a, d.front, d.back)
    BY <1>0, GoodFacts DEF Address, Indices
  <2>2. m[a] # Raw <=> /\ ~(after =< a /\ a < d.back)
                       /\ \/ 0 =< a /\ a < 0 + pos
                          \/ d.slots[a] # Raw
    BY <1>2, <1>3
  <2> HIDE DEF pos
  <2> QED
    BY <1>0, <1>1, <2>1, <2>2 DEF Indices, Held
<1>5. Fits(d.cap, 0, pos, m)
  BY <1>0, <1>3, <1>4 DEF Fits, Indices, Size
<1> QED
  BY <1>5, SameBufferGood DEF OverwriteBuffer, m, m1, after

\* assign, with and without reallocation.
LEMMA AssignGood ==
  ASSUME NEW d, Good(d), NEW xs \in Seq(Object), AssignOk(d, Len(xs))
  PROVE  Good(Assign(d, xs))
<1>0. Indices(d) /\ Len(xs) \in Nat
  BY GoodIndices
<1>1. CASE d.cap >= Len(xs)
  <2>1. Len(xs) =< d.cap
    BY <1>0, <1>1 DEF Indices
  <2> QED
    BY <1>1, <2>1, OverwriteBufferGood DEF Assign
<1>2. CASE ~(d.cap >= Len(xs))
  <2>1. /\ Put(NoObjects, 0, xs) \in Memory
        /\ \A a \in Address :
             Put(NoObjects, 0, xs)[a] # Raw <=> 0 =< a /\ a < 0 + Len(xs)
    BY PutObjects, NoObjectsRaw
  <2>2. SBuf =< Len(xs) /\ Len(xs) \in Size
    BY <1>0, <1>2 DEF AssignOk, Indices, Size
  <2>3. Fits(Len(xs), 0, Len(xs), Put(NoObjects, 0, xs))
    BY <1>0, <2>1, <2>2 DEF Fits, Held
  <2>4. Good(AllocateAndCopyRange(d, xs))
    BY <2>3, NewBufferGood DEF AllocateAndCopyRange
  <2> QED
    BY <1>2, <2>4 DEF Assign
<1> QED
  BY <1>1, <1>2

\* A failed assign: some elements were assigned to, the guards destroyed the others.
LEMMA AssignThrewGood ==
  ASSUME NEW d, Good(d), NEW xs \in Seq(Object), NEW e \in AssignThrew(d, xs)
  PROVE  Good(e)
<1> DEFINE m(k) == [a \in Address |->
                      IF d.front =< a /\ a < k THEN xs[a + 1] ELSE d.slots[a]]
<1>0. Indices(d) /\ Len(xs) \in Nat /\ d.slots \in Memory
  BY GoodIndices, GoodFacts
<1>1. ASSUME NEW k \in Nat, k =< d.back, k =< Len(xs)
      PROVE  Good([d EXCEPT !.slots = m(k)])
  <2>1. ASSUME NEW a \in Address, d.front =< a, a < k
        PROVE  xs[a + 1] \in Object
    <3>1. a \in Int /\ 0 =< a
      BY <1>0 DEF Address, Indices
    <3>2. a + 1 \in 1 .. Len(xs)
      BY <1>0, <1>1, <2>1, <3>1 DEF Indices
    <3> QED
      BY <3>2
  <2>2. Object \subseteq Slot /\ Raw \notin Object
    BY MarkersAssumption DEF Object, Slot
  <2>3. m(k) \in Memory
    BY <1>0, <2>1, <2>2 DEF Memory
  <2>4. ASSUME NEW a \in Address PROVE Held(m(k), a, d.front, d.back)
    <3>1. a \in Int /\ Held(d.slots, a, d.front, d.back)
      BY <1>0, GoodFacts DEF Address, Indices
    <3>2. m(k)[a] # Raw <=> (d.front =< a /\ a < k) \/ d.slots[a] # Raw
      BY <1>1, <2>1, <2>2, <3>1, <1>0 DEF Held, Indices
    <3> HIDE DEF m
    <3> QED
      BY <1>0, <1>1, <3>1, <3>2 DEF Held, Indices
  <2> HIDE DEF m
  <2>5. Fits(d.cap, d.front, d.back, m(k))
    BY <1>0, <2>3, <2>4 DEF Fits, Indices, Size
  <2> QED
    BY <2>5, SameIndicesGood
<1>2. CASE e = d
  BY <1>2
<1>3. CASE Len(xs) > d.back /\ e = [d EXCEPT !.slots = m(d.back)]
  <2>1. d.back \in Nat /\ d.back =< d.back /\ d.back =< Len(xs)
    BY <1>0, <1>3 DEF Indices
  <2> QED
    BY <1>1, <1>3, <2>1
<1>4. ASSUME NEW k \in d.front .. Smaller(d.back, Len(xs)) - 1,
             e = [d EXCEPT !.slots = m(k)]
      PROVE  Good(e)
  <2>1. k \in Nat /\ k =< d.back /\ k =< Len(xs)
    BY <1>0 DEF Smaller, Indices
  <2> QED
    BY <1>1, <1>4, <2>1
<1> QED
  BY <1>2, <1>3, <1>4 DEF AssignThrew

-----------------------------------------------------------------------------
\* What each operation does to the elements

\* e holds the elements of d, with xs inserted before the one at `index`.
Inserted(d, e, index, xs) ==
  /\ SizeOf(e) = SizeOf(d) + Len(xs)
  /\ \A i \in 0 .. index - 1 : e.slots[e.front + i] = d.slots[d.front + i]
  /\ \A i \in 0 .. Len(xs) - 1 : e.slots[e.front + index + i] = xs[i + 1]
  /\ \A i \in index .. SizeOf(d) - 1 :
       e.slots[e.front + Len(xs) + i] = d.slots[d.front + i]

\* e holds the elements of d without the n from `index` on.
Removed(d, e, index, n) ==
  /\ SizeOf(e) = SizeOf(d) - n
  /\ \A i \in 0 .. index - 1 : e.slots[e.front + i] = d.slots[d.front + i]
  /\ \A i \in index .. SizeOf(e) - 1 :
       e.slots[e.front + i] = d.slots[d.front + n + i]

\* A run of the elements of a sequence.
LEMMA Run ==
  ASSUME NEW S, NEW s \in Seq(S), NEW m \in 0 .. Len(s), NEW n \in m .. Len(s)
  PROVE  /\ SubSeq(s, m + 1, n) \in Seq(S) /\ Len(SubSeq(s, m + 1, n)) = n - m
         /\ \A i \in 1 .. n - m : SubSeq(s, m + 1, n)[i] = s[m + i]
<1>1. Len(s) \in Nat /\ \A i \in m + 1 .. n : s[i] \in S
  OBVIOUS
<1>2. m + 1 \in Int /\ n \in Int
  BY <1>1
<1>3. /\ SubSeq(s, m + 1, n) \in Seq(S)
      /\ Len(SubSeq(s, m + 1, n)) = IF m + 1 =< n THEN n - (m + 1) + 1 ELSE 0
      /\ \A i \in 1 .. n - (m + 1) + 1 : SubSeq(s, m + 1, n)[i] = s[(m + 1) + i - 1]
  BY <1>1, <1>2, SubSeqProperties
<1>4. n - (m + 1) + 1 = n - m
  BY <1>1
<1>5. ASSUME NEW i \in 1 .. n - m PROVE (m + 1) + i - 1 = m + i
  BY <1>1
<1> QED
  BY <1>1, <1>3, <1>4, <1>5

\* A sequence that has the elements of three sequences, in order, is their concatenation.
LEMMA ThreeParts ==
  ASSUME NEW S, NEW a \in Seq(S), NEW b \in Seq(S), NEW c \in Seq(S),
         NEW r \in Seq(S), Len(r) = Len(a) + Len(b) + Len(c),
         \A i \in 1 .. Len(a) : r[i] = a[i],
         \A i \in 1 .. Len(b) : r[Len(a) + i] = b[i],
         \A i \in 1 .. Len(c) : r[Len(a) + Len(b) + i] = c[i]
  PROVE  r = a \o b \o c
<1> DEFINE left == a \o b
<1>1. Len(a) \in Nat /\ Len(b) \in Nat /\ Len(c) \in Nat
  OBVIOUS
<1>2. /\ left \in Seq(S) /\ Len(left) = Len(a) + Len(b)
      /\ \A i \in 1 .. Len(a) + Len(b) :
           left[i] = IF i =< Len(a) THEN a[i] ELSE b[i - Len(a)]
  BY ConcatProperties
<1> HIDE DEF left
<1>3. /\ left \o c \in Seq(S) /\ Len(left \o c) = Len(left) + Len(c)
      /\ \A i \in 1 .. Len(left) + Len(c) :
           (left \o c)[i] = IF i =< Len(left) THEN left[i] ELSE c[i - Len(left)]
  BY <1>2, ConcatProperties
<1> DEFINE all == left \o c
<1> HIDE DEF all
<1>4. ASSUME NEW i \in 1 .. Len(r) PROVE r[i] = all[i]
  <2>1. all[i] = IF i =< Len(a) + Len(b) THEN left[i] ELSE c[i - (Len(a) + Len(b))]
    BY <1>1, <1>2, <1>3 DEF all
  <2>2. CASE i =< Len(a)
    <3>1. i \in 1 .. Len(a) /\ i =< Len(a) + Len(b) /\ i \in 1 .. Len(a) + Len(b)
      BY <1>1, <2>2
    <3>2. r[i] = a[i]
      BY <3>1
    <3>3. all[i] = left[i] /\ left[i] = a[i]
      BY <1>2, <2>1, <2>2, <3>1
    <3> QED
      BY <3>2, <3>3
  <2>3. CASE Len(a) < i /\ i =< Len(a) + Len(b)
    <3>1. i - Len(a) \in 1 .. Len(b) /\ Len(a) + (i - Len(a)) = i
      BY <1>1, <2>3
    <3>2. r[Len(a) + (i - Len(a))] = b[i - Len(a)]
      BY <3>1
    <3>3. all[i] = left[i] /\ left[i] = b[i - Len(a)]
      BY <1>1, <1>2, <2>1, <2>3
    <3> QED
      BY <3>1, <3>2, <3>3
  <2>4. CASE Len(a) + Len(b) < i
    <3>1. /\ i - (Len(a) + Len(b)) \in 1 .. Len(c)
          /\ Len(a) + Len(b) + (i - (Len(a) + Len(b))) = i
      BY <1>1, <2>4
    <3>2. r[Len(a) + Len(b) + (i - (Len(a) + Len(b)))] = c[i - (Len(a) + Len(b))]
      BY <3>1
    <3>3. all[i] = c[i - (Len(a) + Len(b))]
      BY <1>1, <2>1, <2>4
    <3> QED
      BY <3>1, <3>2, <3>3
  <2> QED
    BY <1>1, <2>2, <2>3, <2>4
<1>5. all \in Seq(S) /\ Len(r) = Len(all)
  BY <1>1, <1>2, <1>3 DEF all
<1>6. r = all
  BY <1>4, <1>5, SeqEqual
<1> QED
  BY <1>6 DEF all, left

\* r is s with xs inserted after the first `index` elements.
IsSplice(r, s, index, xs) ==
  /\ Len(r) = Len(s) + Len(xs)
  /\ \A i \in 1 .. index : r[i] = s[i]
  /\ \A i \in 1 .. Len(xs) : r[index + i] = xs[i]
  /\ \A i \in index + 1 .. Len(s) : r[Len(xs) + i] = s[i]

\* r is s without the n elements after the first `index`.
IsCut(r, s, index, n) ==
  /\ Len(r) = Len(s) - n
  /\ \A i \in 1 .. index : r[i] = s[i]
  /\ \A i \in index + 1 .. Len(r) : r[i] = s[n + i]

\* A sequence with other elements in between, as SubSeq gives it.
LEMMA SplicedIs ==
  ASSUME NEW S, NEW s \in Seq(S), NEW xs \in Seq(S), NEW r \in Seq(S),
         NEW index \in 0 .. Len(s), IsSplice(r, s, index, xs)
  PROVE  r = SubSeq(s, 1, index) \o xs \o SubSeq(s, index + 1, Len(s))
<1> DEFINE head == SubSeq(s, 1, index)
           tail == SubSeq(s, index + 1, Len(s))
<1>0. Len(s) \in Nat /\ Len(xs) \in Nat /\ index \in Nat /\ index =< Len(s)
      /\ Len(r) = Len(s) + Len(xs)
  BY DEF IsSplice
<1>1. /\ \A i \in 1 .. index : r[i] = s[i]
      /\ \A i \in 1 .. Len(xs) : r[index + i] = xs[i]
      /\ \A i \in index + 1 .. Len(s) : r[Len(xs) + i] = s[i]
  BY DEF IsSplice
<1>2. head \in Seq(S) /\ Len(head) = index /\ \A i \in 1 .. index : head[i] = s[i]
  <2>1. 0 \in 0 .. Len(s) /\ index \in 0 .. Len(s)
    BY <1>0
  <2>2. /\ SubSeq(s, 0 + 1, index) \in Seq(S)
        /\ Len(SubSeq(s, 0 + 1, index)) = index - 0
        /\ \A i \in 1 .. index - 0 : SubSeq(s, 0 + 1, index)[i] = s[0 + i]
    BY <1>0, <2>1, Run
  <2> QED
    BY <1>0, <2>2
<1>3. /\ tail \in Seq(S) /\ Len(tail) = Len(s) - index
      /\ \A i \in 1 .. Len(s) - index : tail[i] = s[index + i]
  BY <1>0, Run
<1> HIDE DEF head, tail
<1>4. ASSUME NEW i \in 1 .. Len(tail) PROVE r[Len(head) + Len(xs) + i] = tail[i]
  <2>1. index + i \in index + 1 .. Len(s) /\ Len(xs) + (index + i) = index + Len(xs) + i
    BY <1>0, <1>3
  <2> QED
    BY <1>1, <1>2, <1>3, <2>1
<1>5. Len(r) = Len(head) + Len(xs) + Len(tail)
  BY <1>0, <1>2, <1>3
<1>6. /\ \A i \in 1 .. Len(head) : r[i] = head[i]
      /\ \A i \in 1 .. Len(xs) : r[Len(head) + i] = xs[i]
  BY <1>1, <1>2
<1>7. r = head \o xs \o tail
  BY <1>0, <1>2, <1>3, <1>4, <1>5, <1>6, ThreeParts, ZenonT(60)
<1> QED
  BY <1>7 DEF head, tail

\* A sequence without some of its elements.
LEMMA CutIs ==
  ASSUME NEW S, NEW s \in Seq(S), NEW r \in Seq(S), NEW index \in Nat, NEW n \in Nat,
         index + n =< Len(s), IsCut(r, s, index, n)
  PROVE  r = SubSeq(s, 1, index) \o SubSeq(s, index + n + 1, Len(s))
<1> DEFINE head == SubSeq(s, 1, index)
           tail == SubSeq(s, index + n + 1, Len(s))
<1>0. Len(s) \in Nat /\ Len(r) \in Nat /\ Len(r) = Len(s) - n
  BY DEF IsCut
<1>1. /\ \A i \in 1 .. index : r[i] = s[i]
      /\ \A i \in index + 1 .. Len(r) : r[i] = s[n + i]
  BY DEF IsCut
<1>2. head \in Seq(S) /\ Len(head) = index /\ \A i \in 1 .. index : head[i] = s[i]
  <2>1. 0 \in 0 .. Len(s) /\ index \in 0 .. Len(s)
    BY <1>0
  <2>2. /\ SubSeq(s, 0 + 1, index) \in Seq(S)
        /\ Len(SubSeq(s, 0 + 1, index)) = index - 0
        /\ \A i \in 1 .. index - 0 : SubSeq(s, 0 + 1, index)[i] = s[0 + i]
    BY <1>0, <2>1, Run
  <2> QED
    BY <1>0, <2>2
<1>3. /\ tail \in Seq(S) /\ Len(tail) = Len(s) - (index + n)
      /\ \A i \in 1 .. Len(s) - (index + n) : tail[i] = s[index + n + i]
  <2>1. index + n \in 0 .. Len(s) /\ Len(s) \in index + n .. Len(s)
    BY <1>0
  <2> QED
    BY <1>0, <2>1, Run
<1> HIDE DEF head, tail
<1> DEFINE all == head \o tail
<1>4. /\ all \in Seq(S) /\ Len(all) = Len(r)
      /\ \A i \in 1 .. Len(r) : all[i] = IF i =< index THEN head[i] ELSE tail[i - index]
  <2>1. Len(head) + Len(tail) = Len(r)
    BY <1>0, <1>2, <1>3
  <2>2. head \in Seq(S) /\ tail \in Seq(S)
    BY <1>2, <1>3
  <2>3. /\ all \in Seq(S) /\ Len(all) = Len(head) + Len(tail)
        /\ \A i \in 1 .. Len(head) + Len(tail) :
             all[i] = IF i =< Len(head) THEN head[i] ELSE tail[i - Len(head)]
    BY <2>2, ConcatProperties, Zenon
  <2> HIDE DEF all
  <2> QED
    BY <1>2, <2>1, <2>3
<1> HIDE DEF all
<1>5. ASSUME NEW i \in 1 .. Len(r) PROVE r[i] = all[i]
  <2>1. CASE i =< index
    <3>1. i \in 1 .. index
      BY <2>1
    <3>2. all[i] = head[i]
      BY <1>4, <2>1
    <3> QED
      BY <1>1, <1>2, <3>1, <3>2
  <2>2. CASE index < i
    <3>1. /\ i \in index + 1 .. Len(r) /\ i - index \in 1 .. Len(s) - (index + n)
          /\ index + n + (i - index) = n + i
      BY <1>0, <2>2
    <3>2. ~(i =< index)
      BY <2>2
    <3>3. all[i] = tail[i - index]
      BY <1>4, <3>2
    <3> QED
      BY <1>1, <1>3, <3>1, <3>3
  <2> QED
    BY <2>1, <2>2
<1>6. r = all
  BY <1>0, <1>4, <1>5, SeqEqual
<1> QED
  BY <1>6 DEF all, head, tail

\* At the ends these are a concatenation and a prefix.
LEMMA EndParts ==
  ASSUME NEW S, NEW s \in Seq(S), NEW xs \in Seq(S)
  PROVE  /\ SubSeq(s, 1, 0) \o xs \o SubSeq(s, 0 + 1, Len(s)) = xs \o s
         /\ SubSeq(s, 1, Len(s)) \o xs \o SubSeq(s, Len(s) + 1, Len(s)) = s \o xs
         /\ SubSeq(s, 1, Len(s)) = s
<1>1. Len(s) \in Nat /\ 0 + 1 = 1
  OBVIOUS
<1>2. SubSeq(s, 1, 0) = << >> /\ SubSeq(s, Len(s) + 1, Len(s)) = << >>
  BY <1>1, SubSeqEmpty
<1>3. SubSeq(s, 1, Len(s)) = s
  BY SubSeqFull
<1>4. << >> \o xs = xs /\ (s \o xs) \o << >> = s \o xs
  BY ConcatEmptySeq, ConcatProperties
<1> QED
  BY <1>1, <1>2, <1>3, <1>4

LEMMA Prefix ==
  ASSUME NEW S, NEW s \in Seq(S), NEW n \in 0 .. Len(s)
  PROVE  SubSeq(s, 1, n) \o SubSeq(s, n + (Len(s) - n) + 1, Len(s)) = SubSeq(s, 1, n)
<1>1. Len(s) \in Nat /\ n + (Len(s) - n) + 1 = Len(s) + 1 /\ 0 \in 0 .. Len(s) /\ 0 + 1 = 1
  OBVIOUS
<1>2. SubSeq(s, n + (Len(s) - n) + 1, Len(s)) = << >>
  BY <1>1, SubSeqEmpty
<1>3. SubSeq(s, 1, n) \in Seq(S)
  <2>1. n \in 0 .. Len(s) /\ SubSeq(s, 0 + 1, n) \in Seq(S)
    BY <1>1, Run
  <2> QED
    BY <1>1, <2>1
<1> QED
  BY <1>2, <1>3, ConcatEmptySeq

\* The elements of a good object are a sequence of objects.
LEMMA ContentsSeq ==
  ASSUME NEW d, Good(d)
  PROVE  /\ Contents(d) \in Seq(Object) /\ Len(Contents(d)) = SizeOf(d)
         /\ SizeOf(d) \in Nat
         /\ \A i \in 1 .. SizeOf(d) : Contents(d)[i] = d.slots[d.front + i - 1]
<1>0. Indices(d) /\ SizeOf(d) \in Nat
  BY GoodIndices DEF SizeOf, Indices
<1>1. ASSUME NEW i \in 1 .. SizeOf(d) PROVE d.slots[d.front + i - 1] \in Object
  <2>1. /\ d.front + i - 1 \in Address
        /\ d.front =< d.front + i - 1 /\ d.front + i - 1 < d.back
    BY <1>0 DEF SizeOf, Address, Indices
  <2> QED
    BY <2>1, GoodFacts DEF Held, Memory, Slot
<1>2. Contents(d) \in [1 .. SizeOf(d) -> Object]
  BY <1>1 DEF Contents
<1> QED
  BY <1>0, <1>2 DEF Contents

\* What a slot holds after the operations on memory.
LEMMA PutReads ==
  ASSUME NEW s, NEW at \in Int, NEW xs \in Seq(Object)
  PROVE  /\ \A i \in 0 .. Len(xs) - 1 :
              at + i \in Address => Put(s, at, xs)[at + i] = xs[i + 1]
         /\ \A a \in Address :
              a < at \/ at + Len(xs) =< a => Put(s, at, xs)[a] = s[a]
<1>1. Len(xs) \in Nat /\ \A a \in Address : a \in Int
  BY SizesAssumption DEF Address
<1>2. ASSUME NEW i \in 0 .. Len(xs) - 1, at + i \in Address
      PROVE  Put(s, at, xs)[at + i] = xs[i + 1]
  <2>1. at =< at + i /\ at + i < at + Len(xs) /\ (at + i) - at + 1 = i + 1
    BY <1>1, <1>2
  <2> QED
    BY <1>2, <2>1 DEF Put
<1>3. ASSUME NEW a \in Address, a < at \/ at + Len(xs) =< a
      PROVE  Put(s, at, xs)[a] = s[a]
  BY <1>1, <1>3 DEF Put
<1> QED
  BY <1>2, <1>3

LEMMA PutOneReads ==
  ASSUME NEW s, NEW at \in Int, NEW x \in Object
  PROVE  /\ at \in Address => Put(s, at, <<x>>)[at] = x
         /\ \A a \in Address : a < at \/ at + 1 =< a => Put(s, at, <<x>>)[a] = s[a]
<1> DEFINE xs == <<x>>
<1>1. xs \in Seq(Object) /\ Len(xs) = 1 /\ xs[1] = x
  BY OneElement
<1> HIDE DEF xs
<1>2. \A a \in Address : a \in Int
  BY SizesAssumption DEF Address
<1>3. ASSUME at \in Address PROVE Put(s, at, xs)[at] = x
  <2>1. at =< at /\ at < at + Len(xs) /\ at - at + 1 = 1
    BY <1>1
  <2> QED
    BY <1>1, <1>3, <2>1 DEF Put
<1>4. ASSUME NEW a \in Address, a < at \/ at + 1 =< a
      PROVE  Put(s, at, xs)[a] = s[a]
  BY <1>1, <1>2, <1>4 DEF Put
<1> QED
  BY <1>3, <1>4 DEF xs

LEMMA TransferReads ==
  ASSUME NEW src, NEW lo \in Int, NEW hi \in Int, NEW dst, NEW at \in Int
  PROVE  /\ \A i \in 0 .. hi - lo - 1 :
              at + i \in Address => Transfer(src, lo, hi, dst, at)[at + i] = src[lo + i]
         /\ \A a \in Address :
              a < at \/ at + (hi - lo) =< a => Transfer(src, lo, hi, dst, at)[a] = dst[a]
<1>1. \A a \in Address : a \in Int
  BY SizesAssumption DEF Address
<1>2. ASSUME NEW i \in 0 .. hi - lo - 1, at + i \in Address
      PROVE  Transfer(src, lo, hi, dst, at)[at + i] = src[lo + i]
  <2>1. at =< at + i /\ at + i < at + (hi - lo) /\ lo + ((at + i) - at) = lo + i
    BY <1>1, <1>2
  <2> QED
    BY <1>2, <2>1 DEF Transfer
<1>3. ASSUME NEW a \in Address, a < at \/ at + (hi - lo) =< a
      PROVE  Transfer(src, lo, hi, dst, at)[a] = dst[a]
  BY <1>1, <1>3 DEF Transfer
<1> QED
  BY <1>2, <1>3

LEMMA SlideReads ==
  ASSUME NEW s, NEW lo \in Int, NEW hi \in Int, NEW at \in Int, at # lo
  PROVE  /\ \A i \in 0 .. hi - lo - 1 :
              at + i \in Address => Slide(s, lo, hi, at)[at + i] = s[lo + i]
         /\ \A a \in Address :
              /\ a < at \/ at + (hi - lo) =< a
              /\ a < lo \/ hi =< a
              => Slide(s, lo, hi, at)[a] = s[a]
<1>1. \A a \in Address : a \in Int
  BY SizesAssumption DEF Address
<1>2. ASSUME NEW i \in 0 .. hi - lo - 1, at + i \in Address
      PROVE  Slide(s, lo, hi, at)[at + i] = s[lo + i]
  <2>1. at =< at + i /\ at + i < at + (hi - lo) /\ lo + ((at + i) - at) = lo + i
    BY <1>1, <1>2
  <2> QED
    BY <1>2, <2>1 DEF Slide
<1>3. ASSUME NEW a \in Address, a < at \/ at + (hi - lo) =< a, a < lo \/ hi =< a
      PROVE  Slide(s, lo, hi, at)[a] = s[a]
  BY <1>1, <1>3 DEF Slide
<1> QED
  BY <1>2, <1>3

LEMMA RotateReads ==
  ASSUME NEW s, NEW lo \in Int, NEW mid \in Int, NEW hi \in Int, lo =< mid, mid =< hi
  PROVE  /\ \A i \in 0 .. hi - mid - 1 :
              lo + i \in Address => Rotate(s, lo, mid, hi)[lo + i] = s[mid + i]
         /\ \A i \in 0 .. mid - lo - 1 :
              lo + (hi - mid) + i \in Address =>
                Rotate(s, lo, mid, hi)[lo + (hi - mid) + i] = s[lo + i]
         /\ \A a \in Address : a < lo \/ hi =< a => Rotate(s, lo, mid, hi)[a] = s[a]
<1>1. \A a \in Address : a \in Int
  BY SizesAssumption DEF Address
<1>2. ASSUME NEW i \in 0 .. hi - mid - 1, lo + i \in Address
      PROVE  Rotate(s, lo, mid, hi)[lo + i] = s[mid + i]
  <2>1. /\ lo =< lo + i /\ lo + i < hi
        /\ (lo + i) + (mid - lo) < hi /\ (lo + i) + (mid - lo) = mid + i
    BY <1>1, <1>2
  <2> QED
    BY <1>2, <2>1 DEF Rotate
<1>3. ASSUME NEW i \in 0 .. mid - lo - 1, lo + (hi - mid) + i \in Address
      PROVE  Rotate(s, lo, mid, hi)[lo + (hi - mid) + i] = s[lo + i]
  <2> DEFINE a == lo + (hi - mid) + i
  <2>1. /\ lo =< a /\ a < hi /\ ~(a + (mid - lo) < hi) /\ a - (hi - mid) = lo + i
    BY <1>1, <1>3
  <2> HIDE DEF a
  <2>2. Rotate(s, lo, mid, hi)[a] = s[a - (hi - mid)]
    BY <1>3, <2>1 DEF Rotate, a
  <2> QED
    BY <2>1, <2>2 DEF a
<1>4. ASSUME NEW a \in Address, a < lo \/ hi =< a
      PROVE  Rotate(s, lo, mid, hi)[a] = s[a]
  BY <1>1, <1>4 DEF Rotate
<1> QED
  BY <1>2, <1>3, <1>4

\* The slots of the elements.
LEMMA SlotOf ==
  ASSUME NEW d, Good(d), NEW i \in 0 .. SizeOf(d) - 1
  PROVE  d.front + i \in Address /\ d.front =< d.front + i /\ d.front + i < d.back
<1>1. Indices(d)
  BY GoodIndices
<1>2. i \in 0 .. d.back - d.front - 1
  BY DEF SizeOf
<1>3. d.front + i \in Nat /\ d.front + i < d.back /\ d.front =< d.front + i
  BY <1>1, <1>2 DEF Indices
<1>4. d.front + i =< MaxSize - 1
  BY <1>1, <1>3 DEF Indices
<1> QED
  BY <1>1, <1>3, <1>4 DEF Indices, Address

\* Constructing elements in front of the first.
LEMMA PutFrontInserted ==
  ASSUME NEW d, Good(d), NEW xs \in Seq(Object), Len(xs) =< FrontFree(d)
  PROVE  Inserted(d, PutFront(d, xs), 0, xs)
<1> DEFINE e == PutFront(d, xs)
           n == Len(xs)
           f == d.front - n
<1>1. /\ Indices(d) /\ n \in Nat /\ f \in Nat /\ f + n = d.front
      /\ SizeOf(d) = d.back - d.front
  BY GoodIndices DEF FrontFree, SizeOf, Indices
<1>2. e.front = f /\ e.slots = Put(d.slots, f, xs) /\ SizeOf(e) = SizeOf(d) + n
  BY <1>1 DEF PutFront, Good, DevectorType, SizeOf, Indices
<1>3. /\ \A i \in 0 .. n - 1 : f + i \in Address => e.slots[f + i] = xs[i + 1]
      /\ \A a \in Address : a < f \/ f + n =< a => e.slots[a] = d.slots[a]
  <2>1. f \in Int
    BY <1>1
  <2> HIDE DEF f, e
  <2> QED
    BY <1>2, <2>1, PutReads
<1> HIDE DEF e, f, n
<1>4. ASSUME NEW i \in 0 .. n - 1 PROVE e.slots[e.front + 0 + i] = xs[i + 1]
  <2>1. f + i \in Address /\ f + 0 + i = f + i
    BY <1>1 DEF Indices, Address
  <2> QED
    BY <1>2, <1>3, <2>1
<1>5. ASSUME NEW i \in 0 .. SizeOf(d) - 1
      PROVE  e.slots[e.front + n + i] = d.slots[d.front + i]
  <2>1. d.front + i \in Address /\ d.front =< d.front + i
    BY SlotOf
  <2> QED
    BY <1>1, <1>2, <1>3, <2>1
<1> QED
  BY <1>2, <1>4, <1>5 DEF Inserted, e, n

\* Constructing elements behind the last.
LEMMA PutBackInserted ==
  ASSUME NEW d, Good(d), NEW xs \in Seq(Object), Len(xs) =< BackFree(d)
  PROVE  Inserted(d, PutBack(d, xs), SizeOf(d), xs)
<1> DEFINE e == PutBack(d, xs)
           n == Len(xs)
<1>1. /\ Indices(d) /\ n \in Nat /\ d.back + n =< d.cap /\ d.back \in Int
      /\ SizeOf(d) = d.back - d.front
  BY GoodIndices DEF BackFree, SizeOf, Indices
<1>2. e.front = d.front /\ e.slots = Put(d.slots, d.back, xs) /\ SizeOf(e) = SizeOf(d) + n
  BY <1>1 DEF PutBack, Good, DevectorType, SizeOf, Indices
<1>3. /\ \A i \in 0 .. n - 1 : d.back + i \in Address => e.slots[d.back + i] = xs[i + 1]
      /\ \A a \in Address : a < d.back \/ d.back + n =< a => e.slots[a] = d.slots[a]
  BY <1>1, <1>2, PutReads
<1> HIDE DEF e, n
<1>4. ASSUME NEW i \in 0 .. n - 1 PROVE e.slots[e.front + SizeOf(d) + i] = xs[i + 1]
  <2>1. d.back + i \in Nat /\ d.back + i =< MaxSize - 1
    BY <1>1, SMTT(30) DEF Indices
  <2>2. d.front + SizeOf(d) + i = d.back + i
    BY <1>1 DEF Indices
  <2>3. d.back + i \in Address
    BY <1>1, <2>1 DEF Indices, Address
  <2> QED
    BY <1>2, <1>3, <2>2, <2>3
<1>5. ASSUME NEW i \in 0 .. SizeOf(d) - 1
      PROVE  e.slots[e.front + i] = d.slots[d.front + i]
  <2>1. d.front + i \in Address /\ d.front + i < d.back
    BY SlotOf
  <2> QED
    BY <1>2, <1>3, <2>1
<1>6. SizeOf(d) \in Nat
  BY <1>1 DEF Indices
<1>7. \A i \in SizeOf(d) .. SizeOf(d) - 1 : FALSE
  BY <1>6
<1> QED
  BY <1>2, <1>4, <1>5, <1>7 DEF Inserted, e, n

\* In a new buffer: first the new elements, then the two halves around them.
LEMMA InsertReallocatingInserted ==
  ASSUME NEW d, Good(d), NEW makeFrontFree \in BOOLEAN,
         NEW index \in 0 .. SizeOf(d), NEW xs \in Seq(Object),
         InsertReallocatingOk(d, Len(xs)),
         Len(xs) = 1 \/ d.cap + Len(xs) =< SizeMax
  PROVE  Inserted(d, InsertReallocating(d, makeFrontFree, index, xs), index, xs)
<1> DEFINE e == InsertReallocating(d, makeFrontFree, index, xs)
           n == Len(xs)
           f == e.front
           old == d.front + index
           new == Put(NoObjects, f + index, xs)
           half == Transfer(d.slots, d.front, old, new, f)
<1>1. /\ Indices(d) /\ n \in Nat /\ index \in Nat /\ SizeOf(d) \in Nat
      /\ SizeOf(d) = d.back - d.front /\ d.front \in Nat /\ d.back \in Nat
  BY GoodIndices DEF SizeOf, Indices
<1>2. Good(e)
  BY InsertReallocatingGood
<1>3. f \in Nat
  BY <1>2, GoodIndices DEF Indices
<1>4. /\ e.slots = Transfer(d.slots, old, d.back, half, f + index + n)
      /\ e.back = f + SizeOf(d) + n
  BY DEF InsertReallocating
<1>5. SizeOf(e) = SizeOf(d) + n
  <2> HIDE DEF e, n
  <2> QED
    BY <1>1, <1>3, <1>4 DEF SizeOf
<1>6. /\ \A i \in 0 .. d.back - old - 1 :
           f + index + n + i \in Address => e.slots[f + index + n + i] = d.slots[old + i]
      /\ \A a \in Address : a < f + index + n => e.slots[a] = half[a]
  <2>1. f + index + n \in Int /\ old \in Int /\ d.back \in Int
    BY <1>1, <1>3
  <2> HIDE DEF e, n, f, old, half
  <2> QED
    BY <1>4, <2>1, TransferReads
<1>7. /\ \A i \in 0 .. index - 1 : f + i \in Address => half[f + i] = d.slots[d.front + i]
      /\ \A a \in Address : f + index =< a => half[a] = new[a]
  <2>1. f \in Int /\ old \in Int /\ d.front \in Int /\ old - d.front = index
    BY <1>1, <1>3
  <2> HIDE DEF e, n, f, old, new
  <2>2. /\ \A i \in 0 .. old - d.front - 1 :
              f + i \in Address => half[f + i] = d.slots[d.front + i]
        /\ \A a \in Address : f + (old - d.front) =< a => half[a] = new[a]
    BY <2>1, TransferReads
  <2> QED
    BY <2>1, <2>2
<1>8. \A i \in 0 .. n - 1 :
        f + index + i \in Address => new[f + index + i] = xs[i + 1]
  <2>1. f + index \in Int
    BY <1>1, <1>3
  <2> HIDE DEF e, f
  <2> QED
    BY <2>1, PutReads
<1> HIDE DEF e, n, f, new, half
<1>9. ASSUME NEW i \in 0 .. index - 1 PROVE e.slots[e.front + i] = d.slots[d.front + i]
  <2>1. i \in 0 .. SizeOf(e) - 1 /\ f + i < f + index + n
    BY <1>1, <1>3, <1>5
  <2>2. f + i \in Address
    BY <1>2, <2>1, SlotOf DEF f
  <2> QED
    BY <1>6, <1>7, <2>1, <2>2 DEF f
<1>10. ASSUME NEW i \in 0 .. n - 1 PROVE e.slots[e.front + index + i] = xs[i + 1]
  <2>1. /\ index + i \in 0 .. SizeOf(e) - 1 /\ f + (index + i) = f + index + i
        /\ f + index + i < f + index + n /\ f + index =< f + index + i
    BY <1>1, <1>3, <1>5
  <2>2. f + index + i \in Address
    BY <1>2, <2>1, SlotOf DEF f
  <2> QED
    BY <1>6, <1>7, <1>8, <2>1, <2>2 DEF f
<1>11. ASSUME NEW i \in index .. SizeOf(d) - 1
       PROVE  e.slots[e.front + n + i] = d.slots[d.front + i]
  <2>1. n + i \in 0 .. SizeOf(e) - 1 /\ i - index \in Nat
    BY <1>1, <1>3, <1>5
  <2>2. f + (n + i) = f + index + n + (i - index) /\ f + n + i = f + (n + i)
    BY <1>1, <1>3
  <2>3. d.back - old - 1 = SizeOf(d) - index - 1 /\ old + (i - index) = d.front + i
    BY <1>1
  <2>4. i - index \in 0 .. d.back - old - 1
    BY <1>1, <2>1, <2>3
  <2>5. f + index + n + (i - index) \in Address
    BY <1>2, <2>1, <2>2, SlotOf DEF f
  <2>6. e.slots[f + index + n + (i - index)] = d.slots[old + (i - index)]
    BY <1>6, <2>4, <2>5
  <2> QED
    BY <2>2, <2>3, <2>6 DEF f
<1> QED
  BY <1>5, <1>9, <1>10, <1>11 DEF Inserted, e, n

\* Moved to another place or another buffer, the elements are the same sequence.
LEMMA MovedContents ==
  ASSUME NEW d, Good(d), NEW e, Good(e), SizeOf(e) = SizeOf(d),
         e.slots = Transfer(d.slots, d.front, d.back, NoObjects, e.front)
  PROVE  Contents(e) = Contents(d)
<1>1. /\ d.front \in Nat /\ d.back \in Nat /\ e.front \in Nat
      /\ SizeOf(d) = d.back - d.front /\ SizeOf(d) \in Nat
  BY GoodIndices DEF SizeOf, Indices
<1>2. \A i \in 0 .. d.back - d.front - 1 :
        e.front + i \in Address => e.slots[e.front + i] = d.slots[d.front + i]
  BY <1>1, TransferReads
<1>3. ASSUME NEW i \in 1 .. SizeOf(d)
      PROVE  e.slots[e.front + i - 1] = d.slots[d.front + i - 1]
  <2>1. i - 1 \in 0 .. SizeOf(e) - 1 /\ i - 1 \in 0 .. d.back - d.front - 1
    BY <1>1
  <2>2. e.front + (i - 1) \in Address
    BY <2>1, SlotOf
  <2>3. e.front + (i - 1) = e.front + i - 1 /\ d.front + (i - 1) = d.front + i - 1
    BY <1>1
  <2> QED
    BY <1>2, <2>1, <2>2, <2>3
<1> QED
  BY <1>3 DEF Contents

LEMMA ReallocateAtContents ==
  ASSUME NEW d, Good(d), NEW c \in Size, NEW offset \in Nat,
         SBuf =< c, offset + SizeOf(d) =< c
  PROVE  Contents(ReallocateAt(d, c, offset)) = Contents(d)
<1> DEFINE e == ReallocateAt(d, c, offset)
<1>1. Good(e)
  BY ReallocateAtGood
<1>2. e.slots = Transfer(d.slots, d.front, d.back, NoObjects, e.front)
  BY DEF ReallocateAt
<1>3. e.front = offset /\ e.back = offset + SizeOf(d) /\ SizeOf(d) \in Nat
  BY ContentsSeq DEF ReallocateAt
<1> HIDE DEF e
<1>4. SizeOf(e) = SizeOf(d)
  BY <1>3 DEF SizeOf
<1> QED
  BY <1>1, <1>2, <1>4, MovedContents DEF e

\* One element in the free slot before the first, all before `position` one down.
LEMMA EmplaceNearFrontInserted ==
  ASSUME NEW d, Good(d), NEW x \in Object, NEW index \in 1 .. SizeOf(d),
         FrontFree(d) > 0
  PROVE  Inserted(d, EmplaceNearFront(d, d.front + index, x), index, <<x>>)
<1> DEFINE position == d.front + index
           e == EmplaceNearFront(d, position, x)
           f == d.front - 1
           slid == Slide(d.slots, d.front, position, f)
<1>1. /\ Indices(d) /\ index \in Nat /\ SizeOf(d) \in Nat /\ SizeOf(d) = d.back - d.front
      /\ d.front \in Nat /\ d.back \in Nat /\ f \in Nat /\ position \in Nat
      /\ d.front < position /\ position =< d.back
  BY GoodIndices DEF SizeOf, FrontFree, Indices
<1>2. Good(e)
  BY <1>1, EmplaceNearFrontGood
<1>3. /\ e.slots = Put(slid, position - 1, <<x>>) /\ e.front = f
      /\ SizeOf(e) = SizeOf(d) + 1
  BY <1>1 DEF EmplaceNearFront, Good, DevectorType, SizeOf
<1>4. /\ position - 1 \in Address => e.slots[position - 1] = x
      /\ \A a \in Address : a < position - 1 \/ position =< a => e.slots[a] = slid[a]
  <2>1. position - 1 \in Int /\ position - 1 + 1 = position
    BY <1>1
  <2> HIDE DEF e, position, slid
  <2> QED
    BY <1>3, <2>1, PutOneReads
<1>5. /\ \A i \in 0 .. index - 1 : f + i \in Address => slid[f + i] = d.slots[d.front + i]
      /\ \A a \in Address : position =< a => slid[a] = d.slots[a]
  <2>1. /\ d.front \in Int /\ position \in Int /\ f \in Int /\ f # d.front
        /\ position - d.front = index
    BY <1>1
  <2>2. \A a \in Address : a \in Int /\ (position =< a => f + (position - d.front) =< a)
    BY <1>1 DEF Address, Indices
  <2> HIDE DEF position, f
  <2>3. /\ \A i \in 0 .. position - d.front - 1 :
              f + i \in Address => slid[f + i] = d.slots[d.front + i]
        /\ \A a \in Address :
              /\ a < f \/ f + (position - d.front) =< a
              /\ a < d.front \/ position =< a
              => slid[a] = d.slots[a]
    BY <2>1, SlideReads
  <2> QED
    BY <2>1, <2>2, <2>3
<1> HIDE DEF e, f, slid, position
<1>6. ASSUME NEW i \in 0 .. index - 1 PROVE e.slots[e.front + i] = d.slots[d.front + i]
  <2>1. i \in 0 .. SizeOf(e) - 1
    BY <1>1, <1>3
  <2>2. f + i \in Address /\ f + i < position - 1
    BY <1>1, <1>2, <1>3, <2>1, SlotOf DEF f, position
  <2> QED
    BY <1>3, <1>4, <1>5, <2>2
<1>7. e.slots[e.front + index + 0] = x
  <2>1. index \in 0 .. SizeOf(e) - 1
    BY <1>1, <1>3
  <2>2. e.front + index \in Address
    BY <1>2, <2>1, SlotOf
  <2>3. e.front + index = position - 1 /\ e.front + index + 0 = position - 1
    BY <1>1, <1>3 DEF position, f
  <2> QED
    BY <1>4, <2>2, <2>3
<1>8. ASSUME NEW i \in index .. SizeOf(d) - 1
      PROVE  e.slots[e.front + 1 + i] = d.slots[d.front + i]
  <2>1. i \in 0 .. SizeOf(d) - 1
    BY <1>1
  <2>2. d.front + i \in Address /\ position =< d.front + i
    BY <1>1, <2>1, SlotOf DEF position
  <2>3. e.front + 1 + i = d.front + i
    BY <1>1, <1>3 DEF f
  <2> QED
    BY <1>4, <1>5, <2>2, <2>3
<1>9. Len(<<x>>) = 1 /\ \A i \in 0 .. 1 - 1 : i = 0 /\ <<x>>[i + 1] = x
  BY OneElement
<1> QED
  BY <1>3, <1>6, <1>7, <1>8, <1>9 DEF Inserted, e, position

\* All from `position` on one up, the last of them into the free slot behind.
LEMMA EmplaceNearBackInserted ==
  ASSUME NEW d, Good(d), NEW x \in Object, NEW index \in 0 .. SizeOf(d) - 1,
         BackFree(d) > 0
  PROVE  Inserted(d, EmplaceNearBack(d, d.front + index, x), index, <<x>>)
<1> DEFINE position == d.front + index
           e == EmplaceNearBack(d, position, x)
           slid == Slide(d.slots, position, d.back, position + 1)
<1>1. /\ Indices(d) /\ index \in Nat /\ SizeOf(d) \in Nat /\ SizeOf(d) = d.back - d.front
      /\ d.front \in Nat /\ d.back \in Nat /\ position \in Nat
      /\ d.front =< position /\ position < d.back
  BY GoodIndices DEF SizeOf, Indices
<1>2. Good(e)
  BY <1>1, EmplaceNearBackGood
<1>3. /\ e.slots = Put(slid, position, <<x>>) /\ e.front = d.front
      /\ SizeOf(e) = SizeOf(d) + 1
  BY <1>1 DEF EmplaceNearBack, Good, DevectorType, SizeOf
<1>4. /\ position \in Address => e.slots[position] = x
      /\ \A a \in Address : a < position \/ position + 1 =< a => e.slots[a] = slid[a]
  <2> HIDE DEF e, position, slid
  <2> QED
    BY <1>1, <1>3, PutOneReads
<1>5. /\ \A i \in 0 .. d.back - position - 1 :
           position + 1 + i \in Address => slid[position + 1 + i] = d.slots[position + i]
      /\ \A a \in Address : a < position => slid[a] = d.slots[a]
  <2>1. position \in Int /\ position + 1 \in Int /\ d.back \in Int /\ position + 1 # position
    BY <1>1
  <2>2. \A a \in Address : a < position => a < position + 1
    BY <1>1 DEF Address, Indices
  <2> HIDE DEF position
  <2>3. /\ \A i \in 0 .. d.back - position - 1 :
             position + 1 + i \in Address => slid[position + 1 + i] = d.slots[position + i]
        /\ \A a \in Address :
              /\ a < position + 1 \/ position + 1 + (d.back - position) =< a
              /\ a < position \/ d.back =< a
              => slid[a] = d.slots[a]
    BY <2>1, SlideReads, ZenonT(60)
  <2> QED
    BY <2>2, <2>3
<1> HIDE DEF e, slid, position
<1>6. ASSUME NEW i \in 0 .. index - 1 PROVE e.slots[e.front + i] = d.slots[d.front + i]
  <2>1. i \in 0 .. SizeOf(d) - 1
    BY <1>1
  <2>2. d.front + i \in Address /\ d.front + i < position
    BY <1>1, <2>1, SlotOf DEF position
  <2> QED
    BY <1>3, <1>4, <1>5, <2>2
<1>7. e.slots[e.front + index + 0] = x
  <2>1. position \in Address /\ d.front + index + 0 = position
    BY <1>1, SlotOf DEF position
  <2> QED
    BY <1>3, <1>4, <2>1
<1>8. ASSUME NEW i \in index .. SizeOf(d) - 1
      PROVE  e.slots[e.front + 1 + i] = d.slots[d.front + i]
  <2>1. 1 + i \in 0 .. SizeOf(e) - 1
    BY <1>1, <1>3
  <2>2. e.front + (1 + i) \in Address
    BY <1>2, <2>1, SlotOf
  <2>3. /\ e.front + (1 + i) = position + 1 + (i - index)
        /\ e.front + 1 + i = position + 1 + (i - index)
        /\ position + (i - index) = d.front + i
    BY <1>1, <1>3 DEF position
  <2>4. i - index \in 0 .. d.back - position - 1
    BY <1>1 DEF position
  <2>5. slid[position + 1 + (i - index)] = d.slots[position + (i - index)]
    BY <1>5, <2>2, <2>3, <2>4
  <2>6. position + 1 =< position + 1 + (i - index)
    BY <1>1
  <2> QED
    BY <1>4, <2>2, <2>3, <2>5, <2>6
<1>9. Len(<<x>>) = 1 /\ \A i \in 0 .. 1 - 1 : i = 0 /\ <<x>>[i + 1] = x
  BY OneElement
<1> QED
  BY <1>3, <1>6, <1>7, <1>8, <1>9 DEF Inserted, e, position

\* Constructed before the first element, then rotated to their place.
LEMMA InsertNearFrontInserted ==
  ASSUME NEW d, Good(d), NEW xs \in Seq(Object), NEW index \in 0 .. SizeOf(d),
         Len(xs) =< FrontFree(d)
  PROVE  LET e == InsertNearFront(d, d.front + index, xs)
         IN  Inserted(d, e, index, xs) /\ e.front = d.front - Len(xs)
<1> DEFINE position == d.front + index
           e == InsertNearFront(d, position, xs)
           n == Len(xs)
           f == d.front - n
           put == Put(d.slots, f, xs)
<1>1. /\ Indices(d) /\ index \in Nat /\ SizeOf(d) \in Nat /\ SizeOf(d) = d.back - d.front
      /\ d.front \in Nat /\ d.back \in Nat /\ position \in Nat /\ n \in Nat /\ f \in Nat
      /\ f =< d.front /\ d.front =< position /\ position =< d.back
  BY GoodIndices, SMTT(30) DEF SizeOf, FrontFree, Indices
<1>2. Good(e)
  BY <1>1, InsertNearFrontGood
<1>3. /\ e.slots = Rotate(put, f, d.front, position) /\ e.front = f
      /\ SizeOf(e) = SizeOf(d) + n
  BY <1>1 DEF InsertNearFront, Good, DevectorType, SizeOf
<1>4. /\ \A i \in 0 .. n - 1 : f + i \in Address => put[f + i] = xs[i + 1]
      /\ \A a \in Address : d.front =< a => put[a] = d.slots[a]
  <2>1. f + n = d.front /\ f \in Int
    BY <1>1
  <2> HIDE DEF f
  <2>2. /\ \A i \in 0 .. n - 1 : f + i \in Address => put[f + i] = xs[i + 1]
        /\ \A a \in Address : a < f \/ f + n =< a => put[a] = d.slots[a]
    BY <2>1, PutReads
  <2> QED
    BY <2>1, <2>2
<1>5. /\ \A i \in 0 .. position - d.front - 1 :
           f + i \in Address => e.slots[f + i] = put[d.front + i]
      /\ \A i \in 0 .. d.front - f - 1 : f + (position - d.front) + i \in Address =>
           e.slots[f + (position - d.front) + i] = put[f + i]
      /\ \A a \in Address : position =< a => e.slots[a] = put[a]
  <2>1. f \in Int /\ d.front \in Int /\ position \in Int
    BY <1>1
  <2>2. f =< d.front /\ d.front =< position
    BY <1>1
  <2> HIDE DEF e, f, position, put
  <2> DEFINE m == Rotate(put, f, d.front, position)
  <2>3. /\ \A i \in 0 .. position - d.front - 1 :
             f + i \in Address => m[f + i] = put[d.front + i]
        /\ \A i \in 0 .. d.front - f - 1 : f + (position - d.front) + i \in Address =>
             m[f + (position - d.front) + i] = put[f + i]
        /\ \A a \in Address : a < f \/ position =< a => m[a] = put[a]
    BY <2>1, <2>2, RotateReads, ZenonT(60)
  <2>4. e.slots = m
    BY <1>3
  <2> HIDE DEF m
  <2> QED
    BY <2>3, <2>4
<1>6. position - d.front = index /\ d.front - f = n
  BY <1>1
<1> HIDE DEF e, f, n, position, put
<1>7. ASSUME NEW i \in 0 .. index - 1 PROVE e.slots[e.front + i] = d.slots[d.front + i]
  <2>1. i \in 0 .. SizeOf(e) - 1 /\ i \in 0 .. SizeOf(d) - 1
    BY <1>1, <1>3, SMTT(30)
  <2>2. e.front + i \in Address /\ d.front + i \in Address /\ d.front =< d.front + i
    BY <1>2, <2>1, SlotOf
  <2> QED
    BY <1>3, <1>4, <1>5, <1>6, <2>2
<1>8. ASSUME NEW i \in 0 .. n - 1 PROVE e.slots[e.front + index + i] = xs[i + 1]
  <2>1. index + i \in 0 .. SizeOf(e) - 1 /\ i \in 0 .. SizeOf(e) - 1
    BY <1>1, <1>3, SMTT(30)
  <2>2. f + (index + i) \in Address /\ f + i \in Address
    BY <1>2, <1>3, <2>1, SlotOf
  <2>3. f + (index + i) = f + index + i
    BY <1>1
  <2>4. e.slots[f + index + i] = put[f + i]
    BY <1>5, <1>6, <2>2, <2>3
  <2> QED
    BY <1>3, <1>4, <2>2, <2>4
<1>9. ASSUME NEW i \in index .. SizeOf(d) - 1
      PROVE  e.slots[e.front + n + i] = d.slots[d.front + i]
  <2>1. i \in 0 .. SizeOf(d) - 1
    BY <1>1
  <2>2. d.front + i \in Address /\ d.front =< d.front + i
    BY <2>1, SlotOf
  <2>3. e.front + n + i = d.front + i
    BY <1>1, <1>3 DEF f
  <2>4. position =< d.front + i
    BY <1>1 DEF position
  <2> QED
    BY <1>4, <1>5, <2>2, <2>3, <2>4
<1> QED
  BY <1>3, <1>7, <1>8, <1>9 DEF Inserted, e, f, n, position

\* Constructed behind the last element, then rotated to their place.
LEMMA InsertNearBackInserted ==
  ASSUME NEW d, Good(d), NEW xs \in Seq(Object), NEW index \in 0 .. SizeOf(d),
         Len(xs) =< BackFree(d)
  PROVE  Inserted(d, InsertNearBack(d, d.front + index, xs), index, xs)
<1> DEFINE position == d.front + index
           e == InsertNearBack(d, position, xs)
           n == Len(xs)
           end == d.back + n
           put == Put(d.slots, d.back, xs)
<1>1. /\ Indices(d) /\ index \in Nat /\ SizeOf(d) \in Nat /\ SizeOf(d) = d.back - d.front
      /\ d.front \in Nat /\ d.back \in Nat /\ position \in Nat /\ n \in Nat /\ end \in Nat
      /\ d.front =< position /\ position =< d.back /\ d.back =< end /\ end =< d.cap
  <2>1. /\ Indices(d) /\ n \in Nat /\ n =< d.cap - d.back /\ index \in Nat
        /\ index =< SizeOf(d) /\ SizeOf(d) = d.back - d.front
    BY GoodIndices DEF SizeOf, BackFree, Indices
  <2> HIDE DEF n
  <2>2. d.front \in Nat /\ d.back \in Nat /\ d.cap \in Nat /\ d.front =< d.back
    BY <2>1 DEF Indices
  <2>3. end \in Nat /\ d.back =< end /\ end =< d.cap
    BY <2>1, <2>2
  <2>4. position \in Nat /\ d.front =< position /\ position =< d.back /\ SizeOf(d) \in Nat
    BY <2>1, <2>2
  <2> QED
    BY <2>1, <2>2, <2>3, <2>4
<1>2. Good(e)
  BY <1>1, InsertNearBackGood
<1>3. /\ e.slots = Rotate(put, position, d.back, end) /\ e.front = d.front
      /\ SizeOf(e) = SizeOf(d) + n
  BY <1>1 DEF InsertNearBack, Good, DevectorType, SizeOf
<1>4. /\ \A i \in 0 .. n - 1 : d.back + i \in Address => put[d.back + i] = xs[i + 1]
      /\ \A a \in Address : a < d.back => put[a] = d.slots[a]
  <2>1. d.back \in Int
    BY <1>1
  <2>2. /\ \A i \in 0 .. Len(xs) - 1 :
             d.back + i \in Address => Put(d.slots, d.back, xs)[d.back + i] = xs[i + 1]
        /\ \A a \in Address : a < d.back \/ d.back + Len(xs) =< a =>
             Put(d.slots, d.back, xs)[a] = d.slots[a]
    BY <2>1, PutReads, ZenonT(60)
  <2> QED
    BY <2>2
<1>5. /\ \A i \in 0 .. end - d.back - 1 :
           position + i \in Address => e.slots[position + i] = put[d.back + i]
      /\ \A i \in 0 .. d.back - position - 1 : position + (end - d.back) + i \in Address =>
           e.slots[position + (end - d.back) + i] = put[position + i]
      /\ \A a \in Address : a < position => e.slots[a] = put[a]
  <2>1. position \in Int /\ d.back \in Int /\ end \in Int
    BY <1>1
  <2>2. position =< d.back /\ d.back =< end
    BY <1>1
  <2> HIDE DEF e, end, position, put
  <2> DEFINE m == Rotate(put, position, d.back, end)
  <2>3. /\ \A i \in 0 .. end - d.back - 1 :
             position + i \in Address => m[position + i] = put[d.back + i]
        /\ \A i \in 0 .. d.back - position - 1 : position + (end - d.back) + i \in Address =>
             m[position + (end - d.back) + i] = put[position + i]
        /\ \A a \in Address : a < position \/ end =< a => m[a] = put[a]
    BY <2>1, <2>2, RotateReads, ZenonT(60)
  <2>4. e.slots = m
    BY <1>3
  <2> HIDE DEF m
  <2> QED
    BY <2>3, <2>4
<1>6. end - d.back = n
  BY <1>1
<1> HIDE DEF e, end, n, position, put
<1>7. ASSUME NEW i \in 0 .. index - 1 PROVE e.slots[e.front + i] = d.slots[d.front + i]
  <2>1. i \in 0 .. SizeOf(d) - 1
    BY <1>1
  <2>2. d.front + i \in Address /\ d.front + i < d.back /\ d.front + i < position
    BY <1>1, <2>1, SlotOf DEF position
  <2> QED
    BY <1>3, <1>4, <1>5, <2>2
<1>8. ASSUME NEW i \in 0 .. n - 1 PROVE e.slots[e.front + index + i] = xs[i + 1]
  <2>1. index + i \in 0 .. SizeOf(e) - 1 /\ SizeOf(d) + i \in 0 .. SizeOf(e) - 1
    BY <1>1, <1>3, SMTT(30)
  <2>2. e.front + (index + i) \in Address /\ e.front + (SizeOf(d) + i) \in Address
    BY <1>2, <2>1, SlotOf
  <2>3. /\ e.front + (index + i) = position + i /\ e.front + index + i = position + i
        /\ e.front + (SizeOf(d) + i) = d.back + i
    BY <1>1, <1>3, SMTT(30) DEF position
  <2>4. e.slots[position + i] = put[d.back + i]
    BY <1>5, <1>6, <2>2, <2>3
  <2> QED
    BY <1>4, <2>2, <2>3, <2>4
<1>9. ASSUME NEW i \in index .. SizeOf(d) - 1
      PROVE  e.slots[e.front + n + i] = d.slots[d.front + i]
  <2>1. i \in 0 .. SizeOf(d) - 1 /\ n + i \in 0 .. SizeOf(e) - 1
    BY <1>1, <1>3
  <2>2. /\ d.front + i \in Address /\ d.front + i < d.back
        /\ e.front + (n + i) \in Address
    BY <1>2, <2>1, SlotOf
  <2>3. /\ e.front + (n + i) = position + n + (i - index)
        /\ e.front + n + i = position + n + (i - index)
        /\ position + (i - index) = d.front + i
    <3>1. i \in Int /\ index \in Int /\ n \in Int /\ d.front \in Int
      BY <1>1
    <3> QED
      BY <1>3, <3>1 DEF position
  <2>4. i - index \in 0 .. d.back - position - 1
    BY <1>1, SMTT(30) DEF position
  <2>5. e.slots[position + n + (i - index)] = put[position + (i - index)]
    BY <1>5, <1>6, <2>2, <2>3, <2>4
  <2> QED
    BY <1>4, <2>2, <2>3, <2>5
<1> QED
  BY <1>3, <1>7, <1>8, <1>9 DEF Inserted, e, n, position

\* Two insertions, the second one behind what the first one inserted.
LEMMA InsertedTwice ==
  ASSUME NEW d, Good(d), NEW e, NEW g, e.front \in Nat, g.front \in Nat,
         NEW index \in 0 .. SizeOf(d), NEW xs \in Seq(Object), NEW k \in 0 .. Len(xs),
         Inserted(d, e, index, FirstOf(xs, k)),
         Inserted(e, g, index + k, Without(xs, k))
  PROVE  Inserted(d, g, index, xs)
<1> DEFINE a == FirstOf(xs, k)
           b == Without(xs, k)
           n == Len(xs)
<1>1. /\ n \in Nat /\ k \in Nat /\ k =< n /\ index \in Nat /\ index =< SizeOf(d)
      /\ SizeOf(d) \in Nat /\ d.front \in Nat
  BY GoodIndices, ContentsSeq DEF Indices
<1>2. a \in Seq(Object) /\ Len(a) = k /\ Len(b) = n - k
  BY PartsOfRange
<1>3. /\ \A i \in 1 .. k : a[i] = xs[i]
      /\ \A i \in 1 .. n - k : b[i] = xs[k + i]
  <2>1. 0 \in 0 .. Len(xs) /\ k \in 0 .. Len(xs) /\ Len(xs) \in k .. Len(xs)
    BY <1>1
  <2>2. \A i \in 1 .. k - 0 : SubSeq(xs, 0 + 1, k)[i] = xs[0 + i]
    BY <2>1, Run
  <2>3. \A i \in 1 .. Len(xs) - k : SubSeq(xs, k + 1, Len(xs))[i] = xs[k + i]
    BY <2>1, Run
  <2>4. k - 0 = k /\ 0 + 1 = 1 /\ \A i \in 1 .. k : 0 + i = i
    BY <1>1
  <2> QED
    BY <2>2, <2>3, <2>4 DEF FirstOf, Without
<1>4. /\ SizeOf(e) = SizeOf(d) + k
      /\ \A i \in 0 .. index - 1 : e.slots[e.front + i] = d.slots[d.front + i]
      /\ \A i \in 0 .. k - 1 : e.slots[e.front + index + i] = a[i + 1]
      /\ \A i \in index .. SizeOf(d) - 1 : e.slots[e.front + k + i] = d.slots[d.front + i]
  BY <1>2 DEF Inserted
<1>5. /\ SizeOf(g) = SizeOf(e) + (n - k)
      /\ \A i \in 0 .. index + k - 1 : g.slots[g.front + i] = e.slots[e.front + i]
      /\ \A i \in 0 .. n - k - 1 : g.slots[g.front + (index + k) + i] = b[i + 1]
      /\ \A i \in index + k .. SizeOf(e) - 1 :
           g.slots[g.front + (n - k) + i] = e.slots[e.front + i]
  BY <1>2 DEF Inserted
<1> HIDE DEF a, b, n
<1>6. SizeOf(g) = SizeOf(d) + n
  BY <1>1, <1>4, <1>5
<1>7. ASSUME NEW i \in 0 .. index - 1 PROVE g.slots[g.front + i] = d.slots[d.front + i]
  <2>1. i \in 0 .. index + k - 1
    BY <1>1
  <2> QED
    BY <1>4, <1>5, <2>1
<1>8. ASSUME NEW i \in 0 .. n - 1 PROVE g.slots[g.front + index + i] = xs[i + 1]
  <2>1. CASE i < k
    <3>1. /\ index + i \in 0 .. index + k - 1 /\ i \in 0 .. k - 1 /\ i + 1 \in 1 .. k
          /\ g.front + (index + i) = g.front + index + i
          /\ e.front + (index + i) = e.front + index + i
      BY <1>1, <2>1, SMTT(30)
    <3>2. g.slots[g.front + (index + i)] = e.slots[e.front + (index + i)]
      BY <1>5, <3>1
    <3> QED
      BY <1>3, <1>4, <3>1, <3>2
  <2>2. CASE k =< i
    <3>1. /\ i - k \in 0 .. n - k - 1 /\ (i - k) + 1 \in 1 .. n - k
          /\ g.front + (index + k) + (i - k) = g.front + index + i
          /\ k + ((i - k) + 1) = i + 1
      BY <1>1, <2>2
    <3>2. g.slots[g.front + (index + k) + (i - k)] = b[(i - k) + 1]
      BY <1>5, <3>1
    <3> QED
      BY <1>3, <3>1, <3>2
  <2> QED
    BY <1>1, <2>1, <2>2
<1>9. ASSUME NEW i \in index .. SizeOf(d) - 1
      PROVE  g.slots[g.front + n + i] = d.slots[d.front + i]
  <2>1. /\ g.front + (n - k) + (k + i) = g.front + n + i
        /\ e.front + (k + i) = e.front + k + i
    BY <1>1, SMTT(30)
  <2>2. k + i \in index + k .. SizeOf(e) - 1
    BY <1>1, <1>4
  <2>3. g.slots[g.front + (n - k) + (k + i)] = e.slots[e.front + (k + i)]
    BY <1>5, <2>2
  <2> QED
    BY <1>4, <2>1, <2>3
<1> QED
  BY <1>6, <1>7, <1>8, <1>9 DEF Inserted, n

\* As many as fit in front, the others behind.
LEMMA InsertAroundInserted ==
  ASSUME NEW d, Good(d), NEW xs \in Seq(Object), NEW index \in 0 .. SizeOf(d),
         Len(xs) =< FreeSlots(d)
  PROVE  /\ Inserted(d, InsertAround(d, d.front + index, xs), index, xs)
         /\ InsertAround(d, d.front + index, xs).front =
              d.front - Smaller(FrontFree(d), Len(xs))
<1> DEFINE k == Smaller(FrontFree(d), Len(xs))
           a == FirstOf(xs, k)
           b == Without(xs, k)
           position == d.front + index
           e == InsertNearFront(d, position, a)
           g == InsertNearBack(e, position, b)
<1>1. /\ Indices(d) /\ Len(xs) \in Nat /\ SizeOf(d) \in Nat /\ SizeOf(d) = d.back - d.front
      /\ index \in Nat /\ index =< SizeOf(d)
  BY GoodIndices DEF SizeOf, Indices
<1>2. k \in 0 .. Len(xs) /\ k =< FrontFree(d) /\ Len(xs) - k =< BackFree(d)
  BY <1>1 DEF Smaller, FreeSlots, FrontFree, BackFree, Indices
<1>3. /\ a \in Seq(Object) /\ Len(a) = k /\ b \in Seq(Object) /\ Len(b) = Len(xs) - k
      /\ Len(a) =< FrontFree(d)
  BY <1>2, PartsOfRange
<1> HIDE DEF a, b, k
<1>4. Inserted(d, e, index, a) /\ e.front = d.front - k
  BY <1>3, InsertNearFrontInserted
<1>5. /\ position \in Nat /\ d.front =< position /\ position =< d.back
  BY <1>1 DEF Indices
<1>6. Good(e)
  BY <1>3, <1>5, InsertNearFrontGood
<1>7. e.cap = d.cap /\ e.back = d.back
  BY DEF InsertNearFront, Good, DevectorType
<1>8. /\ Len(b) =< BackFree(e) /\ index + k \in 0 .. SizeOf(e)
      /\ e.front + (index + k) = position
  <2>1. Len(b) =< BackFree(e)
    BY <1>2, <1>3, <1>7 DEF BackFree
  <2>2. k \in Nat /\ d.front \in Nat /\ d.back \in Nat
    BY <1>1, <1>2 DEF Indices
  <2>3. e.front + (index + k) = position
    BY <1>1, <1>4, <2>2
  <2>4. SizeOf(e) = SizeOf(d) + k
    BY <1>1, <1>4, <1>7, <2>2 DEF SizeOf
  <2> QED
    BY <1>1, <2>1, <2>2, <2>3, <2>4
<1> HIDE DEF e, position
<1>9. Inserted(e, InsertNearBack(e, e.front + (index + k), b), index + k, b)
  BY <1>3, <1>6, <1>8, InsertNearBackInserted
<1>10. Inserted(e, g, index + k, b)
  BY <1>8, <1>9
<1>11. g.front = e.front /\ e.front \in Nat
  BY <1>6, GoodIndices DEF InsertNearBack, Good, DevectorType, Indices
<1> HIDE DEF g
<1>12. Inserted(d, g, index, xs)
  BY <1>2, <1>4, <1>10, <1>11, InsertedTwice DEF a, b
<1>13. InsertAround(d, d.front + index, xs) = g
  BY DEF InsertAround, g, e, a, b, k, position
<1> QED
  BY <1>4, <1>11, <1>12, <1>13 DEF k

\* emplace_front and emplace_back
LEMMA EmplaceFrontInserted ==
  ASSUME NEW d, Good(d), NEW x \in Object, EmplaceFrontOk(d)
  PROVE  Inserted(d, EmplaceFront(d, x), 0, <<x>>)
<1>1. <<x>> \in Seq(Object) /\ Len(<<x>>) = 1
  BY OneElement
<1>2. CASE FrontFree(d) > 0
  <2>1. Len(<<x>>) =< FrontFree(d)
    BY <1>1, <1>2, GoodIndices DEF FrontFree, Indices
  <2> QED
    BY <1>1, <1>2, <2>1, PutFrontInserted DEF EmplaceFront
<1>3. CASE ~(FrontFree(d) > 0)
  <2>1. InsertReallocatingOk(d, Len(<<x>>)) /\ 0 \in 0 .. SizeOf(d)
    BY <1>1, <1>3, ContentsSeq DEF EmplaceFrontOk
  <2>2. Inserted(d, InsertReallocating(d, TRUE, 0, <<x>>), 0, <<x>>)
    BY <1>1, <2>1, InsertReallocatingInserted
  <2> QED
    BY <1>3, <2>2 DEF EmplaceFront
<1> QED
  BY <1>2, <1>3

LEMMA EmplaceBackInserted ==
  ASSUME NEW d, Good(d), NEW x \in Object, EmplaceBackOk(d)
  PROVE  Inserted(d, EmplaceBack(d, x), SizeOf(d), <<x>>)
<1>1. <<x>> \in Seq(Object) /\ Len(<<x>>) = 1
  BY OneElement
<1>2. CASE BackFree(d) > 0
  <2>1. Len(<<x>>) =< BackFree(d)
    BY <1>1, <1>2, GoodIndices DEF BackFree, Indices
  <2> QED
    BY <1>1, <1>2, <2>1, PutBackInserted DEF EmplaceBack
<1>3. CASE ~(BackFree(d) > 0)
  <2>1. InsertReallocatingOk(d, Len(<<x>>)) /\ SizeOf(d) \in 0 .. SizeOf(d)
    BY <1>1, <1>3, ContentsSeq DEF EmplaceBackOk
  <2>2. Inserted(d, InsertReallocating(d, FALSE, SizeOf(d), <<x>>), SizeOf(d), <<x>>)
    BY <1>1, <2>1, InsertReallocatingInserted
  <2> QED
    BY <1>3, <2>2 DEF EmplaceBack
<1> QED
  BY <1>2, <1>3

\* resize_front into a new buffer: the new elements, then the old ones up to its end.
LEMMA ResizeFrontSlowPathInserted ==
  ASSUME NEW d, Good(d), NEW sz \in Nat, NEW xs \in Seq(Object),
         SizeOf(d) + Len(xs) = sz, sz > FrontCapacity(d),
         sz + BackFree(d) =< SizeMax, CapacityOk(d, sz + BackFree(d))
  PROVE  Inserted(d, ResizeFrontSlowPath(d, sz, xs), 0, xs)
<1> DEFINE e == ResizeFrontSlowPath(d, sz, xs)
           n == Len(xs)
           f == e.front
           put == Put(NoObjects, f, xs)
<1>1. /\ n \in Nat /\ SizeOf(d) \in Nat /\ d.front \in Nat /\ d.back \in Nat
      /\ SizeOf(d) = d.back - d.front
  BY GoodIndices DEF SizeOf, Indices
<1>2. Good(e)
  BY ResizeFrontSlowPathGood
<1>3. f \in Nat /\ e.back \in Nat
  BY <1>2, GoodIndices DEF Indices
<1>4. /\ e.slots = Transfer(d.slots, d.front, d.back, put, f + n)
      /\ e.back = f + n + SizeOf(d)
  <2> DEFINE c == CalculateNewCapacity(d, sz + BackFree(d))
  <2>1. c \in Int
    <3>1. sz + BackFree(d) \in Nat
      BY GoodIndices DEF BackFree, Indices
    <3> QED
      BY <3>1, CapacityFacts, SizesAssumption DEF Size
  <2> HIDE DEF c
  <2>2. /\ f = c - SizeOf(d) - n /\ e.back = c - SizeOf(d) + SizeOf(d)
        /\ e.slots = Transfer(d.slots, d.front, d.back, put, c - SizeOf(d))
    BY DEF ResizeFrontSlowPath, c
  <2> HIDE DEF e, n, f, put
  <2> DEFINE s == SizeOf(d)
  <2>3. s \in Int /\ n \in Int
    BY <1>1
  <2> HIDE DEF s
  <2>4. c - s = f + n
    BY <2>1, <2>2, <2>3 DEF s
  <2>5. e.back = c - s + s
    BY <2>2 DEF s
  <2> QED
    BY <2>2, <2>4, <2>5 DEF s
<1>5. SizeOf(e) = SizeOf(d) + n
  <2> HIDE DEF e, n
  <2> QED
    BY <1>1, <1>3, <1>4 DEF SizeOf
<1>6. /\ \A i \in 0 .. d.back - d.front - 1 :
           f + n + i \in Address => e.slots[f + n + i] = d.slots[d.front + i]
      /\ \A a \in Address : a < f + n => e.slots[a] = put[a]
  <2>1. d.front \in Int /\ d.back \in Int /\ f + n \in Int
    BY <1>1, <1>3
  <2> HIDE DEF e, n, f, put
  <2> QED
    BY <1>4, <2>1, TransferReads
<1>7. \A i \in 0 .. n - 1 : f + i \in Address => put[f + i] = xs[i + 1]
  <2>1. f \in Int
    BY <1>3
  <2> HIDE DEF e, f
  <2>2. \A i \in 0 .. Len(xs) - 1 :
          f + i \in Address => Put(NoObjects, f, xs)[f + i] = xs[i + 1]
    BY <2>1, PutReads, SMTT(30)
  <2> QED
    BY <2>2
<1> HIDE DEF e, n, f, put
<1>8. ASSUME NEW i \in 0 .. n - 1 PROVE e.slots[e.front + 0 + i] = xs[i + 1]
  <2>1. i \in 0 .. SizeOf(e) - 1 /\ f + i < f + n /\ f + 0 + i = f + i
    BY <1>1, <1>3, <1>5
  <2>2. f + i \in Address
    BY <1>2, <2>1, SlotOf DEF f
  <2> QED
    BY <1>6, <1>7, <2>1, <2>2 DEF f
<1>9. ASSUME NEW i \in 0 .. SizeOf(d) - 1
      PROVE  e.slots[e.front + n + i] = d.slots[d.front + i]
  <2>1. n + i \in 0 .. SizeOf(e) - 1 /\ f + (n + i) = f + n + i
    BY <1>1, <1>3, <1>5
  <2>2. f + n + i \in Address
    BY <1>2, <2>1, SlotOf DEF f
  <2>3. i \in 0 .. d.back - d.front - 1
    BY <1>1
  <2> QED
    BY <1>6, <2>2, <2>3 DEF f
<1>10. \A i \in 0 .. 0 - 1 : FALSE
  OBVIOUS
<1> QED
  BY <1>5, <1>8, <1>9, <1>10 DEF Inserted, e, n

\* resize_back into a new buffer: everything keeps its index.
LEMMA ResizeBackSlowPathInserted ==
  ASSUME NEW d, Good(d), NEW sz \in Nat, NEW xs \in Seq(Object),
         SizeOf(d) + Len(xs) = sz, sz > BackCapacity(d),
         sz + FrontFree(d) =< SizeMax, CapacityOk(d, sz + FrontFree(d))
  PROVE  Inserted(d, ResizeBackSlowPath(d, sz, xs), SizeOf(d), xs)
<1> DEFINE e == ResizeBackSlowPath(d, sz, xs)
           n == Len(xs)
           put == Put(NoObjects, d.back, xs)
<1>1. /\ n \in Nat /\ SizeOf(d) \in Nat /\ d.front \in Nat /\ d.back \in Nat
      /\ SizeOf(d) = d.back - d.front
  BY GoodIndices DEF SizeOf, Indices
<1>2. Good(e)
  BY ResizeBackSlowPathGood
<1>3. /\ e.slots = Transfer(d.slots, d.front, d.back, put, d.front)
      /\ e.front = d.front /\ e.back = d.back + n
  BY DEF ResizeBackSlowPath
<1>4. SizeOf(e) = SizeOf(d) + n
  <2> HIDE DEF e, n
  <2> QED
    BY <1>1, <1>3 DEF SizeOf
<1>5. /\ \A i \in 0 .. d.back - d.front - 1 :
           d.front + i \in Address => e.slots[d.front + i] = d.slots[d.front + i]
      /\ \A a \in Address : d.back =< a => e.slots[a] = put[a]
  <2>1. d.front + (d.back - d.front) = d.back
    BY <1>1
  <2> HIDE DEF e, put
  <2> DEFINE m == Transfer(d.slots, d.front, d.back, put, d.front)
  <2>2. /\ \A i \in 0 .. d.back - d.front - 1 :
             d.front + i \in Address => m[d.front + i] = d.slots[d.front + i]
        /\ \A a \in Address : a < d.front \/ d.front + (d.back - d.front) =< a => m[a] = put[a]
    BY <1>1, TransferReads
  <2>3. e.slots = m
    BY <1>3
  <2> HIDE DEF m
  <2> QED
    BY <2>1, <2>2, <2>3
<1>6. \A i \in 0 .. n - 1 : d.back + i \in Address => put[d.back + i] = xs[i + 1]
  BY <1>1, PutReads
<1> HIDE DEF e, n, put
<1>7. ASSUME NEW i \in 0 .. SizeOf(d) - 1 PROVE e.slots[e.front + i] = d.slots[d.front + i]
  <2>1. d.front + i \in Address
    BY SlotOf
  <2>2. i \in 0 .. d.back - d.front - 1
    BY <1>1
  <2> QED
    BY <1>3, <1>5, <2>1, <2>2
<1>8. ASSUME NEW i \in 0 .. n - 1 PROVE e.slots[e.front + SizeOf(d) + i] = xs[i + 1]
  <2>1. SizeOf(d) + i \in 0 .. SizeOf(e) - 1
    BY <1>1, <1>4
  <2>2. e.front + (SizeOf(d) + i) \in Address
    BY <1>2, <2>1, SlotOf
  <2>3. e.front + (SizeOf(d) + i) = d.back + i /\ e.front + SizeOf(d) + i = d.back + i
    BY <1>1, <1>3, SMTT(30)
  <2>4. d.back =< d.back + i
    BY <1>1
  <2> QED
    BY <1>5, <1>6, <2>2, <2>3, <2>4
<1>9. \A i \in SizeOf(d) .. SizeOf(d) - 1 : FALSE
  BY <1>1
<1> QED
  BY <1>4, <1>7, <1>8, <1>9 DEF Inserted, e, n

\* resize_front and resize_back to more elements
LEMMA ResizeFrontInserted ==
  ASSUME NEW d, Good(d), NEW sz \in Nat, NEW x \in Object, ResizeFrontOk(d, sz),
         sz =< FrontCapacity(d) \/ sz + BackFree(d) =< SizeMax, sz > SizeOf(d)
  PROVE  Inserted(d, ResizeFront(d, sz, x), 0, Copies(sz - SizeOf(d), x))
<1> DEFINE xs == Copies(sz - SizeOf(d), x)
<1>1. Indices(d) /\ SizeOf(d) \in Nat /\ sz - SizeOf(d) \in Nat /\ ~(sz =< SizeOf(d))
  BY ContentsSeq, GoodIndices
<1>2. xs \in Seq(Object) /\ SizeOf(d) + Len(xs) = sz
  <2>1. xs \in Seq(Object) /\ Len(xs) = sz - SizeOf(d)
    BY <1>1, SomeCopies
  <2> HIDE DEF xs
  <2> QED
    BY <1>1, <2>1
<1> HIDE DEF xs
<1>3. CASE sz =< FrontCapacity(d)
  <2>1. Len(xs) =< FrontFree(d)
    <3>1. Len(xs) \in Nat
      BY <1>2
    <3> QED
      BY <1>1, <1>2, <1>3, <3>1, SMTT(30) DEF FrontCapacity, FrontFree, SizeOf, Indices
  <2> QED
    BY <1>1, <1>2, <1>3, <2>1, PutFrontInserted DEF ResizeFront, xs
<1>4. CASE ~(sz =< FrontCapacity(d))
  <2>1. sz > FrontCapacity(d) /\ CapacityOk(d, sz + BackFree(d))
    BY <1>1, <1>4 DEF FrontCapacity, ResizeFrontOk, Indices
  <2>2. sz + BackFree(d) =< SizeMax
    BY <1>4
  <2> QED
    BY <1>1, <1>2, <1>4, <2>1, <2>2, ResizeFrontSlowPathInserted DEF ResizeFront, xs
<1> QED
  BY <1>3, <1>4 DEF xs

LEMMA ResizeBackInserted ==
  ASSUME NEW d, Good(d), NEW sz \in Nat, NEW x \in Object, ResizeBackOk(d, sz),
         sz =< BackCapacity(d) \/ sz + FrontFree(d) =< SizeMax, sz > SizeOf(d)
  PROVE  Inserted(d, ResizeBack(d, sz, x), SizeOf(d), Copies(sz - SizeOf(d), x))
<1> DEFINE xs == Copies(sz - SizeOf(d), x)
<1>1. Indices(d) /\ SizeOf(d) \in Nat /\ sz - SizeOf(d) \in Nat /\ ~(sz =< SizeOf(d))
  BY ContentsSeq, GoodIndices
<1>2. xs \in Seq(Object) /\ SizeOf(d) + Len(xs) = sz
  <2>1. xs \in Seq(Object) /\ Len(xs) = sz - SizeOf(d)
    BY <1>1, SomeCopies
  <2> HIDE DEF xs
  <2> QED
    BY <1>1, <2>1
<1> HIDE DEF xs
<1>3. CASE sz =< BackCapacity(d)
  <2>1. Len(xs) =< BackFree(d)
    <3>1. Len(xs) \in Nat
      BY <1>2
    <3>2. /\ d.cap \in Nat /\ d.front \in Nat /\ d.back \in Nat
          /\ (d.back - d.front) + Len(xs) =< d.cap - d.front
      BY <1>1, <1>2, <1>3 DEF BackCapacity, SizeOf, Indices
    <3> HIDE DEF xs
    <3>3. Len(xs) =< d.cap - d.back
      BY <3>1, <3>2
    <3> QED
      BY <3>3 DEF BackFree
  <2> QED
    BY <1>1, <1>2, <1>3, <2>1, PutBackInserted DEF ResizeBack, xs
<1>4. CASE ~(sz =< BackCapacity(d))
  <2>1. sz > BackCapacity(d) /\ CapacityOk(d, sz + FrontFree(d))
    BY <1>1, <1>4 DEF BackCapacity, ResizeBackOk, Indices
  <2>2. sz + FrontFree(d) =< SizeMax
    BY <1>4
  <2> QED
    BY <1>1, <1>2, <1>4, <2>1, <2>2, ResizeBackSlowPathInserted DEF ResizeBack, xs
<1> QED
  BY <1>3, <1>4 DEF xs

\* emplace, and where its iterator points
LEMMA EmplaceInserted ==
  ASSUME NEW d, Good(d), NEW x \in Object, NEW index \in 0 .. SizeOf(d), EmplaceOk(d)
  PROVE  LET e == Emplace(d, index, x)
         IN  Inserted(d, e, index, <<x>>) /\ EmplaceReturns(d, index) - e.front = index
<1> DEFINE e == Emplace(d, index, x)
<1>1. <<x>> \in Seq(Object) /\ Len(<<x>>) = 1
  BY OneElement
<1>2. /\ Indices(d) /\ SizeOf(d) \in Nat /\ SizeOf(d) = d.back - d.front
      /\ d.front \in Nat /\ d.back \in Nat /\ index \in Nat
      /\ FrontFree(d) \in Nat /\ BackFree(d) \in Nat
  BY GoodIndices DEF SizeOf, FrontFree, BackFree, Indices
<1>3. CASE index = SizeOf(d) /\ BackFree(d) > 0
  <2>1. e = PutBack(d, <<x>>) /\ EmplaceReturns(d, index) = d.back
    BY <1>3 DEF Emplace, EmplaceReturns
  <2>2. Len(<<x>>) =< BackFree(d)
    BY <1>1, <1>2, <1>3
  <2>3. Inserted(d, PutBack(d, <<x>>), SizeOf(d), <<x>>)
    BY <1>1, <2>2, PutBackInserted
  <2>4. PutBack(d, <<x>>).front = d.front
    BY DEF PutBack, Good, DevectorType
  <2>5. d.back - d.front = index
    BY <1>2, <1>3
  <2> QED
    BY <1>3, <2>1, <2>3, <2>4, <2>5
<1>4. CASE /\ ~(index = SizeOf(d) /\ BackFree(d) > 0)
           /\ index = 0 /\ FrontFree(d) > 0
  <2>1. e = PutFront(d, <<x>>) /\ EmplaceReturns(d, index) = d.front - 1
    BY <1>4 DEF Emplace, EmplaceReturns
  <2>2. Len(<<x>>) =< FrontFree(d)
    BY <1>1, <1>2, <1>4
  <2>3. Inserted(d, PutFront(d, <<x>>), 0, <<x>>)
    BY <1>1, <2>2, PutFrontInserted
  <2>4. PutFront(d, <<x>>).front = d.front - 1
    BY <1>1 DEF PutFront, Good, DevectorType
  <2>5. (d.front - 1) - (d.front - 1) = 0
    BY <1>2
  <2> QED
    BY <1>4, <2>1, <2>3, <2>4, <2>5
<1>5. CASE /\ ~(index = SizeOf(d) /\ BackFree(d) > 0)
           /\ ~(index = 0 /\ FrontFree(d) > 0)
           /\ EmplaceMovesFront(d, index)
  <2>1. /\ e = EmplaceNearFront(d, d.front + index, x)
        /\ EmplaceReturns(d, index) = d.front + index - 1
    BY <1>5 DEF Emplace, EmplaceReturns
  <2>2. FrontFree(d) > 0 /\ index \in 1 .. SizeOf(d)
    BY <1>2, <1>5 DEF EmplaceMovesFront
  <2>3. Inserted(d, EmplaceNearFront(d, d.front + index, x), index, <<x>>)
    BY <2>2, EmplaceNearFrontInserted
  <2>4. EmplaceNearFront(d, d.front + index, x).front = d.front - 1
    BY DEF EmplaceNearFront, Good, DevectorType
  <2>5. (d.front + index - 1) - (d.front - 1) = index
    BY <1>2
  <2> QED
    BY <2>1, <2>3, <2>4, <2>5
<1>6. CASE /\ ~(index = SizeOf(d) /\ BackFree(d) > 0)
           /\ ~(index = 0 /\ FrontFree(d) > 0)
           /\ ~EmplaceMovesFront(d, index)
           /\ BackFree(d) > 0
  <2>1. /\ e = EmplaceNearBack(d, d.front + index, x)
        /\ EmplaceReturns(d, index) = d.front + index
    BY <1>6 DEF Emplace, EmplaceReturns
  <2>2. index \in 0 .. SizeOf(d) - 1
    BY <1>2, <1>6
  <2>3. Inserted(d, EmplaceNearBack(d, d.front + index, x), index, <<x>>)
    BY <1>6, <2>2, EmplaceNearBackInserted
  <2>4. EmplaceNearBack(d, d.front + index, x).front = d.front
    BY DEF EmplaceNearBack, Good, DevectorType
  <2>5. (d.front + index) - d.front = index
    BY <1>2
  <2> QED
    BY <2>1, <2>3, <2>4, <2>5
<1>7. CASE /\ ~(index = SizeOf(d) /\ BackFree(d) > 0)
           /\ ~(index = 0 /\ FrontFree(d) > 0)
           /\ ~EmplaceMovesFront(d, index)
           /\ ~(BackFree(d) > 0)
  <2> DEFINE g(y) == InsertReallocating(d, PreferMoveFront(d, index), index, <<y>>)
  <2>1. e = g(x) /\ EmplaceReturns(d, index) = g(Unspec).front + index
    BY <1>7 DEF Emplace, EmplaceReturns
  <2>2. ~(FrontFree(d) > 0)
    BY <1>2, <1>7 DEF EmplaceMovesFront
  <2>3. InsertReallocatingOk(d, Len(<<x>>)) /\ PreferMoveFront(d, index) \in BOOLEAN
    BY <1>1, <1>7, <2>2 DEF EmplaceOk, PreferMoveFront
  <2>4. Inserted(d, g(x), index, <<x>>) /\ Good(g(x))
    BY <1>1, <2>3, InsertReallocatingInserted, InsertReallocatingGood
  <2>5. g(Unspec).front = g(x).front
    BY <1>1 DEF InsertReallocating
  <2>6. g(x).front \in Nat
    BY <2>4, GoodIndices DEF Indices
  <2> HIDE DEF g
  <2>7. (g(x).front + index) - g(x).front = index
    BY <1>2, <2>6
  <2> QED
    BY <2>1, <2>4, <2>5, <2>7
<1> QED
  BY <1>3, <1>4, <1>5, <1>6, <1>7

\* insert of a range, and where its iterator points
LEMMA InsertRangeInserted ==
  ASSUME NEW d, Good(d), NEW xs \in Seq(Object), NEW index \in 0 .. SizeOf(d),
         InsertRangeOk(d, Len(xs)),
         FreeSlots(d) >= Len(xs) \/ d.cap + Len(xs) =< SizeMax
  PROVE  LET e == InsertRange(d, index, xs)
         IN  /\ Inserted(d, e, index, xs)
             /\ InsertReturns(d, index, xs) - e.front = index
<1> DEFINE e == InsertRange(d, index, xs)
           n == Len(xs)
<1>1. /\ Indices(d) /\ SizeOf(d) \in Nat /\ SizeOf(d) = d.back - d.front
      /\ d.front \in Nat /\ d.back \in Nat /\ index \in Nat /\ n \in Nat
      /\ FrontFree(d) \in Nat /\ BackFree(d) \in Nat
  BY GoodIndices DEF SizeOf, FrontFree, BackFree, Indices
<1>2. e.front \in Nat
  BY InsertRangeGood, GoodIndices DEF Indices
<1>3. CASE index = SizeOf(d) /\ BackFree(d) >= n
  <2>1. e = PutBack(d, xs) /\ InsertReturns(d, index, xs) = e.back - n
    BY <1>3 DEF InsertRange, InsertReturns
  <2>2. n =< BackFree(d)
    BY <1>1, <1>3
  <2>3. Inserted(d, PutBack(d, xs), SizeOf(d), xs)
    BY <2>2, PutBackInserted
  <2>4. PutBack(d, xs).front = d.front /\ PutBack(d, xs).back = d.back + n
    BY DEF PutBack, Good, DevectorType
  <2> HIDE DEF e, n
  <2>5. (d.back + n) - n - d.front = index
    BY <1>1, <1>3
  <2> QED
    BY <1>3, <2>1, <2>3, <2>4, <2>5 DEF e
<1>4. CASE ~(index = SizeOf(d) /\ BackFree(d) >= n)
  <2>1. InsertReturns(d, index, xs) = e.front + index
    BY <1>4 DEF InsertReturns
  <2>2. InsertReturns(d, index, xs) - e.front = index
    <3> HIDE DEF e
    <3> QED
      BY <1>1, <1>2, <2>1
  <2>3. CASE index = 0 /\ FrontFree(d) >= n
    <3>1. e = InsertNearFront(d, d.front, xs)
      BY <1>4, <2>3 DEF InsertRange
    <3>2. n =< FrontFree(d) /\ d.front + index = d.front
      BY <1>1, <2>3
    <3>3. Inserted(d, InsertNearFront(d, d.front + index, xs), index, xs)
      BY <3>2, InsertNearFrontInserted
    <3> QED
      BY <2>2, <3>1, <3>2, <3>3
  <2>4. CASE ~(index = 0 /\ FrontFree(d) >= n) /\ FreeSlots(d) >= n
    <3>1. e = InsertAround(d, d.front + index, xs)
      BY <1>4, <2>4 DEF InsertRange
    <3>2. n =< FreeSlots(d)
      BY <1>1, <2>4 DEF FreeSlots
    <3> QED
      BY <2>2, <3>1, <3>2, InsertAroundInserted
  <2>5. CASE ~(index = 0 /\ FrontFree(d) >= n) /\ ~(FreeSlots(d) >= n)
    <3>1. e = InsertReallocating(d, PreferMoveFront(d, index), index, xs)
      BY <1>4, <2>5 DEF InsertRange
    <3>2. InsertReallocatingOk(d, n) /\ PreferMoveFront(d, index) \in BOOLEAN
      BY <2>5 DEF InsertRangeOk, PreferMoveFront
    <3>3. d.cap + n =< SizeMax
      BY <2>5
    <3> QED
      BY <2>2, <3>1, <3>2, <3>3, InsertReallocatingInserted
  <2> QED
    BY <2>3, <2>4, <2>5
<1> QED
  BY <1>3, <1>4

\* pop_front, pop_back and what resize_front and resize_back remove
LEMMA PopFrontRemoved ==
  ASSUME NEW d, Good(d), NEW n \in Nat, n =< SizeOf(d)
  PROVE  Removed(d, PopFront(d, n), 0, n)
<1> DEFINE e == PopFront(d, n)
<1>1. /\ SizeOf(d) \in Nat /\ SizeOf(d) = d.back - d.front
      /\ d.front \in Nat /\ d.back \in Nat
  BY GoodIndices DEF SizeOf, Indices
<1>2. /\ e.slots = Destroy(d.slots, d.front, d.front + n)
      /\ e.front = d.front + n /\ e.back = d.back
  BY DEF PopFront, Good, DevectorType
<1> HIDE DEF e
<1>3. SizeOf(e) = SizeOf(d) - n
  BY <1>1, <1>2 DEF SizeOf
<1>4. ASSUME NEW i \in 0 .. SizeOf(e) - 1
      PROVE  e.slots[e.front + i] = d.slots[d.front + n + i]
  <2>1. n + i \in 0 .. SizeOf(d) - 1
    BY <1>1, <1>3
  <2>2. d.front + (n + i) \in Address
    BY <2>1, SlotOf
  <2>3. d.front + (n + i) = d.front + n + i /\ ~(d.front + n + i < d.front + n)
    BY <1>1
  <2> QED
    BY <1>2, <2>2, <2>3 DEF Destroy
<1> QED
  BY <1>3, <1>4 DEF Removed, e

LEMMA PopBackRemoved ==
  ASSUME NEW d, Good(d), NEW n \in Nat, n =< SizeOf(d)
  PROVE  Removed(d, PopBack(d, n), SizeOf(d) - n, n)
<1> DEFINE e == PopBack(d, n)
<1>1. /\ SizeOf(d) \in Nat /\ SizeOf(d) = d.back - d.front
      /\ d.front \in Nat /\ d.back \in Nat
  BY GoodIndices DEF SizeOf, Indices
<1>2. /\ e.slots = Destroy(d.slots, d.back - n, d.back)
      /\ e.front = d.front /\ e.back = d.back - n
  BY DEF PopBack, Good, DevectorType
<1> HIDE DEF e
<1>3. SizeOf(e) = SizeOf(d) - n
  BY <1>1, <1>2 DEF SizeOf
<1>4. ASSUME NEW i \in 0 .. SizeOf(d) - n - 1
      PROVE  e.slots[e.front + i] = d.slots[d.front + i]
  <2>1. i \in 0 .. SizeOf(d) - 1
    BY <1>1
  <2>2. d.front + i \in Address
    BY <2>1, SlotOf
  <2>3. ~(d.back - n =< d.front + i)
    BY <1>1
  <2> QED
    BY <1>2, <2>2, <2>3 DEF Destroy
<1>5. \A i \in SizeOf(d) - n .. SizeOf(e) - 1 : FALSE
  BY <1>1, <1>3
<1> QED
  BY <1>3, <1>4, <1>5 DEF Removed, e

\* erase closes the gap from the shorter side.  When nothing is erased the elements on
\* that side are moved onto themselves.
LEMMA EraseRangeRemoved ==
  ASSUME NEW d, Good(d), SelfMoveKeeps, NEW index \in Nat, NEW n \in Nat,
         index + n =< SizeOf(d)
  PROVE  LET first == d.front + index
             last == first + n
             e == EraseRange(d, first, last)
         IN  /\ Removed(d, e, index, n)
             /\ EraseReturns(d, first, last) - e.front = index
<1> DEFINE first == d.front + index
           last == first + n
           e == EraseRange(d, first, last)
<1>1. /\ SizeOf(d) \in Nat /\ SizeOf(d) = d.back - d.front
      /\ d.front \in Nat /\ d.back \in Nat /\ first \in Nat /\ last \in Nat
      /\ last - first = n /\ first - d.front = index /\ last =< d.back
  BY GoodIndices DEF SizeOf, Indices
<1>2. /\ Good(e)
  <2>1. d.front =< first /\ first =< last
    BY <1>1
  <2> HIDE DEF first, last
  <2> QED
    BY <1>1, <2>1, EraseRangeGood
<1>3. CASE EraseMovesFront(d, first, last)
  <2> DEFINE slid == Slide(d.slots, d.front, first, d.front + n)
  <2>1. /\ e.front = d.front + n /\ e.back = d.back
        /\ e.slots = Destroy(slid, d.front, d.front + n)
    <3> HIDE DEF first, last, slid
    <3>1. e = PopFront([d EXCEPT !.slots = slid], n)
      BY <1>1, <1>3 DEF EraseRange, slid
    <3>2. /\ [d EXCEPT !.slots = slid].slots = slid
          /\ [d EXCEPT !.slots = slid].front = d.front
          /\ [d EXCEPT !.slots = slid].back = d.back
      BY DEF Good, DevectorType
    <3> QED
      BY <3>1, <3>2 DEF PopFront
  <2>2. /\ \A i \in 0 .. index - 1 :
             d.front + n + i \in Address => slid[d.front + n + i] = d.slots[d.front + i]
        /\ \A a \in Address : last =< a => slid[a] = d.slots[a]
    <3>1. CASE n = 0
      <4>1. d.front + n = d.front
        BY <1>1, <3>1
      <4>2. \A a \in Address : slid[a] = d.slots[a]
        BY <4>1 DEF Slide
      <4> QED
        BY <4>1, <4>2
    <3>2. CASE n # 0
      <4>1. /\ d.front + n # d.front /\ d.front \in Int /\ first \in Int /\ d.front + n \in Int
            /\ d.front + n + index = last
        BY <1>1, <3>2
      <4>2. \A a \in Address : a \in Int /\ (last =< a => first =< a)
        BY <1>1, SizesAssumption DEF Address
      <4> HIDE DEF first, last
      <4>3. /\ \A i \in 0 .. first - d.front - 1 :
                 d.front + n + i \in Address => slid[d.front + n + i] = d.slots[d.front + i]
            /\ \A a \in Address :
                 /\ a < d.front + n \/ d.front + n + (first - d.front) =< a
                 /\ a < d.front \/ first =< a
                 => slid[a] = d.slots[a]
        BY <4>1, SlideReads, SMTT(30)
      <4> QED
        BY <1>1, <4>1, <4>2, <4>3
    <3> QED
      BY <3>1, <3>2
  <2>3. EraseReturns(d, first, last) = last /\ last - (d.front + n) = index
    BY <1>1, <1>3 DEF EraseReturns
  <2> HIDE DEF e, first, last, slid
  <2>4. SizeOf(e) = SizeOf(d) - n
    BY <1>1, <2>1 DEF SizeOf
  <2>5. ASSUME NEW i \in 0 .. SizeOf(e) - 1
        PROVE  /\ e.front + i \in Address /\ e.slots[e.front + i] = slid[e.front + i]
               /\ e.front + i = d.front + n + i
    <3>1. e.front + i \in Address
      BY <1>2, SlotOf
    <3>2. ~(e.front + i < d.front + n)
      BY <1>1, <2>1
    <3> QED
      BY <2>1, <3>1, <3>2 DEF Destroy
  <2>6. ASSUME NEW i \in 0 .. index - 1 PROVE e.slots[e.front + i] = d.slots[d.front + i]
    <3>1. i \in 0 .. SizeOf(e) - 1
      BY <1>1, <2>4
    <3> QED
      BY <2>2, <2>5, <3>1
  <2>7. ASSUME NEW i \in index .. SizeOf(e) - 1
        PROVE  e.slots[e.front + i] = d.slots[d.front + n + i]
    <3>1. i \in 0 .. SizeOf(e) - 1
      BY <1>1
    <3>2. last =< d.front + n + i
      BY <1>1 DEF last, first
    <3> QED
      BY <2>2, <2>5, <3>1, <3>2
  <2> QED
    BY <2>1, <2>3, <2>4, <2>6, <2>7 DEF Removed, e, first, last
<1>4. CASE ~EraseMovesFront(d, first, last)
  <2> DEFINE slid == Slide(d.slots, last, d.back, first)
  <2>1. /\ e.front = d.front /\ e.back = d.back - n
        /\ e.slots = Destroy(slid, d.back - n, d.back)
    <3> HIDE DEF first, last, slid
    <3>1. e = PopBack([d EXCEPT !.slots = slid], n)
      BY <1>1, <1>4 DEF EraseRange, slid
    <3>2. /\ [d EXCEPT !.slots = slid].slots = slid
          /\ [d EXCEPT !.slots = slid].front = d.front
          /\ [d EXCEPT !.slots = slid].back = d.back
      BY DEF Good, DevectorType
    <3> QED
      BY <3>1, <3>2 DEF PopBack
  <2>2. /\ \A i \in 0 .. d.back - last - 1 :
             first + i \in Address => slid[first + i] = d.slots[last + i]
        /\ \A a \in Address : a < first => slid[a] = d.slots[a]
    <3>1. CASE n = 0
      <4>1. first = last
        BY <1>1, <3>1
      <4>2. \A a \in Address : slid[a] = d.slots[a]
        BY <4>1 DEF Slide
      <4> QED
        BY <4>1, <4>2
    <3>2. CASE n # 0
      <4>1. first # last /\ first \in Int /\ last \in Int /\ d.back \in Int
        BY <1>1, <3>2
      <4>2. \A a \in Address : a \in Int /\ (a < first => a < last)
        BY <1>1, SizesAssumption DEF Address
      <4> HIDE DEF first, last
      <4>3. /\ \A i \in 0 .. d.back - last - 1 :
                 first + i \in Address => slid[first + i] = d.slots[last + i]
            /\ \A a \in Address :
                 /\ a < first \/ first + (d.back - last) =< a
                 /\ a < last \/ d.back =< a
                 => slid[a] = d.slots[a]
        BY <4>1, SlideReads, ZenonT(60)
      <4> QED
        BY <4>2, <4>3
    <3> QED
      BY <3>1, <3>2
  <2>3. EraseReturns(d, first, last) = first /\ first - d.front = index
    BY <1>1, <1>4 DEF EraseReturns
  <2> HIDE DEF e, first, last, slid
  <2>4. SizeOf(e) = SizeOf(d) - n
    BY <1>1, <2>1 DEF SizeOf
  <2>5. ASSUME NEW i \in 0 .. SizeOf(e) - 1
        PROVE  /\ e.front + i \in Address /\ e.slots[e.front + i] = slid[e.front + i]
               /\ e.front + i = d.front + i
    <3>1. e.front + i \in Address
      BY <1>2, SlotOf
    <3>2. ~(d.back - n =< e.front + i)
      BY <1>1, <2>1, <2>4
    <3> QED
      BY <2>1, <3>1, <3>2 DEF Destroy
  <2>6. ASSUME NEW i \in 0 .. index - 1 PROVE e.slots[e.front + i] = d.slots[d.front + i]
    <3>1. i \in 0 .. SizeOf(e) - 1 /\ d.front + i < first
      BY <1>1, <2>4 DEF first
    <3> QED
      BY <2>2, <2>5, <3>1
  <2>7. ASSUME NEW i \in index .. SizeOf(e) - 1
        PROVE  e.slots[e.front + i] = d.slots[d.front + n + i]
    <3>1. i \in 0 .. SizeOf(e) - 1
      BY <1>1
    <3>2. /\ i - index \in 0 .. d.back - last - 1
          /\ first + (i - index) = d.front + i /\ last + (i - index) = d.front + n + i
      BY <1>1, <2>4 DEF last, first
    <3>3. slid[first + (i - index)] = d.slots[last + (i - index)]
      BY <2>2, <2>5, <3>1, <3>2
    <3> QED
      BY <2>5, <3>1, <3>2, <3>3
  <2> QED
    BY <2>1, <2>3, <2>4, <2>6, <2>7 DEF Removed, e, first, last
<1> QED
  BY <1>3, <1>4

-----------------------------------------------------------------------------
\* What the operations that insert or remove nothing do

\* An object that holds xs and nothing else.
LEMMA ContentsAre ==
  ASSUME NEW e, Good(e), NEW xs \in Seq(Object), SizeOf(e) = Len(xs),
         \A i \in 0 .. Len(xs) - 1 : e.slots[e.front + i] = xs[i + 1]
  PROVE  Contents(e) = xs
<1>1. /\ Contents(e) \in Seq(Object) /\ Len(Contents(e)) = Len(xs) /\ Len(xs) \in Nat
      /\ \A i \in 1 .. Len(xs) : Contents(e)[i] = e.slots[e.front + i - 1]
      /\ e.front \in Nat
  BY ContentsSeq, GoodIndices DEF Indices
<1>2. ASSUME NEW i \in 1 .. Len(xs) PROVE Contents(e)[i] = xs[i]
  <2>1. i - 1 \in 0 .. Len(xs) - 1 /\ e.front + (i - 1) = e.front + i - 1 /\ (i - 1) + 1 = i
    BY <1>1
  <2>2. e.slots[e.front + (i - 1)] = xs[(i - 1) + 1]
    BY <2>1
  <2> QED
    BY <1>1, <2>1, <2>2
<1> QED
  BY <1>1, <1>2, SeqEqual

LEMMA ClearContents ==
  ASSUME NEW d, Good(d)
  PROVE  Contents(Clear(d)) = << >>
<1>1. Clear(d).front = 0 /\ Clear(d).back = 0 /\ Good(Clear(d))
  BY ClearGood DEF Clear, Good, DevectorType
<1>2. SizeOf(Clear(d)) = 0
  BY <1>1 DEF SizeOf
<1> QED
  BY <1>1, <1>2, ContentsSeq, EmptySeq

\* assign, whichever slots it constructs, assigns to or destroys
LEMMA AssignContents ==
  ASSUME NEW d, Good(d), NEW xs \in Seq(Object), AssignOk(d, Len(xs))
  PROVE  Contents(Assign(d, xs)) = xs
<1> DEFINE e == Assign(d, xs)
           n == Len(xs)
           put(s) == Put(s, 0, xs)
<1>1. /\ Indices(d) /\ n \in Nat /\ Good(e) /\ d.cap \in Nat /\ d.front \in Nat /\ d.back \in Nat
  BY GoodIndices, AssignGood DEF Indices
<1>2. e.front = 0 /\ e.back = n
  BY DEF Assign, OverwriteBuffer, AllocateAndCopyRange, Good, DevectorType
<1>3. SizeOf(e) = n
  <2> HIDE DEF e, n
  <2> QED
    BY <1>1, <1>2 DEF SizeOf
<1>4. ASSUME NEW s, NEW i \in 0 .. n - 1, i \in Address PROVE put(s)[i] = xs[i + 1]
  <2>1. 0 + i = i /\ 0 \in Int
    BY <1>1
  <2>2. 0 + i \in Address => Put(s, 0, xs)[0 + i] = xs[i + 1]
    BY <2>1, PutReads, SMTT(30)
  <2> QED
    BY <1>4, <2>1, <2>2
<1>5. ASSUME NEW i \in 0 .. n - 1 PROVE e.slots[e.front + i] = xs[i + 1]
  <2>1. e.front + i \in Address /\ e.front + i = i
    <3> HIDE DEF e, n
    <3>1. e.front + i = i
      BY <1>1, <1>2
    <3> QED
      BY <1>1, <1>3, <3>1, SlotOf
  <2>2. CASE d.cap >= n
    <3> DEFINE m == Smaller(Larger(d.front, n), d.back)
    <3>1. e.slots = Destroy(put(d.slots), m, d.back)
      BY <2>2 DEF Assign, OverwriteBuffer, Good, DevectorType
    <3>2. i < m \/ d.back =< i
      <4> HIDE DEF n, e
      <4> QED
        BY <1>1 DEF Smaller, Larger
    <3>3. i \in Int /\ m \in Int
      <4> HIDE DEF n, e
      <4> QED
        BY <1>1 DEF Smaller, Larger
    <3> HIDE DEF m, e, n, put
    <3>4. e.slots[i] = put(d.slots)[i]
      BY <1>1, <2>1, <3>1, <3>2, <3>3 DEF Destroy
    <3> QED
      BY <1>4, <2>1, <3>4
  <2>3. CASE ~(d.cap >= n)
    <3>1. e.slots = put(NoObjects)
      BY <2>3 DEF Assign, AllocateAndCopyRange
    <3> HIDE DEF e, n, put
    <3> QED
      BY <1>4, <2>1, <3>1
  <2> QED
    BY <2>2, <2>3
<1> HIDE DEF e
<1> QED
  BY <1>1, <1>3, <1>5, ContentsAre DEF e

\* reserve_front, reserve_back and shrink_to_fit
LEMMA ReserveFrontContents ==
  ASSUME NEW d, Good(d), NEW n \in Nat, ReserveFrontOk(d, n)
  PROVE  Contents(ReserveFront(d, n)) = Contents(d)
<1>1. /\ Indices(d) /\ SizeOf(d) \in Nat /\ SizeOf(d) = d.back - d.front
      /\ MaxSize =< SizeMax /\ SizeMax \in Nat
  BY GoodIndices, SizesAssumption DEF SizeOf, Indices
<1>2. CASE ~(FrontCapacity(d) >= n)
  <2>1. n + BackFree(d) =< MaxSize /\ n + BackFree(d) \in Nat /\ SizeOf(d) =< n
    BY <1>1, <1>2 DEF ReserveFrontOk, FrontCapacity, BackFree, Indices
  <2>2. Wrap(n + BackFree(d)) = n + BackFree(d)
    BY <1>1, <2>1 DEF Wrap, Indices
  <2>3. /\ n + BackFree(d) \in Size /\ SBuf =< n + BackFree(d) /\ n - SizeOf(d) \in Nat
        /\ (n - SizeOf(d)) + SizeOf(d) =< n + BackFree(d)
    BY <1>1, <1>2, <2>1 DEF FrontCapacity, BackFree, Indices, Size
  <2>4. Contents(ReallocateAt(d, n + BackFree(d), n - SizeOf(d))) = Contents(d)
    BY <2>3, ReallocateAtContents
  <2> QED
    BY <1>2, <2>2, <2>4 DEF ReserveFront
<1> QED
  BY <1>2 DEF ReserveFront

LEMMA ReserveBackContents ==
  ASSUME NEW d, Good(d), NEW n \in Nat, ReserveBackOk(d, n)
  PROVE  Contents(ReserveBack(d, n)) = Contents(d)
<1>1. /\ Indices(d) /\ SizeOf(d) \in Nat /\ SizeOf(d) = d.back - d.front
      /\ MaxSize =< SizeMax /\ SizeMax \in Nat
  BY GoodIndices, SizesAssumption DEF SizeOf, Indices
<1>2. CASE ~(BackCapacity(d) >= n)
  <2>1. n + FrontFree(d) =< MaxSize /\ n + FrontFree(d) \in Nat
    BY <1>1, <1>2 DEF ReserveBackOk, FrontFree, Indices
  <2>2. Wrap(n + FrontFree(d)) = n + FrontFree(d)
    BY <1>1, <2>1 DEF Wrap, Indices
  <2>3. /\ n + FrontFree(d) \in Size /\ SBuf =< n + FrontFree(d) /\ d.front \in Nat
        /\ d.front + SizeOf(d) =< n + FrontFree(d)
    BY <1>1, <1>2, <2>1 DEF BackCapacity, FrontFree, Indices, Size
  <2>4. Contents(ReallocateAt(d, n + FrontFree(d), d.front)) = Contents(d)
    BY <2>3, ReallocateAtContents
  <2> QED
    BY <1>2, <2>2, <2>4 DEF ReserveBack
<1> QED
  BY <1>2 DEF ReserveBack

LEMMA ShrinkToFitContents ==
  ASSUME NEW d, Good(d)
  PROVE  Contents(ShrinkToFit(d)) = Contents(d)
<1> DEFINE e == ShrinkToFit(d)
<1>1. Indices(d) /\ SizeOf(d) \in Nat /\ SizeOf(d) = d.back - d.front /\ Good(e)
  BY GoodIndices, ShrinkToFitGood DEF SizeOf, Indices
<1>2. CASE ~ShouldShrink(SizeOf(d), d.cap) \/ IsSmall(d)
  BY <1>2 DEF ShrinkToFit
<1>3. CASE ~(~ShouldShrink(SizeOf(d), d.cap) \/ IsSmall(d))
  <2>1. /\ e.slots = Transfer(d.slots, d.front, d.back, NoObjects, 0)
        /\ e.front = 0 /\ (e.back = SizeOf(d) \/ e.back = 0 + SizeOf(d))
    BY <1>3 DEF ShrinkToFit, ReallocateAt
  <2> HIDE DEF e
  <2>2. SizeOf(e) = SizeOf(d)
    BY <1>1, <2>1 DEF SizeOf
  <2> QED
    BY <1>1, <2>1, <2>2, MovedContents DEF e
<1> QED
  BY <1>2, <1>3

\* The contents after an insertion.
LEMMA InsertedContents ==
  ASSUME NEW d, Good(d), NEW e, Good(e), NEW index \in 0 .. SizeOf(d),
         NEW xs \in Seq(Object), Inserted(d, e, index, xs)
  PROVE  LET s == Contents(d)
         IN  Contents(e) = SubSeq(s, 1, index) \o xs \o SubSeq(s, index + 1, Len(s))
<1> DEFINE s == Contents(d)
           r == Contents(e)
<1>0. /\ s \in Seq(Object) /\ Len(s) = SizeOf(d) /\ SizeOf(d) \in Nat
      /\ r \in Seq(Object) /\ Len(r) = Len(s) + Len(xs) /\ Len(xs) \in Nat
      /\ index \in Nat /\ index =< Len(s)
  BY ContentsSeq DEF Inserted
<1>1. /\ \A i \in 1 .. index : r[i] = s[i]
      /\ \A i \in 1 .. Len(xs) : r[index + i] = xs[i]
      /\ \A i \in index + 1 .. Len(s) : r[Len(xs) + i] = s[i]
  <2>1. d.front \in Nat /\ e.front \in Nat
    BY GoodIndices DEF Indices
  <2>2. /\ \A i \in 1 .. Len(s) : s[i] = d.slots[d.front + (i - 1)]
        /\ \A i \in 1 .. Len(r) : r[i] = e.slots[e.front + (i - 1)]
    BY <1>0, <2>1, ContentsSeq
  <2> HIDE DEF r, s
  <2>3. ASSUME NEW i \in 1 .. index PROVE r[i] = s[i]
    <3>1. i - 1 \in 0 .. index - 1 /\ i \in 1 .. Len(r) /\ i \in 1 .. Len(s)
      BY <1>0
    <3> QED
      BY <2>2, <3>1 DEF Inserted
  <2>4. ASSUME NEW i \in 1 .. Len(xs) PROVE r[index + i] = xs[i]
    <3>1. i - 1 \in 0 .. Len(xs) - 1 /\ index + i \in 1 .. Len(r)
      BY <1>0
    <3>2. r[index + i] = e.slots[e.front + (index + i - 1)]
      BY <2>2, <3>1
    <3>3. e.slots[e.front + index + (i - 1)] = xs[(i - 1) + 1]
      BY <3>1 DEF Inserted
    <3>4. e.front + index + (i - 1) = e.front + (index + i - 1) /\ (i - 1) + 1 = i
      BY <1>0, <2>1
    <3> QED
      BY <3>2, <3>3, <3>4
  <2>5. ASSUME NEW i \in index + 1 .. Len(s) PROVE r[Len(xs) + i] = s[i]
    <3>1. /\ i - 1 \in index .. SizeOf(d) - 1
          /\ i \in 1 .. Len(s) /\ Len(xs) + i \in 1 .. Len(r)
      BY <1>0
    <3>2. r[Len(xs) + i] = e.slots[e.front + (Len(xs) + i - 1)]
      BY <2>2, <3>1
    <3>3. e.slots[e.front + Len(xs) + (i - 1)] = d.slots[d.front + (i - 1)]
      BY <3>1 DEF Inserted
    <3>4. e.front + Len(xs) + (i - 1) = e.front + (Len(xs) + i - 1)
      BY <1>0, <2>1
    <3> QED
      BY <2>2, <3>1, <3>2, <3>3, <3>4
  <2> QED
    BY <2>3, <2>4, <2>5
<1> HIDE DEF r, s
<1>2. /\ index \in 0 .. Len(s) /\ s \in Seq(Object) /\ xs \in Seq(Object)
      /\ r \in Seq(Object) /\ Len(r) = Len(s) + Len(xs)
  BY <1>0
<1>3. IsSplice(r, s, index, xs)
  BY <1>1, <1>2 DEF IsSplice
<1>4. r = SubSeq(s, 1, index) \o xs \o SubSeq(s, index + 1, Len(s))
  BY <1>2, <1>3, SplicedIs
<1> QED
  BY <1>4 DEF r, s

=============================================================================
