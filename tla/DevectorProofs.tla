----------------------------- MODULE DevectorProofs -----------------------------
(***************************************************************************)
(* For every small buffer, growth policy, shrink policy and size_type, and *)
(* every sequence of calls: the data members of a devector keep their      *)
(* invariants, its buffer is freed exactly if it was allocated and every   *)
(* element of it is an object, after every call that returns and every     *)
(* call that throws.  If moving an element does not throw, there are no    *)
(* objects in its buffer but its elements.                                 *)
(*                                                                         *)
(* Then the same of the reserve promise: the elements a caller was         *)
(* promised room for can be pushed without a reallocation.                 *)
(*                                                                         *)
(* Then: a devector implements SequenceContract, if moving an element does *)
(* not throw and moving it onto itself leaves it alone.  That proof goes   *)
(* from memory to sequences: DevectorOpsProofs says which elements each    *)
(* member function has inserted or removed (Inserted, Removed), and here   *)
(* each equation of the contract follows from that.  And which calls leave *)
(* the elements in place.                                                  *)
(*                                                                         *)
(* At the end, a call that gives a devector another buffer, step by step,  *)
(* whether elements are moved or copied, and wherever it throws: the       *)
(* guards are responsible for each object in the new buffer, each once;    *)
(* one buffer is left; and a caller sees one step of DevectorOps, or none  *)
(* ("Strong exception guarantee").                                         *)
(***************************************************************************)
EXTENDS DevectorReserve, Reallocation, DevectorOpsProofs

-----------------------------------------------------------------------------
\* The specification

\* The inductive invariant: the three properties together.  None of them is
\* inductive alone: what a call does to the memory depends on the indices, and
\* whether it frees the buffer on the capacity.
Inv ==
  /\ Good(dv)
  /\ call.out \in {"ok", "threw"}

\* The ranges a caller passes are sequences of objects, no longer than the bound.
LEMMA RangesOfObjects ==
  ASSUME NEW n \in Nat, NEW xs \in Ranges(n)
  PROVE  xs \in Seq(Object) /\ Len(xs) =< n
<1>1. PICK m \in 0 .. n : xs \in [1 .. m -> Values]
  BY DEF Ranges
<1>2. xs \in [1 .. m -> Object] /\ m \in Nat
  BY <1>1 DEF Object
<1>3. xs \in Seq(Object)
  BY <1>2
<1>4. Len(xs) = m
  BY <1>2
<1> QED
  BY <1>1, <1>3, <1>4

\* An operation that returns has one outcome, one that throws any of some set.
LEMMA OutcomesGood ==
  /\ \A op, n, xs, after :
       Good(after) /\ Completes(op, n, xs, after) => Inv'
  /\ \A op, at, n, xs, after, slot :
       Good(after) /\ Returns(op, at, n, xs, after, slot) => Inv'
  /\ \A op, at, n, xs, outcomes :
       (\A e \in outcomes : Good(e)) /\ Throws(op, at, n, xs, outcomes) => Inv'
<1>1. ASSUME NEW op, NEW n, NEW xs, NEW after,
             Good(after), Completes(op, n, xs, after)
      PROVE  Inv'
  <2>1. dv' = after /\ call'.out = "ok"
    BY <1>1 DEF Completes, Call
  <2>2. Good(dv)'
    BY <1>1, <2>1 DEF Good, InvariantsOk, HasBuffer, BufferMatches, MustFree,
                      IsSmall, Held
  <2> QED
    BY <2>1, <2>2 DEF Inv
<1>2. ASSUME NEW op, NEW at, NEW n, NEW xs, NEW after, NEW slot,
             Good(after), Returns(op, at, n, xs, after, slot)
      PROVE  Inv'
  <2>1. dv' = after /\ call'.out = "ok"
    BY <1>2 DEF Returns, Call
  <2>2. Good(dv)'
    BY <1>2, <2>1 DEF Good, InvariantsOk, HasBuffer, BufferMatches, MustFree,
                      IsSmall, Held
  <2> QED
    BY <2>1, <2>2 DEF Inv
<1>3. ASSUME NEW op, NEW at, NEW n, NEW xs, NEW outcomes,
             \A e \in outcomes : Good(e), Throws(op, at, n, xs, outcomes)
      PROVE  Inv'
  <2>1. dv' \in outcomes /\ call'.out = "threw"
    BY <1>3 DEF Throws, Call
  <2>2. Good(dv')
    BY <1>3, <2>1
  <2>3. Good(dv)'
    BY <2>2 DEF Good, InvariantsOk, HasBuffer, BufferMatches, MustFree,
                IsSmall, Held
  <2> QED
    BY <2>1, <2>3 DEF Inv
<1> QED
  BY <1>1, <1>2, <1>3

\* Every constructor leaves a good object.
LEMMA InitGood == Init => Inv
<1> SUFFICES ASSUME Init PROVE Inv
  OBVIOUS
<1>0. MaxLen \in Nat /\ MaxLen =< MaxSize
  BY BoundsAssumption, SizesAssumption DEF Size
<1>1. call.out = "ok"
  BY DEF Init, Call
<1>2. CASE \E m, n \in 0 .. MaxLen : m + n =< MaxSize /\ dv = Reserved(m, n)
  <2>1. PICK m \in 0 .. MaxLen, n \in 0 .. MaxLen :
               m + n =< MaxSize /\ dv = Reserved(m, n)
    BY <1>2
  <2>2. m \in Nat /\ n \in Nat
    BY <1>0
  <2> QED
    BY <1>1, <2>1, <2>2, ReservedGood DEF Inv
<1>3. CASE \E xs \in Ranges(MaxLen) : dv = Constructed(xs)
  <2>1. PICK xs \in Ranges(MaxLen) : dv = Constructed(xs)
    BY <1>3
  <2>2. xs \in Seq(Object) /\ Len(xs) =< MaxLen
    BY <1>0, RangesOfObjects
  <2>3. Len(xs) =< MaxSize
    BY <1>0, <2>2, SizesAssumption
  <2> QED
    BY <1>1, <2>1, <2>2, <2>3, ConstructedGood DEF Inv
<1> QED
  BY <1>2, <1>3 DEF Init

\* Every call leaves a good object.
LEMMA NextGood == Inv /\ [Next]_vars => Inv'
<1> SUFFICES ASSUME Inv, [Next]_vars PROVE Inv'
  OBVIOUS
<1>0. /\ Good(dv) /\ Indices(dv)
      /\ MaxLen \in Nat /\ MaxRange \in Nat
      /\ Size \subseteq Nat /\ Values \subseteq Object
  BY GoodIndices, BoundsAssumption, SizesAssumption DEF Inv, Size, Object
<1>1. ASSUME NEW x \in Values, EmplaceFrontCall(x) PROVE Inv'
  BY <1>0, <1>1, EmplaceFrontGood, OutcomesGood DEF EmplaceFrontCall
<1>2. ASSUME NEW x \in Values, EmplaceBackCall(x) PROVE Inv'
  BY <1>0, <1>2, EmplaceBackGood, OutcomesGood DEF EmplaceBackCall
<1>3. ASSUME NEW x \in Values, NEW sz \in 0 .. MaxLen, ResizeFrontCall(sz, x)
      PROVE  Inv'
  <2>1. sz \in Nat /\ x \in Object
    BY <1>0
  <2>2. ResizeFrontOk(dv, sz) => Good(ResizeFront(dv, sz, x))
    BY <1>0, <1>3, <2>1, ResizeFrontGood DEF ResizeFrontCall
  <2> QED
    BY <1>0, <1>3, <2>2, OutcomesGood DEF ResizeFrontCall
<1>4. ASSUME NEW x \in Values, NEW sz \in 0 .. MaxLen, ResizeBackCall(sz, x)
      PROVE  Inv'
  <2>1. sz \in Nat /\ x \in Object
    BY <1>0
  <2>2. ResizeBackOk(dv, sz) => Good(ResizeBack(dv, sz, x))
    BY <1>0, <1>4, <2>1, ResizeBackGood DEF ResizeBackCall
  <2> QED
    BY <1>0, <1>4, <2>2, OutcomesGood DEF ResizeBackCall
<1>5. ASSUME NEW x \in Values, NEW index \in 0 .. SizeOf(dv), EmplaceCall(index, x)
      PROVE  Inv'
  <2>1. EmplaceOk(dv) => Good(Emplace(dv, index, x))
    BY <1>0, EmplaceGood
  <2>2. \A e \in EmplaceThrew(dv, index) : Good(e)
    BY <1>0, EmplaceThrewGood
  <2> QED
    BY <1>5, <2>1, <2>2, OutcomesGood DEF EmplaceCall
<1>6. ASSUME PopFrontCall PROVE Inv'
  <2>1. 1 =< SizeOf(dv)
    BY <1>0, <1>6 DEF PopFrontCall, SizeOf, Indices
  <2> QED
    BY <1>0, <1>6, <2>1, PopFrontGood, OutcomesGood DEF PopFrontCall
<1>7. ASSUME PopBackCall PROVE Inv'
  <2>1. 1 =< SizeOf(dv)
    BY <1>0, <1>7 DEF PopBackCall, SizeOf, Indices
  <2> QED
    BY <1>0, <1>7, <2>1, PopBackGood, OutcomesGood DEF PopBackCall
<1>8. ASSUME ClearCall PROVE Inv'
  BY <1>0, <1>8, ClearGood, OutcomesGood DEF ClearCall
<1>9. ASSUME NEW n \in Size, ReserveFrontCall(n) PROVE Inv'
  BY <1>0, <1>9, ReserveFrontGood, OutcomesGood DEF ReserveFrontCall
<1>10. ASSUME NEW n \in Size, ReserveBackCall(n) PROVE Inv'
  BY <1>0, <1>10, ReserveBackGood, OutcomesGood DEF ReserveBackCall
<1>11. ASSUME ShrinkToFitCall PROVE Inv'
  BY <1>0, <1>11, ShrinkToFitGood, OutcomesGood DEF ShrinkToFitCall
<1>12. ASSUME NEW index \in 0 .. SizeOf(dv), NEW xs \in Ranges(MaxRange),
              InsertCall(index, xs)
       PROVE  Inv'
  <2>1. xs \in Seq(Object)
    BY <1>0, RangesOfObjects
  <2>2. InsertRangeOk(dv, Len(xs)) => Good(InsertRange(dv, index, xs))
    BY <1>0, <1>12, <2>1, InsertRangeGood DEF InsertCall
  <2>3. \A e \in InsertRangeThrew(dv, index, xs) : Good(e)
    BY <1>0, <2>1, InsertRangeThrewGood
  <2> QED
    BY <1>12, <2>2, <2>3, OutcomesGood DEF InsertCall
<1>13. ASSUME NEW index \in 0 .. SizeOf(dv), NEW n \in 0 .. SizeOf(dv),
              index + n =< SizeOf(dv), EraseCall(index, n)
       PROVE  Inv'
  <2> DEFINE lo == dv.front + index
             hi == lo + n
  <2>1. /\ lo \in Nat /\ hi \in Nat
        /\ dv.front =< lo /\ lo =< hi /\ hi =< dv.back
    BY <1>0, <1>13 DEF SizeOf, Indices
  <2>2. Good(EraseRange(dv, lo, hi))
    BY <1>0, <2>1, EraseRangeGood
  <2>3. \A e \in EraseThrew(dv, lo, hi) : Good(e)
    BY <1>0, <2>1, EraseThrewGood
  <2> QED
    BY <1>13, <2>2, <2>3, OutcomesGood DEF EraseCall
<1>14. ASSUME NEW xs \in Ranges(MaxLen), AssignCall(xs) PROVE Inv'
  <2>1. xs \in Seq(Object)
    BY <1>0, RangesOfObjects
  <2>2. AssignOk(dv, Len(xs)) => Good(Assign(dv, xs))
    BY <1>0, <2>1, AssignGood
  <2>3. \A e \in AssignThrew(dv, xs) : Good(e)
    BY <1>0, <2>1, AssignThrewGood
  <2> QED
    BY <1>14, <2>2, <2>3, OutcomesGood DEF AssignCall
<1>15. ASSUME UNCHANGED vars PROVE Inv'
  BY <1>15 DEF vars, Inv, Good, InvariantsOk, HasBuffer, BufferMatches, MustFree,
               IsSmall, Held
<1> QED
  BY <1>1, <1>2, <1>3, <1>4, <1>5, <1>6, <1>7, <1>8, <1>9, <1>10, <1>11, <1>12,
     <1>13, <1>14, <1>15 DEF Next

\* Every state is good.
LEMMA AlwaysGood == Spec => []Inv
<1>1. Init => Inv
  BY InitGood
<1>2. Inv /\ [Next]_vars => Inv'
  BY NextGood
<1> QED
  BY <1>1, <1>2, PTL DEF Spec

\* Every data member keeps its type: no call computes an index or a capacity
\* above max_size(), for any growth policy and any width of size_type.
THEOREM TypeCorrect == Spec => []TypeOK
<1>1. Inv => TypeOK
  BY DEF Inv, Good, TypeOK
<1> QED
  BY <1>1, AlwaysGood, PTL

\* devector::invariants_ok() holds after every call, and the buffer is handed to
\* the allocator exactly if it came from there.
THEOREM AlwaysWellFormed == Spec => []WellFormed
<1>1. Inv => WellFormed
  BY DEF Inv, Good, WellFormed
<1> QED
  BY <1>1, AlwaysGood, PTL

\* Whatever throws, a move or an assignment of an element included, the devector can
\* still be used and destroyed: its members fit together and every element is an object.
THEOREM AlwaysUsable == Spec => []BasicGuarantee
<1>1. Inv => BasicGuarantee
  BY DEF Inv, Good, BasicGuarantee, WellFormed, Held
<1> QED
  BY <1>1, AlwaysGood, PTL

\* If no move of an element throws, no call leaks an element, destroys one twice or leaves
\* raw memory between the indices, one that threw included.
THEOREM NoElementLost ==
  ASSUME ~ShiftMayThrow
  PROVE  Spec => []ObjectsLive
<1>1. Inv => ObjectsLive
  BY DEF Inv, Good, ObjectsLive, LiveExactly, Held
<1> QED
  BY <1>1, AlwaysGood, PTL

-----------------------------------------------------------------------------
\* What the operations at the ends leave free at each end.  d.back and d.cap - d.front
\* are the elements and the free slots at one end together: pushing and popping at that
\* end must not make them fewer.

\* A reallocation for one more element has room for it.
LEMMA RoomForOneMore ==
  ASSUME NEW d, Good(d), InsertReallocatingOk(d, 1)
  PROVE  /\ CalculateNewCapacity(d, d.cap + 1) \in Nat
         /\ CalculateNewCapacity(d, d.cap + 1) >= d.cap + 1
<1>1. Indices(d) /\ d.cap + 1 \in Nat /\ CapacityOk(d, d.cap + 1)
  BY GoodIndices DEF Indices, InsertReallocatingOk
<1>2. /\ CalculateNewCapacity(d, d.cap + 1) \in Size
      /\ CalculateNewCapacity(d, d.cap + 1) >= d.cap + 1
  BY <1>1, CapacityFacts
<1> QED
  BY <1>1, <1>2 DEF Size, Indices

\* emplace_front keeps the free slots at the back, and uses up one at the front.
LEMMA EmplaceFrontRoom ==
  ASSUME NEW d, Good(d), NEW x, EmplaceFrontOk(d), NEW e, e = EmplaceFront(d, x)
  PROVE  e.back >= d.back /\ e.cap - e.back >= d.cap - d.back
<1>0. Indices(d) /\ d \in DevectorType
  BY GoodIndices DEF Good
<1>1. CASE FrontFree(d) > 0
  <2>1. e.back = d.back /\ e.cap = d.cap
    BY <1>0, <1>1 DEF EmplaceFront, PutFront, DevectorType
  <2> QED
    BY <1>0, <2>1 DEF Indices
<1>2. CASE ~(FrontFree(d) > 0)
  <2> DEFINE c == CalculateNewCapacity(d, d.cap + 1)
  <2>1. c \in Nat /\ c >= d.cap + 1
    BY <1>2, RoomForOneMore DEF EmplaceFrontOk
  <2>2. e.cap = c /\ e.back = c - (d.cap - d.back) - (d.back - d.front) - 1
                                + (d.back - d.front) + 1
    BY <1>2 DEF EmplaceFront, InsertReallocating, BackFree, SizeOf
  <2> HIDE DEF c
  <2> QED
    BY <1>0, <2>1, <2>2 DEF Indices
<1> QED
  BY <1>1, <1>2

\* emplace_back keeps the free slots at the front, and uses up one at the back.
LEMMA EmplaceBackRoom ==
  ASSUME NEW d, Good(d), NEW x, EmplaceBackOk(d), NEW e, e = EmplaceBack(d, x)
  PROVE  e.front >= d.front /\ e.cap - e.front >= d.cap - d.front
<1>0. Indices(d) /\ d \in DevectorType
  BY GoodIndices DEF Good
<1>1. CASE BackFree(d) > 0
  <2>1. e.front = d.front /\ e.cap = d.cap
    BY <1>0, <1>1 DEF EmplaceBack, PutBack, DevectorType
  <2> QED
    BY <1>0, <2>1 DEF Indices
<1>2. CASE ~(BackFree(d) > 0)
  <2> DEFINE c == CalculateNewCapacity(d, d.cap + 1)
  <2>1. c \in Nat /\ c >= d.cap + 1
    BY <1>2, RoomForOneMore DEF EmplaceBackOk
  <2>2. e.cap = c /\ e.front = d.front
    BY <1>2 DEF EmplaceBack, InsertReallocating
  <2> HIDE DEF c
  <2> QED
    BY <1>0, <2>1, <2>2 DEF Indices
<1> QED
  BY <1>1, <1>2

\* resize_front, growing or shrinking, leaves room for as many elements at the front; if
\* it does not go to a larger buffer, it keeps the free slots at the back.
LEMMA ResizeFrontRoom ==
  ASSUME NEW d, Good(d), NEW sz \in Nat, NEW x, ResizeFrontOk(d, sz),
         sz =< FrontCapacity(d) \/ sz + BackFree(d) =< SizeMax,
         NEW e, e = ResizeFront(d, sz, x)
  PROVE  e.back >= d.back /\ (e.cap = d.cap => e.back = d.back)
<1>0. Indices(d) /\ d \in DevectorType
  BY GoodIndices DEF Good
<1>1. CASE sz =< SizeOf(d) \/ sz =< FrontCapacity(d)
  <2>1. e.back = d.back
    BY <1>0, <1>1 DEF ResizeFront, PopFront, PutFront, DevectorType
  <2> QED
    BY <1>0, <2>1 DEF Indices
<1>2. CASE ~(sz =< SizeOf(d) \/ sz =< FrontCapacity(d))
  <2> DEFINE c == CalculateNewCapacity(d, sz + BackFree(d))
  <2>1. /\ BackFree(d) \in Nat /\ FrontCapacity(d) = d.back /\ d.back - d.front \in Int
        /\ BackFree(d) = d.cap - d.back
    BY <1>0 DEF BackFree, FrontCapacity, Indices
  <2>2. c \in Size /\ c >= sz + BackFree(d)
    BY <1>2, <2>1, CapacityFacts DEF ResizeFrontOk
  <2>3. e.back = c - (d.back - d.front) + (d.back - d.front) /\ e.cap = c
    BY <1>2 DEF ResizeFront, ResizeFrontSlowPath, SizeOf
  <2>4. c \in Nat
    BY <1>0, <2>2 DEF Size, Indices
  <2> HIDE DEF c
  <2> QED
    BY <1>0, <1>2, <2>1, <2>2, <2>3, <2>4 DEF Indices
<1> QED
  BY <1>1, <1>2

\* resize_back does so at the back, and keeps the free slots at the front.
LEMMA ResizeBackRoom ==
  ASSUME NEW d, Good(d), NEW sz \in Nat, NEW x, ResizeBackOk(d, sz),
         sz =< BackCapacity(d) \/ sz + FrontFree(d) =< SizeMax,
         NEW e, e = ResizeBack(d, sz, x)
  PROVE  e.front >= d.front /\ e.cap - e.front >= d.cap - d.front
<1>0. Indices(d) /\ d \in DevectorType
  BY GoodIndices DEF Good
<1>1. CASE sz =< SizeOf(d) \/ sz =< BackCapacity(d)
  <2>1. e.front = d.front /\ e.cap = d.cap
    BY <1>0, <1>1 DEF ResizeBack, PopBack, PutBack, DevectorType
  <2> QED
    BY <1>0, <2>1 DEF Indices
<1>2. CASE ~(sz =< SizeOf(d) \/ sz =< BackCapacity(d))
  <2> DEFINE c == CalculateNewCapacity(d, sz + FrontFree(d))
  <2>1. FrontFree(d) \in Nat /\ FrontFree(d) = d.front /\ BackCapacity(d) = d.cap - d.front
    BY <1>0 DEF FrontFree, BackCapacity, Indices
  <2>2. c \in Size /\ c >= sz + FrontFree(d)
    BY <1>2, <2>1, CapacityFacts DEF ResizeBackOk
  <2>3. e.cap = c /\ e.front = d.front
    BY <1>2 DEF ResizeBack, ResizeBackSlowPath
  <2>4. c \in Nat
    BY <1>0, <2>2 DEF Size, Indices
  <2> HIDE DEF c
  <2> QED
    BY <1>0, <1>2, <2>1, <2>2, <2>3, <2>4 DEF Indices
<1> QED
  BY <1>1, <1>2

\* A capacity the allocator grants did not wrap around.
LEMMA NoWrap ==
  ASSUME NEW n \in Nat, n =< MaxSize
  PROVE  Wrap(n) = n
  BY SizesAssumption DEF Wrap

\* reserve_front makes the room asked for, and keeps the free slots at the back.
LEMMA ReserveFrontRoom ==
  ASSUME NEW d, Good(d), NEW n \in Nat, ReserveFrontOk(d, n),
         NEW e, e = ReserveFront(d, n)
  PROVE  /\ e.front >= d.front /\ e.front >= n - SizeOf(d)
         /\ e.cap - e.back >= d.cap - d.back
<1>0. Indices(d) /\ SizeOf(d) = d.back - d.front
  BY GoodIndices DEF SizeOf
<1>1. CASE d.back >= n
  BY <1>0, <1>1 DEF ReserveFront, FrontCapacity, Indices
<1>2. CASE ~(d.back >= n)
  <2>1. n + (d.cap - d.back) =< MaxSize /\ n + (d.cap - d.back) \in Nat
    BY <1>0, <1>2 DEF ReserveFrontOk, FrontCapacity, BackFree, Indices
  <2>2. /\ e.cap = n + (d.cap - d.back) /\ e.front = n - SizeOf(d)
        /\ e.back = n - SizeOf(d) + SizeOf(d)
    BY <1>2, <2>1, NoWrap DEF ReserveFront, ReallocateAt, FrontCapacity, BackFree
  <2> QED
    BY <1>0, <1>2, <2>2 DEF Indices
<1> QED
  BY <1>1, <1>2

\* reserve_back makes the room asked for, and keeps the free slots at the front.
LEMMA ReserveBackRoom ==
  ASSUME NEW d, Good(d), NEW n \in Nat, ReserveBackOk(d, n),
         NEW e, e = ReserveBack(d, n)
  PROVE  /\ e.front >= d.front
         /\ e.cap - e.back >= d.cap - d.back /\ e.cap - e.back >= n - SizeOf(d)
<1>0. Indices(d) /\ SizeOf(d) = d.back - d.front
  BY GoodIndices DEF SizeOf
<1>1. CASE d.cap - d.front >= n
  BY <1>0, <1>1 DEF ReserveBack, BackCapacity, Indices
<1>2. CASE ~(d.cap - d.front >= n)
  <2>1. n + d.front =< MaxSize /\ n + d.front \in Nat
    BY <1>0, <1>2 DEF ReserveBackOk, BackCapacity, FrontFree, Indices
  <2>2. e.cap = n + d.front /\ e.front = d.front /\ e.back = d.front + SizeOf(d)
    BY <1>2, <2>1, NoWrap DEF ReserveBack, ReallocateAt, BackCapacity, FrontFree
  <2> QED
    BY <1>0, <1>2, <2>2 DEF Indices
<1> QED
  BY <1>1, <1>2

-----------------------------------------------------------------------------
\* Copies of an element of the devector itself

\* A slot between the indices holds an object.
LEMMA ElementIsObject ==
  ASSUME NEW d, Good(d), NEW at \in Nat, d.front =< at, at < d.back
  PROVE  d.slots[at] \in Object
<1>1. at \in Address
  BY GoodIndices DEF Indices, Address
<1> QED
  BY <1>1, GoodFacts DEF Held, Memory, Slot

\* insert(pos, n, x) with x in slot `at`: whatever x has become when the second half of
\* the insertion copies it, it is an object.
LEMMA InsertAliasedGood ==
  ASSUME NEW d, Good(d), NEW index \in 0 .. SizeOf(d), NEW n \in Nat, NEW at \in Nat,
         d.front =< at, at < d.back,
         InsertRangeOk(d, n), FreeSlots(d) >= n \/ d.cap + n =< SizeMax
  PROVE  Good(InsertAliased(d, index, n, at))
<1> DEFINE position == d.front + index
           nFront   == Smaller(FrontFree(d), n)
           xs       == Copies(nFront, d.slots[at])
           front    == InsertNearFront(d, position, xs)
           ys       == Copies(n - nFront, front.slots[at])
<1>0. /\ Indices(d) /\ index \in Nat /\ index =< d.back - d.front
      /\ position \in Nat /\ d.front =< position /\ position =< d.back
      /\ d.slots[at] \in Object /\ d \in DevectorType
  BY GoodIndices, ElementIsObject DEF SizeOf, Indices, Good
<1>1. CASE \/ index = SizeOf(d) /\ BackFree(d) >= n
           \/ index = 0 /\ FrontFree(d) >= n
           \/ FreeSlots(d) < n
  <2>1. Copies(n, d.slots[at]) \in Seq(Object) /\ Len(Copies(n, d.slots[at])) = n
    BY <1>0, SomeCopies
  <2>2. Good(InsertRange(d, index, Copies(n, d.slots[at])))
    BY <2>1, InsertRangeGood
  <2> QED
    BY <1>1, <2>2 DEF InsertAliased
<1>2. CASE ~(\/ index = SizeOf(d) /\ BackFree(d) >= n
             \/ index = 0 /\ FrontFree(d) >= n
             \/ FreeSlots(d) < n)
  <2>1. /\ nFront \in Nat /\ nFront =< n /\ nFront =< d.front
        /\ n - nFront \in Nat /\ n - nFront =< d.cap - d.back
    BY <1>0, <1>2 DEF Smaller, FrontFree, BackFree, FreeSlots, Indices
  <2> HIDE DEF nFront
  <2>2. xs \in Seq(Object) /\ Len(xs) = nFront
    BY <1>0, <2>1, SomeCopies
  <2> HIDE DEF xs
  <2>3. Good(front)
    BY <1>0, <2>1, <2>2, InsertNearFrontGood DEF FrontFree
  <2>4. /\ front.cap = d.cap /\ front.back = d.back
        /\ front.front = d.front - nFront
    BY <1>0, <2>2 DEF InsertNearFront, DevectorType
  <2> HIDE DEF front
  <2>5. front.slots[at] \in Object
    BY <1>0, <2>1, <2>3, <2>4, ElementIsObject DEF Indices
  <2>6. ys \in Seq(Object) /\ Len(ys) = n - nFront
    BY <2>1, <2>5, SomeCopies
  <2> HIDE DEF ys
  <2>7. Good(InsertNearBack(front, position, ys))
    <3>1. /\ Len(ys) =< BackFree(front)
          /\ front.front =< position /\ position =< front.back
      BY <1>0, <2>1, <2>4, <2>6 DEF BackFree, Indices
    <3> QED
      BY <1>0, <2>3, <2>6, <3>1, InsertNearBackGood
  <2> QED
    BY <1>2, <2>7 DEF InsertAliased, ys, front, xs, nFront
<1> QED
  BY <1>1, <1>2

\* Every call, one that inserts copies of an element included, leaves a good object.
LEMMA AnyCallGood == Inv /\ AnyCall => Inv'
<1> SUFFICES ASSUME Inv, AnyCall PROVE Inv'
  OBVIOUS
<1>1. CASE Next
  BY <1>1, NextGood
<1>2. ASSUME NEW index \in 0 .. SizeOf(dv), NEW n \in 0 .. MaxRange,
             NEW i \in 0 .. SizeOf(dv) - 1, InsertAliasedCall(index, n, i)
      PROVE  Inv'
  <2>1. /\ Good(dv) /\ n \in Nat /\ dv.front + i \in Nat
        /\ dv.front =< dv.front + i /\ dv.front + i < dv.back
    BY GoodIndices, BoundsAssumption DEF Inv, SizeOf, Indices
  <2>2. Good(InsertAliased(dv, index, n, dv.front + i))
    BY <1>2, <2>1, InsertAliasedGood DEF InsertAliasedCall
  <2> QED
    BY <1>2, <2>2, OutcomesGood DEF InsertAliasedCall
<1> QED
  BY <1>1, <1>2 DEF AnyCall

-----------------------------------------------------------------------------
\* The promise

\* The inductive invariant: what is owed counts elements, and there is room for them.
ReserveInv ==
  /\ Inv
  /\ owedFront \in Nat /\ owedBack \in Nat
  /\ PromiseKept

\* The calls at the front, at the back, and all others, as Account tells them apart.
PushesFront == {"emplace_front", "pop_front", "resize_front"}
PushesBack  == {"emplace_back", "pop_back", "resize_back"}

\* The room there is, in numbers, before and after.
LEMMA RoomInNumbers ==
  ASSUME Good(dv), Good(dv')
  PROVE  /\ Indices(dv) /\ Indices(dv')
         /\ SizeOf(dv) = dv.back - dv.front /\ SizeOf(dv') = dv'.back - dv'.front
         /\ FrontFree(dv') = dv'.front /\ BackFree(dv') = dv'.cap - dv'.back
         /\ FrontFree(dv) = dv.front /\ BackFree(dv) = dv.cap - dv.back
  BY GoodIndices DEF SizeOf, FrontFree, BackFree

\* What a call at the front that returns has to leave for the promise to hold.
LEMMA FrontCallKeeps ==
  ASSUME ReserveInv, Good(dv'), Account, call'.out = "ok", call'.op \in PushesFront,
         dv'.back >= dv.back,
         \/ dv'.cap - dv'.back >= dv.cap - dv.back
         \/ /\ call'.op = "resize_front" /\ dv'.cap # dv.cap
            /\ "resize_front" \in Excepted
  PROVE  owedFront' \in Nat /\ owedBack' \in Nat /\ PromiseKept'
<1>1. /\ owedFront' = Larger(0, owedFront - (SizeOf(dv') - SizeOf(dv)))
      /\ owedBack' = IF KeepsBack THEN owedBack ELSE 0
  BY DEF Account, Owed, PushesFront
<1>2. /\ owedFront \in Nat /\ owedBack \in Nat
      /\ owedFront =< FrontFree(dv) /\ owedBack =< BackFree(dv) /\ Good(dv)
  BY DEF ReserveInv, PromiseKept, Inv
<1>3. owedFront' \in Nat /\ owedFront' =< FrontFree(dv')
  BY <1>1, <1>2, RoomInNumbers DEF Larger, Indices
<1>4. owedBack' \in Nat /\ owedBack' =< BackFree(dv')
  <2>1. KeepsBack => dv'.cap - dv'.back >= dv.cap - dv.back
    BY DEF KeepsBack
  <2> QED
    BY <1>1, <1>2, <2>1, RoomInNumbers DEF Indices
<1> QED
  BY <1>3, <1>4 DEF PromiseKept, FrontFree, BackFree

\* The same at the back.
LEMMA BackCallKeeps ==
  ASSUME ReserveInv, Good(dv'), Account, call'.out = "ok", call'.op \in PushesBack,
         dv'.front >= dv.front, dv'.cap - dv'.front >= dv.cap - dv.front
  PROVE  owedFront' \in Nat /\ owedBack' \in Nat /\ PromiseKept'
<1>1. /\ owedBack' = Larger(0, owedBack - (SizeOf(dv') - SizeOf(dv)))
      /\ owedFront' = owedFront
  BY DEF Account, Owed, KeepsBack, PushesBack
<1>2. /\ owedFront \in Nat /\ owedBack \in Nat
      /\ owedFront =< FrontFree(dv) /\ owedBack =< BackFree(dv) /\ Good(dv)
  BY DEF ReserveInv, PromiseKept, Inv
<1>3. owedFront' \in Nat /\ owedFront' =< FrontFree(dv')
  BY <1>1, <1>2, RoomInNumbers DEF Indices
<1>4. owedBack' \in Nat /\ owedBack' =< BackFree(dv')
  BY <1>1, <1>2, RoomInNumbers DEF Larger, Indices
<1> QED
  BY <1>3, <1>4 DEF PromiseKept, FrontFree, BackFree

\* A reservation that returns.
LEMMA ReservationKeeps ==
  ASSUME ReserveInv, Good(dv'), Account, call'.out = "ok", call'.n \in Nat,
         dv'.front >= dv.front, dv'.cap - dv'.back >= dv.cap - dv.back,
         \/ call'.op = "reserve_front" /\ dv'.front >= call'.n - SizeOf(dv)
         \/ call'.op = "reserve_back" /\ dv'.cap - dv'.back >= call'.n - SizeOf(dv)
  PROVE  owedFront' \in Nat /\ owedBack' \in Nat /\ PromiseKept'
<1>2. /\ owedFront \in Nat /\ owedBack \in Nat
      /\ owedFront =< FrontFree(dv) /\ owedBack =< BackFree(dv) /\ Good(dv)
  BY DEF ReserveInv, PromiseKept, Inv
<1>3. CASE call'.op = "reserve_front"
  <2>1. owedFront' = Larger(owedFront, call'.n - SizeOf(dv)) /\ owedBack' = owedBack
    BY <1>3 DEF Account, Owed, KeepsBack
  <2>2. owedFront' \in Nat /\ owedFront' =< FrontFree(dv')
    BY <1>2, <1>3, <2>1, RoomInNumbers DEF Larger, Indices
  <2>3. owedBack' \in Nat /\ owedBack' =< BackFree(dv')
    BY <1>2, <2>1, RoomInNumbers DEF Indices
  <2> QED
    BY <2>2, <2>3 DEF PromiseKept, FrontFree, BackFree
<1>4. CASE call'.op = "reserve_back"
  <2>1. owedBack' = Larger(owedBack, call'.n - SizeOf(dv)) /\ owedFront' = owedFront
    BY <1>4 DEF Account, Owed, KeepsBack
  <2>2. owedBack' \in Nat /\ owedBack' =< BackFree(dv')
    BY <1>2, <1>4, <2>1, RoomInNumbers DEF Larger, Indices
  <2>3. owedFront' \in Nat /\ owedFront' =< FrontFree(dv')
    BY <1>2, <2>1, RoomInNumbers DEF Indices
  <2> QED
    BY <2>2, <2>3 DEF PromiseKept, FrontFree, BackFree
<1> QED
  BY <1>3, <1>4

\* A call at one of the ends that throws changes nothing and ends no promise.
LEMMA ThrowKeeps ==
  ASSUME ReserveInv, Account, call'.out = "threw", dv' = dv,
         call'.op \in AtEnds
  PROVE  owedFront' \in Nat /\ owedBack' \in Nat /\ PromiseKept'
<1>1. /\ owedFront \in Nat /\ owedBack \in Nat
      /\ owedFront =< FrontFree(dv) /\ owedBack =< BackFree(dv) /\ Good(dv)
  BY DEF ReserveInv, PromiseKept, Inv
<1>2. owedFront' = owedFront /\ owedBack' = owedBack
  BY DEF Account, Owed, KeepsBack, AtEnds
<1> QED
  BY <1>1, <1>2 DEF PromiseKept, FrontFree, BackFree

\* After any other call nothing is owed.
LEMMA NothingOwed ==
  ASSUME Good(dv'), Account, call'.op \notin AtEnds
  PROVE  owedFront' \in Nat /\ owedBack' \in Nat /\ PromiseKept'
<1>1. owedFront' = 0 /\ owedBack' = 0
  BY DEF Account, Owed, KeepsBack, AtEnds
<1>2. 0 =< FrontFree(dv') /\ 0 =< BackFree(dv')
  BY GoodIndices DEF FrontFree, BackFree, Indices
<1> QED
  BY <1>1, <1>2 DEF PromiseKept, FrontFree, BackFree

\* Every call keeps the promise.
LEMMA AnyCallKeeps ==
  ASSUME "resize_front" \in Excepted, ReserveInv, AnyCall, Account, Good(dv')
  PROVE  owedFront' \in Nat /\ owedBack' \in Nat /\ PromiseKept'
<1> DEFINE Kept == owedFront' \in Nat /\ owedBack' \in Nat /\ PromiseKept'
<1>0. Good(dv) /\ Indices(dv) /\ MaxLen \in Nat /\ Size \subseteq Nat
      /\ dv \in DevectorType
  BY GoodIndices, BoundsAssumption, SizesAssumption DEF ReserveInv, Inv, Good, Size
<1>1. ASSUME NEW x \in Values, EmplaceFrontCall(x) PROVE Kept
  <2>1. CASE EmplaceFrontOk(dv) /\ Completes("emplace_front", 1, <<x>>, EmplaceFront(dv, x))
    <3>1. /\ call'.op = "emplace_front" /\ call'.out = "ok"
          /\ dv' = EmplaceFront(dv, x)
      BY <2>1 DEF Completes, Call
    <3>2. dv'.back >= dv.back /\ dv'.cap - dv'.back >= dv.cap - dv.back
      BY <1>0, <2>1, <3>1, EmplaceFrontRoom
    <3> QED
      BY <3>1, <3>2, FrontCallKeeps DEF PushesFront
  <2>2. CASE Throws("emplace_front", 0, 1, <<x>>, {dv})
    BY <2>2, ThrowKeeps DEF Throws, Call, AtEnds
  <2> QED
    BY <1>1, <2>1, <2>2 DEF EmplaceFrontCall
<1>2. ASSUME NEW x \in Values, EmplaceBackCall(x) PROVE Kept
  <2>1. CASE EmplaceBackOk(dv) /\ Completes("emplace_back", 1, <<x>>, EmplaceBack(dv, x))
    <3>1. /\ call'.op = "emplace_back" /\ call'.out = "ok"
          /\ dv' = EmplaceBack(dv, x)
      BY <2>1 DEF Completes, Call
    <3>2. dv'.front >= dv.front /\ dv'.cap - dv'.front >= dv.cap - dv.front
      BY <1>0, <2>1, <3>1, EmplaceBackRoom
    <3> QED
      BY <3>1, <3>2, BackCallKeeps DEF PushesBack
  <2>2. CASE Throws("emplace_back", 0, 1, <<x>>, {dv})
    BY <2>2, ThrowKeeps DEF Throws, Call, AtEnds
  <2> QED
    BY <1>2, <2>1, <2>2 DEF EmplaceBackCall
<1>3. ASSUME PopFrontCall PROVE Kept
  <2>1. /\ call'.op = "pop_front" /\ call'.out = "ok"
        /\ dv'.back = dv.back /\ dv'.cap = dv.cap
    BY <1>0, <1>3 DEF PopFrontCall, Completes, Call, PopFront, DevectorType
  <2>2. dv'.back >= dv.back /\ dv'.cap - dv'.back >= dv.cap - dv.back
    BY <1>0, <2>1 DEF Indices
  <2> QED
    BY <2>1, <2>2, FrontCallKeeps DEF PushesFront
<1>4. ASSUME PopBackCall PROVE Kept
  <2>1. /\ call'.op = "pop_back" /\ call'.out = "ok"
        /\ dv'.front = dv.front /\ dv'.cap = dv.cap
    BY <1>0, <1>4 DEF PopBackCall, Completes, Call, PopBack, DevectorType
  <2>2. dv'.front >= dv.front /\ dv'.cap - dv'.front >= dv.cap - dv.front
    BY <1>0, <2>1 DEF Indices
  <2> QED
    BY <2>1, <2>2, BackCallKeeps DEF PushesBack
<1>5. ASSUME NEW x \in Values, NEW sz \in 0 .. MaxLen, ResizeFrontCall(sz, x) PROVE Kept
  <2>1. CASE ResizeFrontOk(dv, sz)
             /\ Completes("resize_front", sz, <<x>>, ResizeFront(dv, sz, x))
    <3>1. /\ call'.op = "resize_front" /\ call'.out = "ok"
          /\ dv' = ResizeFront(dv, sz, x)
      BY <2>1 DEF Completes, Call
    <3>2. dv'.back >= dv.back /\ (dv'.cap = dv.cap => dv'.back = dv.back)
      BY <1>0, <1>5, <2>1, <3>1, ResizeFrontRoom DEF ResizeFrontCall
    <3>3. dv'.cap = dv.cap => dv'.cap - dv'.back >= dv.cap - dv.back
      BY <1>0, <3>2 DEF Indices
    <3> QED
      BY <3>1, <3>2, <3>3, FrontCallKeeps DEF PushesFront
  <2>2. CASE Throws("resize_front", 0, sz, <<x>>, {dv})
    BY <2>2, ThrowKeeps DEF Throws, Call, AtEnds
  <2> QED
    BY <1>5, <2>1, <2>2 DEF ResizeFrontCall
<1>6. ASSUME NEW x \in Values, NEW sz \in 0 .. MaxLen, ResizeBackCall(sz, x) PROVE Kept
  <2>1. CASE ResizeBackOk(dv, sz)
             /\ Completes("resize_back", sz, <<x>>, ResizeBack(dv, sz, x))
    <3>1. /\ call'.op = "resize_back" /\ call'.out = "ok"
          /\ dv' = ResizeBack(dv, sz, x)
      BY <2>1 DEF Completes, Call
    <3>2. dv'.front >= dv.front /\ dv'.cap - dv'.front >= dv.cap - dv.front
      BY <1>0, <1>6, <2>1, <3>1, ResizeBackRoom DEF ResizeBackCall
    <3> QED
      BY <3>1, <3>2, BackCallKeeps DEF PushesBack
  <2>2. CASE Throws("resize_back", 0, sz, <<x>>, {dv})
    BY <2>2, ThrowKeeps DEF Throws, Call, AtEnds
  <2> QED
    BY <1>6, <2>1, <2>2 DEF ResizeBackCall
<1>7. ASSUME NEW n \in Size, ReserveFrontCall(n) PROVE Kept
  <2>1. CASE ReserveFrontOk(dv, n)
             /\ Completes("reserve_front", n, << >>, ReserveFront(dv, n))
    <3>1. /\ call'.op = "reserve_front" /\ call'.out = "ok" /\ call'.n = n
          /\ dv' = ReserveFront(dv, n) /\ n \in Nat
      BY <1>0, <2>1 DEF Completes, Call
    <3>2. /\ dv'.front >= dv.front /\ dv'.front >= n - SizeOf(dv)
          /\ dv'.cap - dv'.back >= dv.cap - dv.back
      BY <1>0, <2>1, <3>1, ReserveFrontRoom
    <3> QED
      BY <3>1, <3>2, ReservationKeeps
  <2>2. CASE Throws("reserve_front", 0, n, << >>, {dv})
    BY <2>2, ThrowKeeps DEF Throws, Call, AtEnds
  <2> QED
    BY <1>7, <2>1, <2>2 DEF ReserveFrontCall
<1>8. ASSUME NEW n \in Size, ReserveBackCall(n) PROVE Kept
  <2>1. CASE ReserveBackOk(dv, n)
             /\ Completes("reserve_back", n, << >>, ReserveBack(dv, n))
    <3>1. /\ call'.op = "reserve_back" /\ call'.out = "ok" /\ call'.n = n
          /\ dv' = ReserveBack(dv, n) /\ n \in Nat
      BY <1>0, <2>1 DEF Completes, Call
    <3>2. /\ dv'.front >= dv.front
          /\ dv'.cap - dv'.back >= dv.cap - dv.back
          /\ dv'.cap - dv'.back >= n - SizeOf(dv)
      BY <1>0, <2>1, <3>1, ReserveBackRoom
    <3> QED
      BY <3>1, <3>2, ReservationKeeps
  <2>2. CASE Throws("reserve_back", 0, n, << >>, {dv})
    BY <2>2, ThrowKeeps DEF Throws, Call, AtEnds
  <2> QED
    BY <1>8, <2>1, <2>2 DEF ReserveBackCall
<1>9. ASSUME \/ ClearCall \/ ShrinkToFitCall
             \/ \E index, x : EmplaceCall(index, x)
             \/ \E index, xs : InsertCall(index, xs)
             \/ \E index, n : EraseCall(index, n)
             \/ \E xs : AssignCall(xs)
             \/ \E index, n, i : InsertAliasedCall(index, n, i)
      PROVE  Kept
  <2>1. call'.op \in {"clear", "shrink_to_fit", "insert", "erase", "assign"}
    BY <1>9 DEF ClearCall, ShrinkToFitCall, EmplaceCall, InsertCall, EraseCall,
                AssignCall, InsertAliasedCall, Completes, Returns, Throws, Call
  <2> QED
    BY <2>1, NothingOwed DEF AtEnds
<1> HIDE DEF Kept
<1>10. Kept
  BY <1>1, <1>2, <1>3, <1>4, <1>5, <1>6, <1>7, <1>8, <1>9 DEF AnyCall, Next
<1> QED
  BY <1>10 DEF Kept

\* "after reserve_[front,back](n), n - size() push_[front,back] will not allocate": also
\* after pushes, pops, resizes and reallocations at both ends and after calls that threw,
\* copies of own elements included, for every growth policy and every width of size_type;
\* but what reserve_back promised, only until a resize_front reallocates.  Without this
\* exception the promise is broken (devector_back_promise).
THEOREM ReservePromise ==
  ASSUME "resize_front" \in Excepted
  PROVE  ReserveSpec => []PromiseKept
<1>1. ReserveInit => ReserveInv
  <2>1. ReserveInit => Inv
    BY InitGood DEF ReserveInit
  <2>2. ReserveInit /\ Inv => PromiseKept
    BY GoodIndices DEF ReserveInit, Inv, PromiseKept, FrontFree, BackFree, Indices
  <2> QED
    BY <2>1, <2>2 DEF ReserveInit, ReserveInv
<1>2. ReserveInv /\ [ReserveNext]_reserveVars => ReserveInv'
  <2>1. ASSUME ReserveInv, ReserveNext PROVE ReserveInv'
    <3>1. Inv'
      BY <2>1, AnyCallGood DEF ReserveInv, ReserveNext
    <3>2. Good(dv')
      BY <3>1 DEF Inv, Good, InvariantsOk, HasBuffer, BufferMatches, MustFree, IsSmall, Held
    <3> QED
      BY <2>1, <3>1, <3>2, AnyCallKeeps DEF ReserveInv, ReserveNext
  <2>2. ASSUME ReserveInv, UNCHANGED reserveVars PROVE ReserveInv'
    <3>1. UNCHANGED vars
      BY <2>2 DEF reserveVars, vars
    <3>2. Inv'
      BY <2>2, <3>1, NextGood DEF ReserveInv
    <3> QED
      BY <2>2, <3>2 DEF reserveVars, ReserveInv, PromiseKept, FrontFree, BackFree
  <2> QED
    BY <2>1, <2>2
<1>3. ReserveInv => PromiseKept
  BY DEF ReserveInv
<1> QED
  BY <1>1, <1>2, <1>3, PTL DEF ReserveSpec

\* Whatever throws, and also if the elements inserted are the devector's own: it can still
\* be used and destroyed, and every element of it is an object.
THEOREM ReserveAlwaysUsable == ReserveSpec => []BasicGuarantee
<1>1. ReserveInit => Inv
  BY InitGood DEF ReserveInit
<1>2. Inv /\ [ReserveNext]_reserveVars => Inv'
  <2>1. UNCHANGED reserveVars => UNCHANGED vars
    BY DEF reserveVars, vars
  <2> QED
    BY <2>1, AnyCallGood, NextGood DEF ReserveNext
<1>3. Inv => BasicGuarantee
  BY DEF Inv, Good, BasicGuarantee, WellFormed, Held
<1> QED
  BY <1>1, <1>2, <1>3, PTL DEF ReserveSpec

-----------------------------------------------------------------------------
\* The elements as the contract speaks of them

\* An insertion, as the contract states it.
LEMMA InsertedSplice ==
  ASSUME NEW d, Good(d), NEW e, Good(e), NEW index \in 0 .. SizeOf(d),
         NEW xs \in Seq(Object), Inserted(d, e, index, xs)
  PROVE  Contents(e) = Contract!Splice(Contents(d), index, xs)
  BY InsertedContents DEF Contract!Splice

\* A removal, as the contract states it.
LEMMA RemovedCut ==
  ASSUME NEW d, Good(d), NEW e, Good(e), NEW index \in Nat, NEW n \in Nat,
         index + n =< SizeOf(d), Removed(d, e, index, n)
  PROVE  Contents(e) = Contract!Cut(Contents(d), index, n)
<1> DEFINE s == Contents(d)
           r == Contents(e)
<1>0. /\ s \in Seq(Object) /\ Len(s) = SizeOf(d) /\ SizeOf(d) \in Nat
      /\ r \in Seq(Object) /\ Len(r) = Len(s) - n /\ index + n =< Len(s)
  BY ContentsSeq DEF Removed
<1>1. /\ \A i \in 1 .. index : r[i] = s[i]
      /\ \A i \in index + 1 .. Len(r) : r[i] = s[n + i]
  <2>1. d.front \in Nat /\ e.front \in Nat
    BY GoodIndices DEF Indices
  <2>2. /\ \A i \in 1 .. Len(s) : s[i] = d.slots[d.front + (i - 1)]
        /\ \A i \in 1 .. Len(r) : r[i] = e.slots[e.front + (i - 1)]
    BY <1>0, <2>1, ContentsSeq
  <2>3. Len(r) = SizeOf(e)
    BY ContentsSeq
  <2> HIDE DEF r, s
  <2>4. ASSUME NEW i \in 1 .. index PROVE r[i] = s[i]
    <3>1. i - 1 \in 0 .. index - 1 /\ i \in 1 .. Len(r) /\ i \in 1 .. Len(s)
      BY <1>0
    <3> QED
      BY <2>2, <3>1 DEF Removed
  <2>5. ASSUME NEW i \in index + 1 .. Len(r) PROVE r[i] = s[n + i]
    <3>1. /\ i - 1 \in index .. SizeOf(e) - 1
          /\ i \in 1 .. Len(r) /\ n + i \in 1 .. Len(s)
      BY <1>0, <2>3
    <3>2. e.slots[e.front + (i - 1)] = d.slots[d.front + n + (i - 1)]
      BY <3>1 DEF Removed
    <3>3. d.front + n + (i - 1) = d.front + (n + i - 1)
      BY <2>1
    <3> QED
      BY <2>2, <3>1, <3>2, <3>3
  <2> QED
    BY <2>4, <2>5
<1> HIDE DEF r, s
<1>2. IsCut(r, s, index, n)
  BY <1>0, <1>1 DEF IsCut
<1>3. r = SubSeq(s, 1, index) \o SubSeq(s, index + n + 1, Len(s))
  BY <1>0, <1>2, CutIs
<1> QED
  BY <1>3 DEF Contract!Cut, r, s

-----------------------------------------------------------------------------
\* What the calls that throw leave

\* Inserting nothing changes nothing.
LEMMA NothingInserted ==
  ASSUME NEW d, Good(d), NEW index \in 0 .. SizeOf(d), NEW xs \in Seq(Object)
  PROVE  Contents(d) = Contract!Splice(Contents(d), index, SubSeq(xs, 1, 0))
<1>1. SubSeq(xs, 1, 0) = << >>
  BY SubSeqEmpty
<1>2. /\ << >> \in Seq(Object) /\ Len(<< >>) = 0 /\ SizeOf(d) \in Nat
      /\ d.front \in Nat /\ index \in Nat
  BY EmptySeq, ContentsSeq, GoodIndices DEF Indices
<1>3. /\ SizeOf(d) = SizeOf(d) + 0 /\ \A i \in 0 .. 0 - 1 : FALSE
      /\ \A i \in index .. SizeOf(d) - 1 : d.front + 0 + i = d.front + i
  BY <1>2
<1>4. Inserted(d, d, index, << >>)
  BY <1>2, <1>3 DEF Inserted
<1> QED
  BY <1>1, <1>2, <1>4, InsertedSplice

\* A range insertion that throws has inserted the first k elements of the range.
LEMMA InsertRangeThrewSplice ==
  ASSUME NEW d, Good(d), ~ShiftMayThrow, NEW xs \in Seq(Object),
         NEW index \in 0 .. SizeOf(d), NEW e \in InsertRangeThrew(d, index, xs)
  PROVE  \E k \in 0 .. Len(xs) - 1 :
           Contents(e) = Contract!Splice(Contents(d), index, SubSeq(xs, 1, k))
<1> DEFINE n == Len(xs)
           k0 == Smaller(FrontFree(d), n)
           front == InsertNearFront(d, d.front + index, FirstOf(xs, k0))
<1>1. /\ n \in Nat /\ n # 0 /\ 0 \in 0 .. n - 1
  <2>1. n \in Nat /\ n # 0
    BY DEF InsertRangeThrew
  <2> HIDE DEF n
  <2> QED
    BY <2>1
<1>2. /\ Indices(d) /\ FrontFree(d) \in Nat /\ BackFree(d) \in Nat
      /\ SizeOf(d) = d.back - d.front /\ index \in Nat /\ index =< SizeOf(d)
  BY GoodIndices DEF FrontFree, BackFree, SizeOf, Indices
<1>3. CASE e = d
  BY <1>1, <1>3, NothingInserted
<1>4. CASE /\ index = SizeOf(d) /\ BackFree(d) >= n
           /\ \E k \in 0 .. n - 1 : e = PutBack(d, FirstOf(xs, k))
  <2>1. PICK k \in 0 .. n - 1 : e = PutBack(d, FirstOf(xs, k))
    BY <1>4
  <2>2. FirstOf(xs, k) \in Seq(Object) /\ Len(FirstOf(xs, k)) = k
    <3>1. k \in 0 .. Len(xs)
      BY <1>1
    <3> QED
      BY <3>1, PartsOfRange
  <2>3. Len(FirstOf(xs, k)) =< BackFree(d)
    BY <1>1, <1>2, <1>4, <2>2
  <2>4. Inserted(d, e, index, FirstOf(xs, k)) /\ Good(e)
    BY <1>4, <2>1, <2>2, <2>3, PutBackInserted, PutBackGood
  <2>5. Contents(e) = Contract!Splice(Contents(d), index, FirstOf(xs, k))
    BY <2>2, <2>4, InsertedSplice
  <2> QED
    BY <2>5 DEF FirstOf
<1>5. CASE k0 < n /\ e = front
  <2>1. k0 \in 0 .. n - 1 /\ k0 =< FrontFree(d)
    <3> HIDE DEF n
    <3> QED
      BY <1>1, <1>2, <1>5 DEF Smaller
  <2>2. FirstOf(xs, k0) \in Seq(Object) /\ Len(FirstOf(xs, k0)) = k0
    <3>1. k0 \in 0 .. Len(xs)
      BY <1>1, <2>1
    <3> HIDE DEF k0
    <3> QED
      BY <3>1, PartsOfRange
  <2> HIDE DEF k0
  <2>3. Len(FirstOf(xs, k0)) =< FrontFree(d)
    BY <2>1, <2>2
  <2>4. /\ d.front + index \in Nat /\ d.front =< d.front + index
        /\ d.front + index =< d.back
    BY <1>2 DEF Indices
  <2>5. Inserted(d, e, index, FirstOf(xs, k0)) /\ Good(e)
    BY <1>5, <2>2, <2>3, <2>4, InsertNearFrontInserted, InsertNearFrontGood
  <2>6. Contents(e) = Contract!Splice(Contents(d), index, FirstOf(xs, k0))
    BY <2>2, <2>5, InsertedSplice
  <2> QED
    BY <2>1, <2>6 DEF FirstOf
<1>6. \/ e = d
      \/ /\ index = SizeOf(d) /\ BackFree(d) >= n
         /\ \E k \in 0 .. n - 1 : e = PutBack(d, FirstOf(xs, k))
      \/ k0 < n /\ e = front
  <2>1. ~(index = SizeOf(d) /\ BackFree(d) >= n) =>
          e \in {d} \cup (IF k0 < n THEN {front} ELSE {})
    BY <1>1 DEF InsertRangeThrew
  <2>2. index = SizeOf(d) /\ BackFree(d) >= n =>
          e \in {PutBack(d, FirstOf(xs, k)) : k \in 0 .. n - 1}
    BY <1>1 DEF InsertRangeThrew
  <2> HIDE DEF n, k0, front
  <2> QED
    BY <2>1, <2>2
<1> QED
  BY <1>3, <1>4, <1>5, <1>6

\* An assignment that throws has replaced elements by new ones, and removed none.
LEMMA AssignThrewReplaces ==
  ASSUME NEW d, Good(d), NEW xs \in Seq(Object), NEW e \in AssignThrew(d, xs)
  PROVE  /\ Len(Contents(e)) = Len(Contents(d))
         /\ \A i \in 1 .. Len(Contents(d)) :
              \/ Contents(e)[i] = Contents(d)[i]
              \/ \E j \in 1 .. Len(xs) : Contents(e)[i] = xs[j]
<1> DEFINE n == Len(xs)
           m(k) == [a \in Address |->
                      IF d.front =< a /\ a < k THEN xs[a + 1] ELSE d.slots[a]]
<1>1. CASE e = d
  BY <1>1
<1>2. ASSUME NEW k \in Nat, k =< n, e = [d EXCEPT !.slots = m(k)]
      PROVE  /\ Len(Contents(e)) = Len(Contents(d))
             /\ \A i \in 1 .. Len(Contents(d)) :
                  \/ Contents(e)[i] = Contents(d)[i]
                  \/ \E j \in 1 .. n : Contents(e)[i] = xs[j]
  <2>1. /\ d.front \in Nat /\ d.back \in Nat /\ Len(Contents(d)) = SizeOf(d)
        /\ SizeOf(d) = d.back - d.front /\ SizeOf(d) \in Nat /\ n \in Nat
    BY ContentsSeq, GoodIndices DEF SizeOf, Indices
  <2>2. e.front = d.front /\ e.back = d.back /\ e.slots = m(k)
    BY <1>2 DEF Good, DevectorType
  <2>3. SizeOf(e) = SizeOf(d) /\ Good(e)
    BY <2>2, AssignThrewGood DEF SizeOf
  <2>4. Len(Contents(e)) = Len(Contents(d))
    BY <2>1, <2>3, ContentsSeq
  <2>5. ASSUME NEW i \in 1 .. SizeOf(d)
        PROVE  \/ Contents(e)[i] = Contents(d)[i]
               \/ \E j \in 1 .. n : Contents(e)[i] = xs[j]
    <3> DEFINE at == d.front + i - 1
    <3>1. i - 1 \in 0 .. SizeOf(d) - 1 /\ d.front + (i - 1) = at
      BY <2>1
    <3>2. at \in Address /\ d.front =< at /\ at \in Nat
      BY <2>1, <3>1, SlotOf
    <3>3. Contents(e)[i] = e.slots[at] /\ Contents(d)[i] = d.slots[at]
      BY <2>1, <2>2, <2>3, ContentsSeq
    <3> HIDE DEF at
    <3>4. CASE at < k
      <4>1. e.slots[at] = xs[at + 1]
        BY <2>2, <3>2, <3>4
      <4>2. at + 1 \in 1 .. n
        <5> HIDE DEF n
        <5> QED
          BY <1>2, <2>1, <3>2, <3>4
      <4> HIDE DEF n
      <4> QED
        BY <3>3, <4>1, <4>2
    <3>5. CASE ~(at < k)
      BY <2>2, <3>2, <3>3, <3>5
    <3> QED
      BY <3>4, <3>5
  <2> QED
    BY <2>1, <2>4, <2>5
<1>3. e = d \/ \E k \in Nat : k =< n /\ e = [d EXCEPT !.slots = m(k)]
  <2>1. d.front \in Nat /\ d.back \in Nat /\ n \in Nat
    BY GoodIndices DEF Indices
  <2>2. CASE e = d
    BY <2>2
  <2>3. CASE n > d.back /\ e = [d EXCEPT !.slots = m(d.back)]
    <3> HIDE DEF m, n
    <3> QED
      BY <2>1, <2>3
  <2>4. ASSUME NEW k \in d.front .. Smaller(d.back, n) - 1, e = [d EXCEPT !.slots = m(k)]
        PROVE  \E k2 \in Nat : k2 =< n /\ e = [d EXCEPT !.slots = m(k2)]
    <3> HIDE DEF m, n
    <3>1. k \in Nat /\ k =< n
      BY <2>1 DEF Smaller
    <3> QED
      BY <2>4, <3>1
  <2>5. \/ e = d
        \/ n > d.back /\ e = [d EXCEPT !.slots = m(d.back)]
        \/ \E k \in d.front .. Smaller(d.back, n) - 1 : e = [d EXCEPT !.slots = m(k)]
    BY DEF AssignThrew
  <2> QED
    BY <2>2, <2>3, <2>4, <2>5
<1> QED
  BY <1>1, <1>2, <1>3

-----------------------------------------------------------------------------
\* The refinement

\* The contract says the effect of an insertion at an end as a concatenation.
LEMMA SpliceAtEnds ==
  ASSUME NEW s \in Seq(Object), NEW xs \in Seq(Object)
  PROVE  /\ Contract!Splice(s, 0, xs) = xs \o s
         /\ Contract!Splice(s, Len(s), xs) = s \o xs
  BY EndParts DEF Contract!Splice

LEMMA CutAtBack ==
  ASSUME NEW s \in Seq(Object), NEW n \in 0 .. Len(s)
  PROVE  Contract!Cut(s, n, Len(s) - n) = SubSeq(s, 1, n)
  BY Prefix DEF Contract!Cut

\* The elements and the call after a step.
LEMMA CallReads ==
  /\ \A op, n, xs, after : Completes(op, n, xs, after) =>
       /\ dv' = after /\ call'.op = op /\ call'.n = n /\ call'.xs = xs
       /\ call'.out = "ok"
  /\ \A op, at, n, xs, after, slot : Returns(op, at, n, xs, after, slot) =>
       /\ dv' = after /\ call'.op = op /\ call'.at = at /\ call'.n = n
       /\ call'.xs = xs /\ call'.out = "ok" /\ call'.ret = slot - after.front
  /\ \A op, at, n, xs, outcomes : Throws(op, at, n, xs, outcomes) =>
       /\ dv' \in outcomes /\ call'.op = op /\ call'.at = at /\ call'.xs = xs
       /\ call'.out = "threw"
  BY DEF Completes, Returns, Throws, Call

\* A call that throws and changes nothing is one the contract allows.
LEMMA StrongStep ==
  ASSUME NEW op \in {"emplace_front", "emplace_back", "resize_front", "resize_back",
                     "reserve_front", "reserve_back", "shrink_to_fit"},
         NEW at, NEW n, NEW xs, Throws(op, at, n, xs, {dv})
  PROVE  Contract!Next
<1>1. dv' = dv /\ call'.op = op /\ call'.out = "threw"
  BY CallReads
<1>2. Contents(dv)' = Contents(dv)
  BY <1>1
<1> QED
  BY <1>1, <1>2 DEF Contract!Next, Contract!StrongThrew

\* Calls that construct elements at the ends, and resize_front and resize_back.
LEMMA EndsStep ==
  ASSUME Good(dv), NEW x \in Values, NEW sz \in 0 .. MaxLen,
         \/ EmplaceFrontCall(x) \/ EmplaceBackCall(x)
         \/ ResizeFrontCall(sz, x) \/ ResizeBackCall(sz, x)
  PROVE  Contract!Next
<1> DEFINE s == Contents(dv)
<1>1. /\ s \in Seq(Object) /\ Len(s) = SizeOf(dv) /\ SizeOf(dv) \in Nat
      /\ x \in Object /\ sz \in Nat /\ 0 \in 0 .. SizeOf(dv)
      /\ SizeOf(dv) \in 0 .. SizeOf(dv)
      /\ <<x>> \in Seq(Object)
  BY ContentsSeq, OneElement, BoundsAssumption, SizesAssumption DEF Object, Size
<1>2. CASE EmplaceFrontCall(x)
  <2>1. CASE EmplaceFrontOk(dv) /\ Completes("emplace_front", 1, <<x>>, EmplaceFront(dv, x))
    <3>1. dv' = EmplaceFront(dv, x) /\ Good(EmplaceFront(dv, x))
      BY <1>1, <2>1, CallReads, EmplaceFrontGood
    <3>2. Contents(dv') = Contract!Splice(s, 0, <<x>>)
      BY <1>1, <2>1, <3>1, EmplaceFrontInserted, InsertedSplice
    <3>3. Contents(dv)' = <<x>> \o s
      BY <1>1, <3>2, SpliceAtEnds
    <3> QED
      BY <2>1, <3>3, CallReads DEF Contract!Next, Contract!EmplaceFront, Contract!Returned
  <2>2. CASE Throws("emplace_front", 0, 1, <<x>>, {dv})
    BY <2>2, StrongStep
  <2> QED
    BY <1>2, <2>1, <2>2 DEF EmplaceFrontCall
<1>3. CASE EmplaceBackCall(x)
  <2>1. CASE EmplaceBackOk(dv) /\ Completes("emplace_back", 1, <<x>>, EmplaceBack(dv, x))
    <3>1. dv' = EmplaceBack(dv, x) /\ Good(EmplaceBack(dv, x))
      BY <1>1, <2>1, CallReads, EmplaceBackGood
    <3>2. Contents(dv') = Contract!Splice(s, SizeOf(dv), <<x>>)
      BY <1>1, <2>1, <3>1, EmplaceBackInserted, InsertedSplice
    <3>3. Contents(dv)' = s \o <<x>>
      BY <1>1, <3>2, SpliceAtEnds
    <3> QED
      BY <2>1, <3>3, CallReads DEF Contract!Next, Contract!EmplaceBack, Contract!Returned
  <2>2. CASE Throws("emplace_back", 0, 1, <<x>>, {dv})
    BY <2>2, StrongStep
  <2> QED
    BY <1>3, <2>1, <2>2 DEF EmplaceBackCall
<1>4. CASE ResizeFrontCall(sz, x)
  <2>1. CASE ResizeFrontOk(dv, sz) /\ Completes("resize_front", sz, <<x>>, ResizeFront(dv, sz, x))
    <3> DEFINE e == ResizeFront(dv, sz, x)
    <3>1. dv' = e /\ Good(e)
      BY <1>1, <1>4, <2>1, CallReads, ResizeFrontGood DEF ResizeFrontCall
    <3>2. CASE sz > SizeOf(dv)
      <4> DEFINE xs == Copies(sz - SizeOf(dv), x)
      <4>0. sz - SizeOf(dv) \in Nat
        BY <1>1, <3>2
      <4>1. xs \in Seq(Object)
        BY <1>1, <4>0, SomeCopies
      <4>2. Inserted(dv, e, 0, xs)
        BY <1>1, <1>4, <2>1, <3>2, ResizeFrontInserted DEF ResizeFrontCall
      <4> HIDE DEF e, xs
      <4>3. Contents(e) = Contract!Splice(s, 0, xs)
        BY <1>1, <3>1, <4>1, <4>2, InsertedSplice
      <4>4. Contents(dv)' = xs \o s
        BY <1>1, <3>1, <4>1, <4>3, SpliceAtEnds
      <4>5. xs = Contract!SameElement(sz - Len(s), <<x>>[1])
        BY <1>1 DEF xs, Copies, Contract!SameElement
      <4> QED
        BY <1>1, <2>1, <3>2, <4>4, <4>5, CallReads
           DEF Contract!Next, Contract!ResizeFront, Contract!Returned
    <3>3. CASE ~(sz > SizeOf(dv))
      <4>1. sz =< SizeOf(dv) /\ SizeOf(dv) - sz \in Nat /\ SizeOf(dv) - sz =< SizeOf(dv)
            /\ 0 + (SizeOf(dv) - sz) =< SizeOf(dv)
        BY <1>1, <3>3
      <4>2. e = PopFront(dv, SizeOf(dv) - sz)
        BY <4>1 DEF ResizeFront
      <4>3. Removed(dv, e, 0, SizeOf(dv) - sz)
        BY <4>1, <4>2, PopFrontRemoved
      <4> HIDE DEF e
      <4>4. Contents(e) = Contract!Cut(s, 0, SizeOf(dv) - sz)
        BY <1>1, <3>1, <4>1, <4>3, RemovedCut
      <4>5. Contents(dv)' = Contract!Cut(s, 0, SizeOf(dv) - sz)
        BY <3>1, <4>4
      <4> QED
        BY <1>1, <2>1, <3>3, <4>5, CallReads
           DEF Contract!Next, Contract!ResizeFront, Contract!Returned
    <3> QED
      BY <3>2, <3>3
  <2>2. CASE Throws("resize_front", 0, sz, <<x>>, {dv})
    BY <2>2, StrongStep
  <2> QED
    BY <1>4, <2>1, <2>2 DEF ResizeFrontCall
<1>5. CASE ResizeBackCall(sz, x)
  <2>1. CASE ResizeBackOk(dv, sz) /\ Completes("resize_back", sz, <<x>>, ResizeBack(dv, sz, x))
    <3> DEFINE e == ResizeBack(dv, sz, x)
    <3>1. dv' = e /\ Good(e)
      BY <1>1, <1>5, <2>1, CallReads, ResizeBackGood DEF ResizeBackCall
    <3>2. CASE sz > SizeOf(dv)
      <4> DEFINE xs == Copies(sz - SizeOf(dv), x)
      <4>0. sz - SizeOf(dv) \in Nat
        BY <1>1, <3>2
      <4>1. xs \in Seq(Object)
        BY <1>1, <4>0, SomeCopies
      <4>2. Inserted(dv, e, SizeOf(dv), xs)
        BY <1>1, <1>5, <2>1, <3>2, ResizeBackInserted DEF ResizeBackCall
      <4> HIDE DEF e, xs
      <4>3. Contents(e) = Contract!Splice(s, SizeOf(dv), xs)
        BY <1>1, <3>1, <4>1, <4>2, InsertedSplice
      <4>4. Contents(dv)' = s \o xs
        BY <1>1, <3>1, <4>1, <4>3, SpliceAtEnds
      <4>5. xs = Contract!SameElement(sz - Len(s), <<x>>[1])
        BY <1>1 DEF xs, Copies, Contract!SameElement
      <4> QED
        BY <1>1, <2>1, <3>2, <4>4, <4>5, CallReads
           DEF Contract!Next, Contract!ResizeBack, Contract!Returned
    <3>3. CASE ~(sz > SizeOf(dv))
      <4>1. sz =< SizeOf(dv) /\ SizeOf(dv) - sz \in Nat /\ SizeOf(dv) - sz =< SizeOf(dv)
            /\ sz + (SizeOf(dv) - sz) =< SizeOf(dv) /\ SizeOf(dv) - (SizeOf(dv) - sz) = sz
        BY <1>1, <3>3
      <4>2. e = PopBack(dv, SizeOf(dv) - sz)
        BY <4>1 DEF ResizeBack
      <4>3. Removed(dv, e, sz, SizeOf(dv) - sz)
        BY <4>1, <4>2, PopBackRemoved
      <4> HIDE DEF e
      <4>4. Contents(e) = Contract!Cut(s, sz, SizeOf(dv) - sz)
        BY <1>1, <3>1, <4>1, <4>3, RemovedCut
      <4>5. sz \in 0 .. Len(s)
        BY <1>1, <4>1
      <4>6. Contents(dv)' = SubSeq(s, 1, sz)
        BY <1>1, <3>1, <4>4, <4>5, CutAtBack
      <4> QED
        BY <1>1, <2>1, <3>3, <4>6, CallReads
           DEF Contract!Next, Contract!ResizeBack, Contract!Returned
    <3> QED
      BY <3>2, <3>3
  <2>2. CASE Throws("resize_back", 0, sz, <<x>>, {dv})
    BY <2>2, StrongStep
  <2> QED
    BY <1>5, <2>1, <2>2 DEF ResizeBackCall
<1> QED
  BY <1>2, <1>3, <1>4, <1>5

\* Calls that only remove elements at the ends.
LEMMA RemovalStep ==
  ASSUME Good(dv), PopFrontCall \/ PopBackCall \/ ClearCall
  PROVE  Contract!Next
<1> DEFINE s == Contents(dv)
<1>1. s \in Seq(Object) /\ Len(s) = SizeOf(dv) /\ SizeOf(dv) \in Nat
  BY ContentsSeq
<1>2. CASE PopFrontCall
  <2>1. /\ 1 =< SizeOf(dv) /\ 0 + 1 =< SizeOf(dv) /\ s # << >>
        /\ Completes("pop_front", 1, << >>, PopFront(dv, 1))
    <3>1. SizeOf(dv) > 0
      BY <1>2 DEF PopFrontCall
    <3> QED
      BY <1>1, <1>2, <3>1, EmptySeq DEF PopFrontCall
  <2>2. dv' = PopFront(dv, 1) /\ Good(PopFront(dv, 1)) /\ Removed(dv, PopFront(dv, 1), 0, 1)
    BY <2>1, CallReads, PopFrontGood, PopFrontRemoved
  <2>3. Contents(dv)' = Contract!Cut(s, 0, 1)
    BY <2>1, <2>2, RemovedCut
  <2> QED
    BY <2>1, <2>3, CallReads DEF Contract!Next, Contract!PopFront, Contract!Returned
<1>3. CASE PopBackCall
  <2>1. /\ 1 =< SizeOf(dv) /\ s # << >>
        /\ SizeOf(dv) - 1 \in Nat /\ (SizeOf(dv) - 1) + 1 =< SizeOf(dv)
        /\ Completes("pop_back", 1, << >>, PopBack(dv, 1))
    <3>1. SizeOf(dv) > 0
      BY <1>3 DEF PopBackCall
    <3> QED
      BY <1>1, <1>3, <3>1, EmptySeq DEF PopBackCall
  <2>2. /\ dv' = PopBack(dv, 1) /\ Good(PopBack(dv, 1))
        /\ Removed(dv, PopBack(dv, 1), SizeOf(dv) - 1, 1)
    BY <2>1, CallReads, PopBackGood, PopBackRemoved
  <2>3. Contents(dv)' = Contract!Cut(s, Len(s) - 1, 1)
    BY <1>1, <2>1, <2>2, RemovedCut
  <2> QED
    BY <2>1, <2>3, CallReads DEF Contract!Next, Contract!PopBack, Contract!Returned
<1>4. CASE ClearCall
  <2>1. dv' = Clear(dv) /\ call'.op = "clear" /\ call'.out = "ok"
    BY <1>4, CallReads DEF ClearCall
  <2>2. Contents(dv)' = << >>
    BY <2>1, ClearContents
  <2> QED
    BY <2>1, <2>2 DEF Contract!Next, Contract!Clear, Contract!Returned
<1> QED
  BY <1>2, <1>3, <1>4

\* Calls that only change the buffer.
LEMMA BufferStep ==
  ASSUME Good(dv), NEW n \in Size,
         ReserveFrontCall(n) \/ ReserveBackCall(n) \/ ShrinkToFitCall
  PROVE  Contract!Next
<1>1. n \in Nat
  BY SizesAssumption DEF Size
<1>2. ASSUME NEW op \in {"reserve_front", "reserve_back", "shrink_to_fit"}, NEW m, NEW e,
             Completes(op, m, << >>, e), Contents(e) = Contents(dv)
      PROVE  Contract!Next
  <2>1. dv' = e /\ call'.op = op /\ call'.out = "ok"
    BY <1>2, CallReads
  <2>2. Contents(dv)' = Contents(dv)
    BY <1>2, <2>1
  <2> QED
    BY <2>1, <2>2 DEF Contract!Next, Contract!Reallocate, Contract!Returned
<1>3. CASE ReserveFrontCall(n)
  BY <1>1, <1>2, <1>3, ReserveFrontContents, StrongStep DEF ReserveFrontCall
<1>4. CASE ReserveBackCall(n)
  BY <1>1, <1>2, <1>4, ReserveBackContents, StrongStep DEF ReserveBackCall
<1>5. CASE ShrinkToFitCall
  BY <1>2, <1>5, ShrinkToFitContents, StrongStep DEF ShrinkToFitCall
<1> QED
  BY <1>3, <1>4, <1>5

\* An insertion that throws, with what it left.
LEMMA InsertThrewStep ==
  ASSUME Good(dv), NEW index \in 0 .. SizeOf(dv), NEW xs \in Seq(Object), NEW n, NEW outcomes,
         Throws("insert", index, n, xs, outcomes),
         \A e \in outcomes : \E k \in 0 .. Len(xs) - 1 :
           /\ k > 0 => "insert" \in Excepted
           /\ Contents(e) = Contract!Splice(Contents(dv), index, SubSeq(xs, 1, k))
  PROVE  Contract!Next
<1>1. /\ dv' \in outcomes /\ call'.op = "insert" /\ call'.at = index /\ call'.xs = xs
      /\ call'.out = "threw"
  BY CallReads
<1>2. PICK k \in 0 .. Len(xs) - 1 :
        /\ k > 0 => "insert" \in Excepted
        /\ Contents(dv') = Contract!Splice(Contents(dv), index, SubSeq(xs, 1, k))
  BY <1>1
<1>3. Contents(dv)' = Contract!Splice(Contents(dv), index, SubSeq(xs, 1, k))
  BY <1>2
<1> QED
  BY <1>1, <1>2, <1>3 DEF Contract!Next, Contract!InsertThrew, Contract!Threw

\* An insertion that returns, with the iterator it returns.
LEMMA InsertStep ==
  ASSUME Good(dv), NEW index \in 0 .. SizeOf(dv), NEW xs \in Seq(Object), NEW n,
         NEW e, NEW slot, Good(e), Inserted(dv, e, index, xs), slot - e.front = index,
         Returns("insert", index, n, xs, e, slot)
  PROVE  Contract!Next
<1>1. /\ dv' = e /\ call'.op = "insert" /\ call'.at = index /\ call'.xs = xs
      /\ call'.out = "ok" /\ call'.ret = index
  BY CallReads
<1>2. Contents(dv)' = Contract!Splice(Contents(dv), index, xs)
  BY <1>1, InsertedSplice
<1>3. index \in 0 .. Len(Contents(dv))
  BY ContentsSeq
<1> QED
  BY <1>1, <1>2, <1>3 DEF Contract!Next, Contract!Insert, Contract!Returned

\* Calls anywhere.
LEMMA AnywhereStep ==
  ASSUME ~ShiftMayThrow, SelfMoveKeeps, {"insert", "assign"} \subseteq Excepted,
         Good(dv), NEW index \in 0 .. SizeOf(dv),
         \/ \E x \in Values : EmplaceCall(index, x)
         \/ \E xs \in Ranges(MaxRange) : InsertCall(index, xs)
         \/ \E n \in 0 .. SizeOf(dv) : index + n =< SizeOf(dv) /\ EraseCall(index, n)
         \/ \E xs \in Ranges(MaxLen) : AssignCall(xs)
  PROVE  Contract!Next
<1>1. MaxLen \in Nat /\ MaxRange \in Nat
  BY BoundsAssumption, SizesAssumption DEF Size
<1>2. ASSUME NEW x \in Values, EmplaceCall(index, x) PROVE Contract!Next
  <2>1. x \in Object /\ <<x>> \in Seq(Object) /\ Len(<<x>>) = 1
    BY OneElement DEF Object
  <2>2. CASE /\ EmplaceOk(dv)
             /\ Returns("insert", index, 1, <<x>>, Emplace(dv, index, x),
                        EmplaceReturns(dv, index))
    BY <2>1, <2>2, EmplaceGood, EmplaceInserted, InsertStep, ZenonT(60)
  <2>3. CASE Throws("insert", index, 1, <<x>>, EmplaceThrew(dv, index))
    <3>1. \A e \in EmplaceThrew(dv, index) : e = dv
      BY DEF EmplaceThrew
    <3>2. Contents(dv) = Contract!Splice(Contents(dv), index, SubSeq(<<x>>, 1, 0))
      BY <2>1, NothingInserted
    <3>3. 0 \in 0 .. Len(<<x>>) - 1
      BY <2>1
    <3> QED
      BY <2>1, <2>3, <3>1, <3>2, <3>3, InsertThrewStep
  <2> QED
    BY <1>2, <2>2, <2>3 DEF EmplaceCall
<1>3. ASSUME NEW xs \in Ranges(MaxRange), InsertCall(index, xs) PROVE Contract!Next
  <2>1. xs \in Seq(Object)
    BY <1>1, RangesOfObjects
  <2>2. CASE /\ InsertRangeOk(dv, Len(xs))
             /\ Returns("insert", index, Len(xs), xs, InsertRange(dv, index, xs),
                        InsertReturns(dv, index, xs))
    <3>1. FreeSlots(dv) >= Len(xs) \/ dv.cap + Len(xs) =< SizeMax
      BY <1>3 DEF InsertCall
    <3> QED
      BY <2>1, <2>2, <3>1, InsertRangeGood, InsertRangeInserted, InsertStep
  <2>3. CASE Throws("insert", index, Len(xs), xs, InsertRangeThrew(dv, index, xs))
    BY <2>1, <2>3, InsertRangeThrewSplice, InsertThrewStep
  <2> QED
    BY <1>3, <2>2, <2>3 DEF InsertCall
<1>4. ASSUME NEW n \in 0 .. SizeOf(dv), index + n =< SizeOf(dv), EraseCall(index, n)
      PROVE  Contract!Next
  <2> DEFINE lo == dv.front + index
             hi == lo + n
             e == EraseRange(dv, lo, hi)
  <2>1. ~Throws("erase", index, n, << >>, EraseThrew(dv, lo, hi))
    BY CallReads DEF EraseThrew
  <2>2. Returns("erase", index, n, << >>, e, EraseReturns(dv, lo, hi))
    BY <1>4, <2>1 DEF EraseCall
  <2>3. /\ index \in Nat /\ n \in Nat /\ SizeOf(dv) \in Nat /\ Len(Contents(dv)) = SizeOf(dv)
        /\ lo \in Nat /\ hi \in Nat
        /\ dv.front =< lo /\ lo =< hi /\ hi =< dv.back
    BY <1>4, ContentsSeq, GoodIndices, SMTT(30) DEF SizeOf, Indices
  <2>4. Removed(dv, e, index, n) /\ EraseReturns(dv, lo, hi) - e.front = index
    BY <1>4, <2>3, EraseRangeRemoved
  <2>5. Good(e)
    BY <2>3, EraseRangeGood
  <2> HIDE DEF e, lo, hi
  <2>6. /\ dv' = e /\ call'.op = "erase" /\ call'.at = index /\ call'.n = n
        /\ call'.out = "ok" /\ call'.ret = index
    BY <2>2, <2>4, CallReads
  <2>7. Contents(dv)' = Contract!Cut(Contents(dv), index, n)
    BY <1>4, <2>3, <2>4, <2>5, <2>6, RemovedCut
  <2>8. index \in 0 .. Len(Contents(dv)) - n
    BY <1>4, <2>3
  <2> QED
    BY <2>6, <2>7, <2>8 DEF Contract!Next, Contract!Erase, Contract!Returned
<1>5. ASSUME NEW xs \in Ranges(MaxLen), AssignCall(xs) PROVE Contract!Next
  <2>1. xs \in Seq(Object)
    BY <1>1, RangesOfObjects
  <2>2. CASE AssignOk(dv, Len(xs)) /\ Completes("assign", Len(xs), xs, Assign(dv, xs))
    <3>1. dv' = Assign(dv, xs) /\ call'.op = "assign" /\ call'.xs = xs /\ call'.out = "ok"
      BY <2>2, CallReads
    <3>2. Contents(dv)' = xs
      BY <2>1, <2>2, <3>1, AssignContents
    <3> QED
      BY <3>1, <3>2 DEF Contract!Next, Contract!Assign, Contract!Returned
  <2>3. CASE Throws("assign", 0, Len(xs), xs, AssignThrew(dv, xs))
    <3>1. /\ dv' \in AssignThrew(dv, xs) /\ call'.op = "assign" /\ call'.xs = xs
          /\ call'.out = "threw"
      BY <2>3, CallReads
    <3>2. /\ Len(Contents(dv)') = Len(Contents(dv))
          /\ \A i \in 1 .. Len(Contents(dv)) :
               \/ (Contents(dv)')[i] = Contents(dv)[i]
               \/ \E j \in 1 .. Len(xs) : (Contents(dv)')[i] = xs[j]
      BY <2>1, <3>1, AssignThrewReplaces
    <3> QED
      BY <3>1, <3>2 DEF Contract!Next, Contract!AssignThrew, Contract!Threw
  <2> QED
    BY <1>5, <2>2, <2>3 DEF AssignCall
<1> QED
  BY <1>2, <1>3, <1>4, <1>5

\* Every call is one that the contract allows.
LEMMA StepImplements ==
  ASSUME ~ShiftMayThrow, SelfMoveKeeps, {"insert", "assign"} \subseteq Excepted
  PROVE  Inv /\ [Next]_vars => [Contract!Next]_<<Contents(dv), call>>
<1> SUFFICES ASSUME Inv, [Next]_vars
             PROVE  [Contract!Next]_<<Contents(dv), call>>
  OBVIOUS
<1>1. Good(dv) /\ 0 \in 0 .. MaxLen /\ 0 \in Size /\ 0 \in 0 .. SizeOf(dv)
  BY ContentsSeq, BoundsAssumption, SizesAssumption DEF Inv, Size
<1>2. ASSUME NEW x \in Values,
             \/ EmplaceFrontCall(x) \/ EmplaceBackCall(x)
             \/ \E sz \in 0 .. MaxLen : ResizeFrontCall(sz, x) \/ ResizeBackCall(sz, x)
             \/ \E index \in 0 .. SizeOf(dv) : EmplaceCall(index, x)
      PROVE  Contract!Next
  BY <1>1, <1>2, EndsStep, AnywhereStep
<1>3. CASE ClearCall \/ PopFrontCall \/ PopBackCall
  BY <1>1, <1>3, RemovalStep
<1>4. CASE ShrinkToFitCall \/ \E n \in Size : ReserveFrontCall(n) \/ ReserveBackCall(n)
  BY <1>1, <1>4, BufferStep
<1>5. CASE \/ \E index \in 0 .. SizeOf(dv), xs \in Ranges(MaxRange) : InsertCall(index, xs)
           \/ \E index \in 0 .. SizeOf(dv), n \in 0 .. SizeOf(dv) :
                index + n =< SizeOf(dv) /\ EraseCall(index, n)
           \/ \E xs \in Ranges(MaxLen) : AssignCall(xs)
  BY <1>1, <1>5, AnywhereStep
<1>6. CASE UNCHANGED vars
  <2>1. dv' = dv /\ call' = call
    BY <1>6 DEF vars
  <2>2. Contents(dv)' = Contents(dv)
    BY <2>1
  <2> QED
    BY <2>1, <2>2
<1> QED
  BY <1>2, <1>3, <1>4, <1>5, <1>6 DEF Next

\* Any sequence of calls has the effects and the iterators that the documentation gives
\* for each member function, and a call that throws has none, if moving an element neither
\* throws nor changes it when it is moved onto itself; except that insert may leave a first
\* part of its range and assign elements it replaced.  Of these two less is proved than
\* documented, since they do not keep the strong guarantee.
THEOREM DevectorImplementsContract ==
  ASSUME ~ShiftMayThrow, SelfMoveKeeps, {"insert", "assign"} \subseteq Excepted
  PROVE  Spec => ImplementsContract
<1>1. Init => Contract!Init
  <2> SUFFICES ASSUME Init PROVE Contract!Init
    OBVIOUS
  <2>1. Good(dv)
    BY InitGood DEF Inv
  <2> QED
    BY <2>1, ContentsSeq DEF Init, Call, Contract!Init
<1>2. Inv /\ [Next]_vars => [Contract!Next]_<<Contents(dv), call>>
  BY StepImplements
<1> QED
  BY <1>1, <1>2, AlwaysGood, PTL DEF Spec, ImplementsContract, Contract!Spec

-----------------------------------------------------------------------------
\* References to the elements

\* An object that is in a slot of d and of e is the same.
Stays(d, e) ==
  \A a \in Address : d.slots[a] # Raw /\ e.slots[a] # Raw => e.slots[a] = d.slots[a]

\* Elements are constructed where there was none.
LEMMA PutStays ==
  ASSUME ~ShiftMayThrow, NEW d, Good(d), NEW xs \in Seq(Object)
  PROVE  /\ Len(xs) =< FrontFree(d) => Stays(d, PutFront(d, xs))
         /\ Len(xs) =< BackFree(d) => Stays(d, PutBack(d, xs))
<1>1. /\ d.front \in Nat /\ d.back \in Nat /\ d.front =< d.back /\ Len(xs) \in Nat
      /\ \A a \in Address : a \in Int
  BY GoodIndices, SizesAssumption DEF Indices, Address
<1>2. \A a \in Address : a < d.front \/ d.back =< a => d.slots[a] = Raw
  BY <1>1, GoodFacts DEF Held
<1>3. /\ PutFront(d, xs).slots = Put(d.slots, d.front - Len(xs), xs)
      /\ PutBack(d, xs).slots = Put(d.slots, d.back, xs)
  BY DEF PutFront, PutBack, Good, DevectorType
<1>4. ASSUME NEW a \in Address, d.slots[a] # Raw
      PROVE  Put(d.slots, d.front - Len(xs), xs)[a] = d.slots[a]
  <2>1. ~(a < d.front - Len(xs) + Len(xs))
    BY <1>1, <1>2, <1>4
  <2> QED
    BY <2>1 DEF Put
<1>5. ASSUME NEW a \in Address, d.slots[a] # Raw
      PROVE  Put(d.slots, d.back, xs)[a] = d.slots[a]
  <2>1. ~(d.back =< a)
    BY <1>1, <1>2, <1>4, <1>5
  <2> QED
    BY <2>1 DEF Put
<1> QED
  BY <1>3, <1>4, <1>5 DEF Stays

LEMMA PopStays ==
  ASSUME NEW d, Good(d), NEW n
  PROVE  Stays(d, PopFront(d, n)) /\ Stays(d, PopBack(d, n))
<1>1. /\ PopFront(d, n).slots = Destroy(d.slots, d.front, d.front + n)
      /\ PopBack(d, n).slots = Destroy(d.slots, d.back - n, d.back)
  BY DEF PopFront, PopBack, Good, DevectorType
<1> QED
  BY <1>1 DEF Stays, Destroy

\* Otherwise the elements go to a larger buffer.
LEMMA EmplaceFrontStays ==
  ASSUME ~ShiftMayThrow, NEW d, Good(d), NEW x \in Object, EmplaceFrontOk(d)
  PROVE  EmplaceFront(d, x).cap = d.cap => Stays(d, EmplaceFront(d, x))
<1>1. <<x>> \in Seq(Object) /\ Len(<<x>>) = 1 /\ Indices(d) /\ FrontFree(d) \in Nat
  BY OneElement, GoodIndices DEF FrontFree, Indices
<1>2. CASE FrontFree(d) > 0
  <2>1. Len(<<x>>) =< FrontFree(d)
    BY <1>1, <1>2
  <2> QED
    BY <1>1, <1>2, <2>1, PutStays DEF EmplaceFront
<1>3. CASE ~(FrontFree(d) > 0)
  <2>1. EmplaceFront(d, x).cap = CalculateNewCapacity(d, d.cap + 1)
    BY <1>1, <1>3 DEF EmplaceFront, InsertReallocating
  <2>2. CapacityOk(d, d.cap + 1) /\ d.cap \in Nat /\ d.cap + 1 \in Nat
    BY <1>1, <1>3 DEF EmplaceFrontOk, InsertReallocatingOk, Indices
  <2>3. CalculateNewCapacity(d, d.cap + 1) \in Nat /\ CalculateNewCapacity(d, d.cap + 1) >= d.cap + 1
    BY <2>2, CapacityFacts, SizesAssumption DEF Size
  <2> QED
    BY <2>1, <2>2, <2>3
<1> QED
  BY <1>2, <1>3

LEMMA EmplaceBackStays ==
  ASSUME ~ShiftMayThrow, NEW d, Good(d), NEW x \in Object, EmplaceBackOk(d)
  PROVE  EmplaceBack(d, x).cap = d.cap => Stays(d, EmplaceBack(d, x))
<1>1. <<x>> \in Seq(Object) /\ Len(<<x>>) = 1 /\ Indices(d) /\ BackFree(d) \in Nat
  BY OneElement, GoodIndices DEF BackFree, Indices
<1>2. CASE BackFree(d) > 0
  <2>1. Len(<<x>>) =< BackFree(d)
    BY <1>1, <1>2
  <2> QED
    BY <1>1, <1>2, <2>1, PutStays DEF EmplaceBack
<1>3. CASE ~(BackFree(d) > 0)
  <2>1. EmplaceBack(d, x).cap = CalculateNewCapacity(d, d.cap + 1)
    BY <1>1, <1>3 DEF EmplaceBack, InsertReallocating
  <2>2. CapacityOk(d, d.cap + 1) /\ d.cap \in Nat /\ d.cap + 1 \in Nat
    BY <1>1, <1>3 DEF EmplaceBackOk, InsertReallocatingOk, Indices
  <2>3. CalculateNewCapacity(d, d.cap + 1) \in Nat /\ CalculateNewCapacity(d, d.cap + 1) >= d.cap + 1
    BY <2>2, CapacityFacts, SizesAssumption DEF Size
  <2> QED
    BY <2>1, <2>2, <2>3
<1> QED
  BY <1>2, <1>3

LEMMA ResizeFrontStays ==
  ASSUME ~ShiftMayThrow, NEW d, Good(d), NEW sz \in Nat, NEW x \in Object,
         ResizeFrontOk(d, sz), sz =< FrontCapacity(d) \/ sz + BackFree(d) =< SizeMax
  PROVE  ResizeFront(d, sz, x).cap = d.cap => Stays(d, ResizeFront(d, sz, x))
<1>1. Indices(d) /\ SizeOf(d) \in Nat /\ SizeOf(d) = d.back - d.front
  BY GoodIndices DEF SizeOf, Indices
<1>2. CASE sz =< SizeOf(d)
  BY <1>2, PopStays DEF ResizeFront
<1>3. CASE ~(sz =< SizeOf(d)) /\ sz =< FrontCapacity(d)
  <2> DEFINE xs == Copies(sz - SizeOf(d), x)
  <2>1. sz - SizeOf(d) \in Nat
    BY <1>1, <1>3
  <2>2. xs \in Seq(Object) /\ Len(xs) = sz - SizeOf(d)
    BY <2>1, SomeCopies
  <2>3. Len(xs) =< FrontFree(d)
    BY <1>1, <1>3, <2>2 DEF FrontCapacity, FrontFree, Indices
  <2> QED
    BY <1>3, <2>2, <2>3, PutStays DEF ResizeFront
<1>4. CASE ~(sz =< SizeOf(d)) /\ ~(sz =< FrontCapacity(d))
  <2> DEFINE c == CalculateNewCapacity(d, sz + BackFree(d))
  <2>1. ResizeFront(d, sz, x).cap = c
    BY <1>4 DEF ResizeFront, ResizeFrontSlowPath
  <2>2. sz + BackFree(d) \in Nat /\ sz + BackFree(d) > d.cap /\ d.cap \in Nat
    BY <1>1, <1>4 DEF FrontCapacity, BackFree, Indices
  <2>3. c \in Nat /\ c >= sz + BackFree(d)
    BY <1>4, <2>2, CapacityFacts, SizesAssumption DEF ResizeFrontOk, Size
  <2> HIDE DEF c
  <2> QED
    BY <2>1, <2>2, <2>3
<1> QED
  BY <1>2, <1>3, <1>4

LEMMA ResizeBackStays ==
  ASSUME ~ShiftMayThrow, NEW d, Good(d), NEW sz \in Nat, NEW x \in Object,
         ResizeBackOk(d, sz), sz =< BackCapacity(d) \/ sz + FrontFree(d) =< SizeMax
  PROVE  ResizeBack(d, sz, x).cap = d.cap => Stays(d, ResizeBack(d, sz, x))
<1>1. Indices(d) /\ SizeOf(d) \in Nat /\ SizeOf(d) = d.back - d.front
  BY GoodIndices DEF SizeOf, Indices
<1>2. CASE sz =< SizeOf(d)
  BY <1>2, PopStays DEF ResizeBack
<1>3. CASE ~(sz =< SizeOf(d)) /\ sz =< BackCapacity(d)
  <2> DEFINE xs == Copies(sz - SizeOf(d), x)
  <2>1. sz - SizeOf(d) \in Nat
    BY <1>1, <1>3
  <2>2. xs \in Seq(Object) /\ Len(xs) = sz - SizeOf(d)
    BY <2>1, SomeCopies
  <2>3. sz - SizeOf(d) =< BackFree(d)
    BY <1>1, <1>3 DEF BackCapacity, BackFree, Indices
  <2> QED
    BY <1>3, <2>2, <2>3, PutStays DEF ResizeBack
<1>4. CASE ~(sz =< SizeOf(d)) /\ ~(sz =< BackCapacity(d))
  <2> DEFINE c == CalculateNewCapacity(d, sz + FrontFree(d))
  <2>1. ResizeBack(d, sz, x).cap = c
    BY <1>4 DEF ResizeBack, ResizeBackSlowPath
  <2>2. sz + FrontFree(d) \in Nat /\ sz + FrontFree(d) > d.cap /\ d.cap \in Nat
    BY <1>1, <1>4 DEF BackCapacity, FrontFree, Indices
  <2>3. c \in Nat /\ c >= sz + FrontFree(d)
    BY <1>4, <2>2, CapacityFacts, SizesAssumption DEF ResizeBackOk, Size
  <2> HIDE DEF c
  <2> QED
    BY <2>1, <2>2, <2>3
<1> QED
  BY <1>2, <1>3, <1>4

LEMMA ReserveStays ==
  ASSUME NEW d, Good(d), NEW n \in Nat
  PROVE  /\ ReserveFrontOk(d, n) /\ ReserveFront(d, n).cap = d.cap => ReserveFront(d, n) = d
         /\ ReserveBackOk(d, n) /\ ReserveBack(d, n).cap = d.cap => ReserveBack(d, n) = d
<1>1. Indices(d) /\ MaxSize =< SizeMax /\ SizeMax \in Nat
  BY GoodIndices, SizesAssumption
<1>2. ASSUME ~(FrontCapacity(d) >= n), n + BackFree(d) =< MaxSize
      PROVE  ReserveFront(d, n).cap # d.cap
  <2>1. n + BackFree(d) > d.cap /\ Wrap(n + BackFree(d)) = n + BackFree(d)
    BY <1>1, <1>2 DEF FrontCapacity, BackFree, Wrap, Indices
  <2>2. ReserveFront(d, n).cap = n + BackFree(d)
    BY <1>2, <2>1 DEF ReserveFront, ReallocateAt
  <2> QED
    BY <1>1, <2>1, <2>2 DEF Indices, BackFree
<1>3. ASSUME ~(BackCapacity(d) >= n), n + FrontFree(d) =< MaxSize
      PROVE  ReserveBack(d, n).cap # d.cap
  <2>1. n + FrontFree(d) > d.cap /\ Wrap(n + FrontFree(d)) = n + FrontFree(d)
    BY <1>1, <1>3 DEF BackCapacity, FrontFree, Wrap, Indices
  <2>2. ReserveBack(d, n).cap = n + FrontFree(d)
    BY <1>3, <2>1 DEF ReserveBack, ReallocateAt
  <2> QED
    BY <1>1, <2>1, <2>2 DEF Indices, FrontFree
<1> QED
  BY <1>2, <1>3 DEF ReserveFront, ReserveBack, ReserveFrontOk, ReserveBackOk

LEMMA StepStays ==
  ASSUME ~ShiftMayThrow, Inv, Next, call'.op \in AtEnds, dv'.cap = dv.cap
  PROVE  Stays(dv, dv')
<1>0. Good(dv) /\ MaxLen \in Nat /\ Size \subseteq Nat /\ Values \subseteq Object
  BY BoundsAssumption, SizesAssumption DEF Inv, Size, Object
<1>1. Stays(dv, dv)
  BY DEF Stays
<1>2. \A op, at, n, xs : Throws(op, at, n, xs, {dv}) => Stays(dv, dv')
  BY <1>1, CallReads
<1>3. ASSUME NEW x \in Values, EmplaceFrontCall(x) PROVE Stays(dv, dv')
  BY <1>0, <1>2, <1>3, CallReads, EmplaceFrontStays DEF EmplaceFrontCall
<1>4. ASSUME NEW x \in Values, EmplaceBackCall(x) PROVE Stays(dv, dv')
  BY <1>0, <1>2, <1>4, CallReads, EmplaceBackStays DEF EmplaceBackCall
<1>5. ASSUME NEW x \in Values, NEW sz \in 0 .. MaxLen, ResizeFrontCall(sz, x)
      PROVE  Stays(dv, dv')
  <2>1. x \in Object /\ sz \in Nat
    BY <1>0
  <2> QED
    BY <1>0, <1>2, <1>5, <2>1, CallReads, ResizeFrontStays DEF ResizeFrontCall
<1>6. ASSUME NEW x \in Values, NEW sz \in 0 .. MaxLen, ResizeBackCall(sz, x)
      PROVE  Stays(dv, dv')
  <2>1. x \in Object /\ sz \in Nat
    BY <1>0
  <2> QED
    BY <1>0, <1>2, <1>6, <2>1, CallReads, ResizeBackStays DEF ResizeBackCall
<1>7. CASE PopFrontCall \/ PopBackCall
  BY <1>0, <1>7, CallReads, PopStays DEF PopFrontCall, PopBackCall
<1>8. ASSUME NEW n \in Size, ReserveFrontCall(n) \/ ReserveBackCall(n)
      PROVE  Stays(dv, dv')
  <2>1. n \in Nat
    BY <1>0
  <2> QED
    BY <1>0, <1>1, <1>2, <1>8, <2>1, CallReads, ReserveStays
       DEF ReserveFrontCall, ReserveBackCall
<1>9. /\ ~ClearCall /\ ~ShrinkToFitCall
      /\ \A index, x : ~EmplaceCall(index, x)
      /\ \A index, xs : ~InsertCall(index, xs)
      /\ \A index, n : ~EraseCall(index, n)
      /\ \A xs : ~AssignCall(xs)
  BY CallReads DEF AtEnds, ClearCall, ShrinkToFitCall, EmplaceCall, InsertCall, EraseCall,
                   AssignCall
<1> QED
  BY <1>3, <1>4, <1>5, <1>6, <1>7, <1>8, <1>9 DEF Next

\* An operation at the ends that does not reallocate leaves every element where it is, for
\* every growth policy: each reallocation is to a larger buffer, and without one the new
\* elements are constructed outside of the old ones.
THEOREM EndsLeaveElementsInPlace ==
  ASSUME ~ShiftMayThrow
  PROVE  Spec => EndsMoveNothing
<1>1. Inv /\ [Next]_vars =>
        [call'.op \in AtEnds /\ dv'.cap = dv.cap =>
           \A a \in Address :
             dv.slots[a] # Raw /\ dv'.slots[a] # Raw => dv'.slots[a] = dv.slots[a]]_vars
  BY StepStays DEF Stays
<1> QED
  BY <1>1, AlwaysGood, PTL DEF Spec, EndsMoveNothing

-----------------------------------------------------------------------------
(***************************************************************************)
(* One call that gives a devector another buffer, taken apart              *)
(* (Reallocation).                                                         *)
(***************************************************************************)
\* The layout of a new buffer

\* m has, from slot f on, the objects lo .. mid-1 of s, xs, and the objects mid .. hi-1
\* of s; and nothing else.
Laid(m, f, s, lo, mid, hi, xs) ==
  /\ \A i \in 0 .. (mid - lo) - 1 : m[f + i] = s[lo + i]
  /\ \A i \in 0 .. Len(xs) - 1 : m[f + (mid - lo) + i] = xs[i + 1]
  /\ \A i \in 0 .. (hi - mid) - 1 : m[f + (mid - lo) + Len(xs) + i] = s[mid + i]
  /\ \A a \in Address : a < f \/ a >= f + (hi - lo) + Len(xs) => m[a] = Raw

\* Constructing xs and then moving the objects on both sides of it lays out a buffer.
LEMMA BothHalvesLaid ==
  ASSUME NEW s, NEW lo \in Nat, NEW mid \in Nat, NEW hi \in Nat,
         lo =< mid, mid =< hi, NEW f \in Nat, NEW xs \in Seq(Object),
         f + (hi - lo) + Len(xs) =< MaxSize,
         NEW m, m = Transfer(s, mid, hi,
                             Transfer(s, lo, mid,
                                      Put(NoObjects, f + (mid - lo), xs), f),
                             f + (mid - lo) + Len(xs))
  PROVE  Laid(m, f, s, lo, mid, hi, xs)
<1> DEFINE n == Len(xs)
           k == mid - lo
<1>1. n \in Nat /\ k \in Nat /\ MaxSize \in Nat /\ hi - mid \in Nat
      /\ hi - lo = k + (hi - mid) /\ f + k + n + (hi - mid) =< MaxSize
  BY SizesAssumption
<1>2. \A a \in Address :
        m[a] = IF f + k + n =< a /\ a < f + k + n + (hi - mid)
               THEN s[mid + (a - (f + k + n))]
               ELSE IF f =< a /\ a < f + k THEN s[lo + (a - f)]
               ELSE IF f + k =< a /\ a < f + k + n THEN xs[a - (f + k) + 1]
               ELSE Raw
  BY DEF Transfer, Put, NoObjects
<1> HIDE DEF n, k
<1>3. ASSUME NEW i \in 0 .. k - 1 PROVE m[f + i] = s[lo + i]
  <2>1. f + i \in Address /\ f =< f + i /\ f + i < f + k /\ lo + ((f + i) - f) = lo + i
        /\ ~(f + k + n =< f + i)
    BY <1>1, <1>3 DEF Address
  <2> QED
    BY <1>2, <2>1
<1>4. ASSUME NEW i \in 0 .. n - 1 PROVE m[f + k + i] = xs[i + 1]
  <2>1. /\ f + k + i \in Address /\ f + k =< f + k + i /\ f + k + i < f + k + n
        /\ (f + k + i) - (f + k) + 1 = i + 1
        /\ ~(f + k + n =< f + k + i) /\ ~(f + k + i < f + k)
    BY <1>1, <1>4 DEF Address
  <2> QED
    BY <1>2, <2>1
<1>5. ASSUME NEW i \in 0 .. (hi - mid) - 1 PROVE m[f + k + n + i] = s[mid + i]
  <2>1. /\ f + k + n + i \in Address /\ f + k + n =< f + k + n + i
        /\ f + k + n + i < f + k + n + (hi - mid)
        /\ mid + ((f + k + n + i) - (f + k + n)) = mid + i
    BY <1>1, <1>5 DEF Address
  <2> QED
    BY <1>2, <2>1
<1>6. ASSUME NEW a \in Address, a < f \/ a >= f + (hi - lo) + n PROVE m[a] = Raw
  <2>1. /\ ~(f + k + n =< a /\ a < f + k + n + (hi - mid))
        /\ ~(f =< a /\ a < f + k) /\ ~(f + k =< a /\ a < f + k + n)
    BY <1>1, <1>6 DEF Address
  <2> QED
    BY <1>2, <2>1
<1> QED
  BY <1>3, <1>4, <1>5, <1>6 DEF Laid, n, k

\* Moving no object, or constructing none, changes nothing.
LEMMA NothingMoved ==
  ASSUME NEW s, NEW dst \in Memory, NEW lo \in Nat, NEW at \in Int
  PROVE  /\ Transfer(s, lo, lo, dst, at) = dst
         /\ Put(dst, at, << >>) = dst
<1>1. \A a \in Address : a \in Int
  BY SizesAssumption DEF Address
<1>2. \A a \in Address : ~(at =< a /\ a < at + (lo - lo))
  BY <1>1
<1>3. Transfer(s, lo, lo, dst, at) = dst
  BY <1>2 DEF Transfer, Memory
<1>4. \A a \in Address : ~(at =< a /\ a < at + Len(<< >>))
  BY <1>1
<1>5. Put(dst, at, << >>) = dst
  BY <1>4 DEF Put, Memory
<1> QED
  BY <1>3, <1>5

-----------------------------------------------------------------------------
\* The calls

\* How many elements go in front of the new ones and behind them
InFront(r)   == IF r.moves THEN r.index ELSE 0
Behind(d, r) == IF r.moves THEN SizeOf(d) - r.index ELSE 0

\* What the steps rely on: the object that the call is to make of d is a good one, and
\* its slots are laid out as the steps construct them.
Plan(d, r) ==
  /\ r.xs \in Seq(Object)
  /\ InFront(r) \in Nat /\ Behind(d, r) \in Nat
  /\ d.front + InFront(r) + Behind(d, r) =< d.back
  /\ Good(r.after)
  /\ r.after.back = r.after.front + InFront(r) + Len(r.xs) + Behind(d, r)
  /\ Laid(r.after.slots, r.after.front, d.slots, d.front, d.front + InFront(r),
          d.front + InFront(r) + Behind(d, r), r.xs)

\* The new elements are sequences of objects.
LEMMA NewsAreObjects ==
  ASSUME MaxNew \in Nat, NEW xs \in News
  PROVE  xs \in Seq(Object)
<1>1. PICK n \in 0 .. MaxNew : xs \in [1 .. n -> Values]
  BY DEF News
<1>2. xs \in [1 .. n -> Object] /\ n \in Nat
  BY <1>1 DEF Object
<1> QED
  BY <1>2

\* A call that moves all elements, index of them in front of the new ones
LEMMA MovingPlan ==
  ASSUME NEW d, Good(d), NEW xs \in Seq(Object), NEW index \in 0 .. SizeOf(d),
         NEW e, Good(e), e.back = e.front + SizeOf(d) + Len(xs),
         Laid(e.slots, e.front, d.slots, d.front, d.front + index, d.back, xs)
  PROVE  Plan(d, Request(index, xs, TRUE, e))
<1> DEFINE r == Request(index, xs, TRUE, e)
<1>1. r.xs = xs /\ r.after = e /\ InFront(r) = index /\ Behind(d, r) = SizeOf(d) - index
  BY DEF Request, InFront, Behind
<1> HIDE DEF r
<1>2. Indices(d) /\ Indices(e) /\ Len(xs) \in Nat /\ SizeOf(d) = d.back - d.front
  BY GoodIndices DEF SizeOf
<1>3. index \in Nat /\ SizeOf(d) - index \in Nat
  BY <1>2 DEF Indices
<1>4. d.front + index + (SizeOf(d) - index) = d.back
  BY <1>2, <1>3, SMTT(30) DEF Indices
<1>5. e.back = e.front + index + Len(xs) + (SizeOf(d) - index)
  <2> DEFINE n == Len(xs)
             k == SizeOf(d)
  <2>1. e.front \in Int /\ n \in Int /\ k \in Int /\ index \in Int
    BY <1>2, <1>3, SMTT(30) DEF Indices
  <2>2. e.back = e.front + k + n
    OBVIOUS
  <2> HIDE DEF n, k
  <2>3. e.back = e.front + index + n + (k - index)
    BY <2>1, <2>2
  <2> QED
    BY <2>3 DEF n, k
<1>6. d.front + index + (SizeOf(d) - index) =< d.back
  BY <1>2, <1>4 DEF Indices
<1> QED
  BY <1>1, <1>3, <1>4, <1>5, <1>6 DEF Plan, r

\* emplace_reallocating_slow_path and insert_range_reallocating_slow_path
LEMMA InsertionPlan ==
  ASSUME MaxNew \in Nat, NEW d, Good(d), NEW r \in Insertions(d)
  PROVE  Plan(d, r)
<1> DEFINE Fitting == {xs \in News : /\ Len(xs) > 0 /\ InsertReallocatingOk(d, Len(xs))
                                     /\ Len(xs) = 1 \/ d.cap + Len(xs) =< SizeMax}
           made(i, b, xs) == Request(i, xs, TRUE, InsertReallocating(d, b, i, xs))
<1>0. PICK index \in 0 .. SizeOf(d), b \in BOOLEAN, xs \in Fitting : r = made(index, b, xs)
  <2>1. Insertions(d)
          = {made(i, b, xs) : i \in 0 .. SizeOf(d), b \in BOOLEAN, xs \in Fitting}
    BY DEF Insertions
  <2> HIDE DEF Fitting, made
  <2>2. r \in {made(i, b, xs) : i \in 0 .. SizeOf(d), b \in BOOLEAN, xs \in Fitting}
    BY <2>1
  <2> QED
    BY <2>2
<1>1. /\ xs \in News /\ InsertReallocatingOk(d, Len(xs))
      /\ Len(xs) = 1 \/ d.cap + Len(xs) =< SizeMax
      /\ r = Request(index, xs, TRUE, InsertReallocating(d, b, index, xs))
  BY <1>0
<1> HIDE DEF Fitting
<1>2. xs \in Seq(Object) /\ Len(xs) \in Nat
  BY <1>1, NewsAreObjects
<1> DEFINE e == InsertReallocating(d, b, index, xs)
<1>3. Good(e)
  BY <1>1, <1>2, InsertReallocatingGood
<1>4. Indices(d) /\ Indices(e) /\ SizeOf(d) = d.back - d.front
  BY <1>3, GoodIndices DEF SizeOf
<1>5. /\ e.back = e.front + SizeOf(d) + Len(xs)
      /\ e.slots = Transfer(d.slots, d.front + index, d.back,
                            Transfer(d.slots, d.front, d.front + index,
                                     Put(NoObjects, e.front + index, xs), e.front),
                            e.front + index + Len(xs))
  BY DEF InsertReallocating
<1> HIDE DEF e
<1>6. d.front \in Nat /\ d.front + index \in Nat /\ d.back \in Nat /\ e.front \in Nat
      /\ d.front =< d.front + index /\ d.front + index =< d.back
      /\ (d.front + index) - d.front = index
  BY <1>4 DEF Indices
<1>7. e.front + (d.back - d.front) + Len(xs) =< MaxSize
  BY <1>2, <1>4, <1>5 DEF Indices
<1>8. Laid(e.slots, e.front, d.slots, d.front, d.front + index, d.back, xs)
  BY <1>2, <1>5, <1>6, <1>7, BothHalvesLaid
<1> QED
  BY <1>1, <1>2, <1>3, <1>5, <1>8, MovingPlan DEF e

\* resize_front_slow_path
LEMMA ResizeFrontPlan ==
  ASSUME MaxNew \in Nat, NEW d, Good(d), NEW r \in ResizesFront(d)
  PROVE  Plan(d, r)
<1>1. PICK xs \in News :
        /\ SizeOf(d) + Len(xs) > FrontCapacity(d)
        /\ SizeOf(d) + Len(xs) + BackFree(d) =< SizeMax
        /\ ResizeFrontOk(d, SizeOf(d) + Len(xs))
        /\ r = Request(0, xs, TRUE, ResizeFrontSlowPath(d, SizeOf(d) + Len(xs), xs))
  BY DEF ResizesFront
<1>2. xs \in Seq(Object) /\ Len(xs) \in Nat
  BY NewsAreObjects
<1>3. Indices(d) /\ SizeOf(d) = d.back - d.front /\ SizeOf(d) \in Nat
      /\ SizeOf(d) + Len(xs) \in Nat
  BY <1>2, GoodIndices DEF SizeOf, Indices
<1> DEFINE e == ResizeFrontSlowPath(d, SizeOf(d) + Len(xs), xs)
<1>4. Good(e)
  <2>1. CapacityOk(d, SizeOf(d) + Len(xs) + BackFree(d))
    BY <1>1, <1>2, <1>3 DEF ResizeFrontOk, FrontCapacity, Indices
  <2> QED
    BY <1>1, <1>2, <1>3, <2>1, ResizeFrontSlowPathGood
<1>5. /\ e.back = (e.cap - SizeOf(d)) + SizeOf(d)
      /\ e.front = (e.cap - SizeOf(d)) - Len(xs)
      /\ e.slots = Transfer(d.slots, d.front, d.back,
                            Put(NoObjects, e.front, xs), e.cap - SizeOf(d))
  BY DEF ResizeFrontSlowPath
<1> HIDE DEF e
<1>6. Indices(e)
  BY <1>4, GoodIndices
<1>7. /\ e.cap - SizeOf(d) = e.front + 0 + Len(xs)
      /\ e.back = e.front + SizeOf(d) + Len(xs)
      /\ e.front + (d.back - d.front) + Len(xs) =< MaxSize
  <2> DEFINE n == Len(xs)
             k == SizeOf(d)
  <2>1. /\ e.front \in Int /\ n \in Int /\ k \in Int /\ e.cap \in Int /\ e.back \in Int
        /\ e.cap =< MaxSize /\ MaxSize \in Int /\ e.back =< e.cap
    BY <1>2, <1>3, <1>6 DEF Indices
  <2>2. e.back = (e.cap - k) + k /\ e.front = (e.cap - k) - n /\ k = d.back - d.front
    BY <1>3, <1>5
  <2> HIDE DEF n, k
  <2>3. e.cap - k = e.front + 0 + n /\ e.back = e.front + k + n
    BY <2>1, <2>2
  <2>4. e.front + k + n =< MaxSize
    BY <2>1, <2>3
  <2> QED
    BY <2>2, <2>3, <2>4 DEF n, k
<1>8. Put(NoObjects, e.front, xs) \in Memory /\ e.front \in Int
  BY <1>2, <1>6, PutObjects, NoObjectsRaw DEF Indices
<1>9. e.slots = Transfer(d.slots, d.front, d.back,
                         Transfer(d.slots, d.front, d.front,
                                  Put(NoObjects, e.front + (d.front - d.front), xs),
                                  e.front),
                         e.front + (d.front - d.front) + Len(xs))
  <2>1. d.front - d.front = 0 /\ e.front + 0 = e.front /\ d.front \in Nat
    BY <1>3, <1>6 DEF Indices
  <2>2. Transfer(d.slots, d.front, d.front, Put(NoObjects, e.front, xs), e.front)
          = Put(NoObjects, e.front, xs)
    BY <1>8, <2>1, NothingMoved
  <2> QED
    BY <1>5, <1>7, <2>1, <2>2
<1>10. d.front \in Nat /\ d.back \in Nat /\ d.front =< d.back /\ e.front \in Nat
       /\ d.front + 0 = d.front /\ 0 \in 0 .. SizeOf(d) /\ d.front =< d.front
  BY <1>3, <1>6 DEF Indices
<1>11. Laid(e.slots, e.front, d.slots, d.front, d.front, d.back, xs)
  BY <1>2, <1>7, <1>9, <1>10, BothHalvesLaid
<1> QED
  BY <1>1, <1>2, <1>4, <1>7, <1>10, <1>11, MovingPlan DEF e

\* resize_back_slow_path
LEMMA ResizeBackPlan ==
  ASSUME MaxNew \in Nat, NEW d, Good(d), NEW r \in ResizesBack(d)
  PROVE  Plan(d, r)
<1>1. PICK xs \in News :
        /\ SizeOf(d) + Len(xs) > BackCapacity(d)
        /\ SizeOf(d) + Len(xs) + FrontFree(d) =< SizeMax
        /\ ResizeBackOk(d, SizeOf(d) + Len(xs))
        /\ r = Request(SizeOf(d), xs, TRUE,
                       ResizeBackSlowPath(d, SizeOf(d) + Len(xs), xs))
  BY DEF ResizesBack
<1>2. xs \in Seq(Object) /\ Len(xs) \in Nat
  BY NewsAreObjects
<1>3. Indices(d) /\ SizeOf(d) = d.back - d.front /\ SizeOf(d) \in Nat
      /\ SizeOf(d) + Len(xs) \in Nat
  BY <1>2, GoodIndices DEF SizeOf, Indices
<1> DEFINE e == ResizeBackSlowPath(d, SizeOf(d) + Len(xs), xs)
<1>4. Good(e)
  <2>1. CapacityOk(d, SizeOf(d) + Len(xs) + FrontFree(d))
    BY <1>1, <1>2, <1>3 DEF ResizeBackOk, BackCapacity, Indices
  <2> QED
    BY <1>1, <1>2, <1>3, <2>1, ResizeBackSlowPathGood
<1>5. /\ e.front = d.front /\ e.back = d.back + Len(xs)
      /\ e.slots = Transfer(d.slots, d.front, d.back,
                            Put(NoObjects, d.back, xs), d.front)
  BY DEF ResizeBackSlowPath
<1> HIDE DEF e
<1>6. Indices(e)
  BY <1>4, GoodIndices
<1>7. /\ e.back = e.front + SizeOf(d) + Len(xs)
      /\ e.front + (d.back - d.front) + Len(xs) =< MaxSize
      /\ e.front + (d.back - d.front) = d.back
  BY <1>2, <1>3, <1>5, <1>6, SMTT(30) DEF Indices
<1>8. Put(NoObjects, d.back, xs) \in Memory
  BY <1>2, <1>3, PutObjects, NoObjectsRaw DEF Indices
<1>9. e.slots = Transfer(d.slots, d.back, d.back,
                         Transfer(d.slots, d.front, d.back,
                                  Put(NoObjects, e.front + (d.back - d.front), xs),
                                  e.front),
                         e.front + (d.back - d.front) + Len(xs))
  <2> DEFINE m == Transfer(d.slots, d.front, d.back,
                           Put(NoObjects, d.back, xs), d.front)
  <2>1. m \in Memory
    <3>1. d.front \in Int
      BY <1>3 DEF Indices
    <3> QED
      BY <1>8, <3>1, TransferAll
  <2>2. d.back + Len(xs) \in Int /\ d.back \in Nat
    BY <1>2, <1>3 DEF Indices
  <2>3. Transfer(d.slots, d.back, d.back, m, d.back + Len(xs)) = m
    BY <2>1, <2>2, NothingMoved
  <2> QED
    BY <1>5, <1>7, <2>3
<1>10. d.front \in Nat /\ d.back \in Nat /\ d.front =< d.back /\ e.front \in Nat
       /\ d.front + SizeOf(d) = d.back /\ SizeOf(d) \in 0 .. SizeOf(d)
       /\ d.back =< d.back
  BY <1>3, <1>6, SMTT(30) DEF Indices
<1>11. Laid(e.slots, e.front, d.slots, d.front, d.back, d.back, xs)
  BY <1>2, <1>7, <1>9, <1>10, BothHalvesLaid
<1> QED
  BY <1>1, <1>2, <1>4, <1>7, <1>10, <1>11, MovingPlan DEF e

\* A call that moves the elements and constructs no other
LEMMA OnlyMovingPlan ==
  ASSUME NEW d, Good(d), NEW e, Good(e), e.back = e.front + SizeOf(d),
         e.slots = Transfer(d.slots, d.front, d.back, NoObjects, e.front)
  PROVE  Plan(d, Request(0, << >>, TRUE, e))
<1>1. /\ d.front \in Nat /\ d.back \in Nat /\ d.front =< d.back /\ e.front \in Nat
      /\ e.back =< MaxSize /\ SizeOf(d) \in Nat /\ SizeOf(d) = d.back - d.front
      /\ MaxSize \in Nat /\ e.back \in Nat
  BY GoodIndices, SizesAssumption DEF Indices, SizeOf
<1> DEFINE none == << >>
<1>2. none \in Seq(Object) /\ Len(none) = 0
  OBVIOUS
<1>3. Put(NoObjects, e.front, none) = NoObjects /\ NoObjects \in Memory
  <2>1. e.front \in Int /\ NoObjects \in Memory
    BY <1>1, NoObjectsRaw
  <2> QED
    BY <1>1, <2>1, NothingMoved
<1>4. Transfer(d.slots, d.front, d.front, NoObjects, e.front) = NoObjects
  BY <1>1, <1>3, NothingMoved
<1> HIDE DEF none
<1>5. e.slots = Transfer(d.slots, d.front, d.back,
                         Transfer(d.slots, d.front, d.front,
                                  Put(NoObjects, e.front + (d.front - d.front), none),
                                  e.front),
                         e.front + (d.front - d.front) + Len(none))
  <2>1. e.front + (d.front - d.front) = e.front /\ e.front + Len(none) = e.front
    BY <1>1, <1>2
  <2> QED
    BY <1>3, <1>4, <2>1
<1>6. e.front + (d.back - d.front) + Len(none) =< MaxSize /\ d.front =< d.front
  BY <1>1, <1>2
<1>7. Laid(e.slots, e.front, d.slots, d.front, d.front, d.back, none)
  BY <1>1, <1>2, <1>5, <1>6, BothHalvesLaid
<1>8. /\ e.back = e.front + SizeOf(d) + Len(none)
      /\ 0 \in 0 .. SizeOf(d) /\ d.front + 0 = d.front
  BY <1>1, <1>2
<1>9. Plan(d, Request(0, none, TRUE, e))
  BY <1>2, <1>7, <1>8, MovingPlan
<1> QED
  BY <1>9 DEF none

\* reallocate_at
LEMMA ReservationPlan ==
  ASSUME NEW d, Good(d), NEW r \in Reservations(d)
  PROVE  Plan(d, r)
<1>0. Indices(d)
  BY GoodIndices
<1>1. ASSUME NEW n \in Size, FrontCapacity(d) < n, ReserveFrontOk(d, n)
      PROVE  Plan(d, Request(0, << >>, TRUE, ReserveFront(d, n)))
  <2> DEFINE e == ReserveFront(d, n)
  <2>1. n \in Nat /\ ~(FrontCapacity(d) >= n)
    BY <1>0, <1>1 DEF Size, FrontCapacity, Indices
  <2>2. Good(e)
    BY <1>1, <2>1, ReserveFrontGood
  <2>3. e.back = e.front + SizeOf(d)
        /\ e.slots = Transfer(d.slots, d.front, d.back, NoObjects, e.front)
    BY <2>1 DEF ReserveFront, ReallocateAt
  <2> HIDE DEF e
  <2>4. Plan(d, Request(0, << >>, TRUE, e))
    BY <2>2, <2>3, OnlyMovingPlan
  <2> QED
    BY <2>4 DEF e
<1>2. ASSUME NEW n \in Size, BackCapacity(d) < n, ReserveBackOk(d, n)
      PROVE  Plan(d, Request(0, << >>, TRUE, ReserveBack(d, n)))
  <2> DEFINE e == ReserveBack(d, n)
  <2>1. n \in Nat /\ ~(BackCapacity(d) >= n)
    BY <1>0, <1>2 DEF Size, BackCapacity, Indices
  <2>2. Good(e)
    BY <1>2, <2>1, ReserveBackGood
  <2>3. e.back = e.front + SizeOf(d)
        /\ e.slots = Transfer(d.slots, d.front, d.back, NoObjects, e.front)
    BY <2>1 DEF ReserveBack, ReallocateAt
  <2> HIDE DEF e
  <2>4. Plan(d, Request(0, << >>, TRUE, e))
    BY <2>2, <2>3, OnlyMovingPlan
  <2> QED
    BY <2>4 DEF e
<1> DEFINE inFront(n) == Request(0, << >>, TRUE, ReserveFront(d, n))
           atBack(n)  == Request(0, << >>, TRUE, ReserveBack(d, n))
<1>3. \/ \E n \in Size : FrontCapacity(d) < n /\ ReserveFrontOk(d, n) /\ r = inFront(n)
      \/ \E n \in Size : BackCapacity(d) < n /\ ReserveBackOk(d, n) /\ r = atBack(n)
  <2>1. Reservations(d)
          = {inFront(n) : n \in {n \in Size : FrontCapacity(d) < n /\ ReserveFrontOk(d, n)}}
            \cup
            {atBack(n) : n \in {n \in Size : BackCapacity(d) < n /\ ReserveBackOk(d, n)}}
    BY DEF Reservations
  <2> HIDE DEF inFront, atBack
  <2> QED
    BY <2>1
<1> QED
  BY <1>1, <1>2, <1>3

\* shrink_to_fit
LEMMA ShrinkPlan ==
  ASSUME NEW d, Good(d), NEW r \in Shrinks(d)
  PROVE  Plan(d, r)
<1> DEFINE e == ShrinkToFit(d)
<1>1. /\ ShouldShrink(SizeOf(d), d.cap) /\ ~IsSmall(d)
      /\ r = Request(0, << >>, TRUE, e)
  BY DEF Shrinks
<1>2. Good(e)
  BY ShrinkToFitGood
<1>3. SizeOf(d) \in Nat
  BY GoodIndices DEF Indices, SizeOf
<1>4. e.back = e.front + SizeOf(d)
      /\ e.slots = Transfer(d.slots, d.front, d.back, NoObjects, e.front)
  <2>1. CASE SizeOf(d) =< SBuf
    BY <1>1, <1>3, <2>1 DEF ShrinkToFit
  <2>2. CASE ~(SizeOf(d) =< SBuf)
    BY <1>1, <1>3, <2>2 DEF ShrinkToFit, ReallocateAt
  <2> QED
    BY <2>1, <2>2
<1> HIDE DEF e
<1>5. Plan(d, Request(0, << >>, TRUE, e))
  BY <1>2, <1>4, OnlyMovingPlan
<1> QED
  BY <1>1, <1>5

\* allocate_and_copy_range: no element is moved.
LEMMA AssignmentPlan ==
  ASSUME MaxNew \in Nat, NEW d, Good(d), NEW r \in Assignments(d)
  PROVE  Plan(d, r)
<1>1. PICK xs \in News : /\ Len(xs) > d.cap /\ AssignOk(d, Len(xs))
                         /\ r = Request(0, xs, FALSE, AllocateAndCopyRange(d, xs))
  BY DEF Assignments
<1>2. xs \in Seq(Object) /\ Len(xs) \in Nat
  BY NewsAreObjects
<1>3. Indices(d) /\ Len(xs) =< MaxSize /\ ~(d.cap >= Len(xs))
  BY <1>1, <1>2, GoodIndices DEF AssignOk, Indices
<1> DEFINE e == AllocateAndCopyRange(d, xs)
<1>4. Good(e)
  BY <1>1, <1>2, <1>3, AssignGood DEF Assign
<1>5. e.front = 0 /\ e.back = Len(xs) /\ e.slots = Put(NoObjects, 0, xs)
  BY DEF AllocateAndCopyRange
<1> HIDE DEF e
<1>6. /\ r.xs = xs /\ r.after = e /\ InFront(r) = 0 /\ Behind(d, r) = 0
  BY <1>1 DEF Request, InFront, Behind, e
<1> DEFINE at == d.front
<1>7. /\ at \in Nat /\ at =< d.back /\ d.back \in Nat
      /\ at + 0 = at /\ at + 0 + 0 = at /\ at - at = 0
  BY <1>3 DEF Indices
<1>8. Put(NoObjects, 0, xs) \in Memory
  BY <1>2, PutObjects, NoObjectsRaw
<1>9. e.slots = Transfer(d.slots, at, at,
                         Transfer(d.slots, at, at,
                                  Put(NoObjects, 0 + (at - at), xs), 0),
                         0 + (at - at) + Len(xs))
  <2>1. Transfer(d.slots, at, at, Put(NoObjects, 0, xs), 0) = Put(NoObjects, 0, xs)
    BY <1>7, <1>8, NothingMoved
  <2>2. Transfer(d.slots, at, at, Put(NoObjects, 0, xs), Len(xs))
          = Put(NoObjects, 0, xs)
    BY <1>2, <1>7, <1>8, NothingMoved
  <2>3. 0 + (at - at) = 0 /\ 0 + (at - at) + Len(xs) = Len(xs)
    BY <1>2, <1>7
  <2> QED
    BY <1>5, <2>1, <2>2, <2>3
<1>10. 0 + (at - at) + Len(xs) =< MaxSize /\ at =< at /\ 0 \in Nat
  BY <1>2, <1>3, <1>7
<1> HIDE DEF at
<1>11. Laid(e.slots, 0, d.slots, at, at, at, xs)
  BY <1>2, <1>7, <1>9, <1>10, BothHalvesLaid
<1>12. e.back = e.front + 0 + Len(xs) + 0
  BY <1>2, <1>5
<1> QED
  BY <1>2, <1>4, <1>5, <1>6, <1>7, <1>11, <1>12 DEF Plan, at

\* Every call has such a plan.
LEMMA RequestPlan ==
  ASSUME MaxNew \in Nat, NEW d, Good(d), NEW r \in Requests(d)
  PROVE  Plan(d, r)
  BY InsertionPlan, ResizeFrontPlan, ResizeBackPlan, ReservationPlan, ShrinkPlan,
     AssignmentPlan DEF Requests

-----------------------------------------------------------------------------
\* The inductive invariant

stepVars == <<self, request, before, pc, new, heap, second, first>>

\* One call, whichever it is
CallSpec == CallInit /\ [][Step]_stepVars

\* How many elements of each part there are, and where the new buffer's begin
news   == Len(request.xs)
front  == InFront(request)
behind == Behind(before, request)
start  == request.after.front

\* The new buffer holds at each guarded slot what it is to hold there, and no object
\* elsewhere.
NewHolds ==
  /\ new \in Memory
  /\ \A a \in Address :
       new[a] = IF a \in Guarded(first) \/ a \in Guarded(second)
                THEN request.after.slots[a] ELSE Raw

\* The guards are apart, and within the elements of the new buffer.
GuardsApart ==
  /\ start =< first.at /\ first.at + first.count =< second.at
  /\ second.at + second.count =< request.after.back

\* How far the construction has come: the new elements are first, then those in front of
\* them, then those behind.
Progress ==
  /\ first.at = start /\ second.at = start + front
  /\ first.count =< front /\ second.count =< news + behind
  /\ second.count < news => first.count = 0
  /\ second.count > news => first.count = front

\* The element at slot a was moved.
Gone(a) ==
  /\ ~ShiftMayThrow
  /\ \/ self.front =< a /\ a < self.front + first.count
     \/ /\ self.front + front =< a
        /\ a < self.front + front + (second.count - news)

\* Only moving changes the old elements, and nothing the members, until all is constructed.
OldMembers == self = [before EXCEPT !.slots = self.slots] /\ self.slots \in Memory
OldKept    == \A a \in Address : Gone(a) \/ self.slots[a] = before.slots[a]

Both == InHeap(before, "old") \cup InHeap(request.after, "new")

Guarding(g) == g.at \in Nat /\ g.count \in Nat /\ g = [at |-> g.at, count |-> g.count]

CallInv ==
  /\ Good(before) /\ Plan(before, request)
  /\ Guarding(first) /\ Guarding(second)
  /\ pc # "done" => NewHolds /\ OldMembers
  /\ pc \in {"allocate", "construct", "cleanup", "unwind", "threw", "done"}
  /\ pc \in {"construct", "cleanup", "unwind"} => GuardsApart /\ heap = Both
  /\ pc \in {"construct", "cleanup"} => Progress
  /\ pc = "construct" => OldKept
  /\ pc = "cleanup" => first.count = front /\ second.count = news + behind
  /\ pc \in {"allocate", "unwind", "threw"} => self = before
  /\ pc \in {"allocate", "threw"} =>
       heap = InHeap(before, "old") /\ Spent(first) /\ Spent(second)
  /\ pc = "done" => self = request.after /\ heap = InHeap(request.after, "new")

\* The object before the call and the call stay the same.
LEMMA SamePlan ==
  ASSUME Good(before), Plan(before, request), UNCHANGED <<before, request>>
  PROVE  /\ Good(before)' /\ Plan(before, request)'
         /\ start' = start /\ front' = front /\ news' = news /\ behind' = behind
         /\ InHeap(before, "old")' = InHeap(before, "old")
         /\ InHeap(request.after, "new")' = InHeap(request.after, "new")
<1>1. before' = before /\ request' = request
  OBVIOUS
<1>2. Good(before)'
  BY <1>1 DEF Good, InvariantsOk, HasBuffer, BufferMatches, MustFree, IsSmall, Held
<1>3. Good(request.after)'
  BY <1>1 DEF Plan, Good, InvariantsOk, HasBuffer, BufferMatches, MustFree, IsSmall, Held
<1>4. start' = start /\ front' = front /\ news' = news /\ behind' = behind
  BY <1>1 DEF start, front, news, behind, InFront, Behind, SizeOf
<1>5. /\ InHeap(before, "old")' = InHeap(before, "old")
      /\ InHeap(request.after, "new")' = InHeap(request.after, "new")
  BY <1>1 DEF InHeap, MustFree, IsSmall, HasBuffer
<1>6. Plan(before, request)'
  BY <1>1, <1>3 DEF Plan, Laid, InFront, Behind, SizeOf
<1> QED
  BY <1>2, <1>3, <1>4, <1>5, <1>6

\* What the plan says in these terms.
LEMMA PlanFacts ==
  ASSUME Good(before), Plan(before, request)
  PROVE  /\ {start, front, news, behind, request.after.back, before.front, before.back}
              \subseteq Nat
         /\ MaxSize \in Nat /\ request.after.back =< MaxSize
         /\ request.after.back = start + front + news + behind
         /\ before.front + front + behind =< before.back /\ before.back =< MaxSize
         /\ request.after.slots \in Memory /\ before.slots \in Memory
         /\ \A a \in Address : start =< a /\ a < request.after.back =>
                               request.after.slots[a] # Raw
         /\ \A a \in Address : a < start \/ a >= request.after.back =>
                               request.after.slots[a] = Raw
<1>1. Indices(before) /\ Indices(request.after) /\ Good(request.after)
  BY GoodIndices DEF Plan
<1>2. /\ front \in Nat /\ behind \in Nat /\ request.xs \in Seq(Object)
      /\ request.after.back = start + front + news + behind
      /\ before.front + front + behind =< before.back
  BY DEF Plan, front, behind, news, start
<1>3. news \in Nat /\ start \in Nat
  BY <1>1, <1>2 DEF news, start, Indices
<1>4. request.after.slots \in Memory /\ before.slots \in Memory
      /\ LiveIn(request.after.slots, start, request.after.back)
  BY <1>1, GoodFacts DEF start
<1>5. ASSUME NEW a \in Address, a < start \/ a >= request.after.back
      PROVE  request.after.slots[a] = Raw
  <2> DEFINE lo == before.front
             hi == before.front + front + behind
  <2>1. \A i \in Address : i < start \/ i >= start + (hi - lo) + news =>
                          request.after.slots[i] = Raw
    BY DEF Plan, Laid, start, front, behind, news
  <2>2. start + (hi - lo) + news = request.after.back
    BY <1>1, <1>2, <1>3 DEF Indices
  <2> HIDE DEF lo, hi
  <2> QED
    BY <1>5, <2>1, <2>2
<1>6. MaxSize \in Nat /\ request.after.back =< MaxSize /\ before.back =< MaxSize
      /\ before.front \in Nat /\ before.back \in Nat /\ request.after.back \in Nat
  BY <1>1 DEF Indices
<1> QED
  BY <1>2, <1>3, <1>4, <1>5, <1>6 DEF LiveIn

\* The call begins.
LEMMA CallInitGood ==
  ASSUME MaxNew \in Nat, CallInit
  PROVE  CallInv
<1>1. /\ self \in DevectorType /\ InvariantsOk(self) /\ BufferMatches(self) /\ LiveExactly(self)
      /\ request \in Requests(self) /\ before = self /\ pc = "allocate" /\ new = NoObjects
      /\ heap = InHeap(self, "old") /\ second = NewGuard(0) /\ first = NewGuard(0)
  BY DEF CallInit
<1>2. Good(self)
  BY <1>1 DEF Good, LiveExactly, Held
<1>3. Plan(before, request) /\ Good(before)
  BY <1>1, <1>2, RequestPlan
<1>4. Guarding(first) /\ Guarding(second) /\ Spent(first) /\ Spent(second)
  BY <1>1 DEF NewGuard, Guarding, Spent
<1>5. NewHolds
  <2>1. \A a \in Address : a \notin Guarded(first) /\ a \notin Guarded(second)
    BY <1>1, SizesAssumption DEF NewGuard, Guarded, Address
  <2> QED
    BY <1>1, <2>1, NoObjectsRaw DEF NewHolds
<1>6. OldMembers
  BY <1>1 DEF OldMembers, DevectorType, Memory
<1> QED
  BY <1>1, <1>3, <1>4, <1>5, <1>6 DEF CallInv

\* The buffer is there, and nothing is in it.
LEMMA AllocateGood ==
  ASSUME CallInv, Allocate
  PROVE  CallInv'
<1>1. /\ pc = "allocate" /\ pc' = "construct"
      /\ heap' = heap \cup InHeap(request.after, "new")
      /\ second' = NewGuard(NewFront + FirstHalf) /\ first' = NewGuard(NewFront)
      /\ UNCHANGED <<self, request, before, new>>
  BY DEF Allocate
<1>2. /\ Good(before) /\ Plan(before, request) /\ NewHolds /\ OldMembers /\ self = before
      /\ heap = InHeap(before, "old") /\ Spent(first) /\ Spent(second)
      /\ Guarding(first) /\ Guarding(second)
  BY <1>1 DEF CallInv
<1>3. /\ Good(before)' /\ Plan(before, request)'
      /\ start' = start /\ front' = front /\ news' = news /\ behind' = behind
      /\ InHeap(before, "old")' = InHeap(before, "old")
      /\ InHeap(request.after, "new")' = InHeap(request.after, "new")
  BY <1>1, <1>2, SamePlan
<1>4. /\ first' = [at |-> start, count |-> 0]
      /\ second' = [at |-> start + front, count |-> 0]
  BY <1>1 DEF NewGuard, NewFront, FirstHalf, start, front, InFront
<1>5. /\ start \in Nat /\ front \in Nat /\ news \in Nat /\ behind \in Nat
      /\ request.after.back = start + front + news + behind
  BY <1>2, PlanFacts
<1>6. Guarding(first)' /\ Guarding(second)'
  BY <1>4, <1>5 DEF Guarding
<1>7. NewHolds'
  <2>1. ASSUME NEW a \in Address
        PROVE  /\ a \notin Guarded(first) /\ a \notin Guarded(second)
               /\ a \notin Guarded(first') /\ a \notin Guarded(second')
    <3>1. a \in Int
      BY SizesAssumption DEF Address
    <3>2. Guarded(first) = {} /\ Guarded(second) = {}
      BY <1>2 DEF Guarding, Guarded, Spent
    <3>3. Guarded(first') = {} /\ Guarded(second') = {}
      BY <1>4, <1>5 DEF Guarded
    <3> QED
      BY <3>2, <3>3
  <2> QED
    BY <1>1, <1>2, <2>1 DEF NewHolds, Guarded
<1>8. OldMembers'
  BY <1>1, <1>2 DEF OldMembers
<1>9. GuardsApart' /\ Progress'
  BY <1>1, <1>3, <1>4, <1>5 DEF GuardsApart, Progress, start
<1>10. heap' = Both'
  BY <1>1, <1>2, <1>3 DEF Both
<1>11. OldKept'
  BY <1>1, <1>2 DEF OldKept
<1> QED
  BY <1>1, <1>3, <1>6, <1>7, <1>8, <1>9, <1>10, <1>11 DEF CallInv

\* The allocation throws: nothing was changed.
LEMMA AllocateThrowsGood ==
  ASSUME CallInv, AllocateThrows
  PROVE  CallInv'
<1>1. /\ pc = "allocate" /\ pc' = "threw"
      /\ UNCHANGED <<self, request, before, new, heap, second, first>>
  BY DEF AllocateThrows
<1>2. Good(before) /\ Plan(before, request)
  BY DEF CallInv
<1>3. /\ Good(before)' /\ Plan(before, request)'
      /\ InHeap(before, "old")' = InHeap(before, "old")
  BY <1>1, <1>2, SamePlan
<1>4. /\ (Guarding(first) /\ Guarding(second))' /\ NewHolds' /\ OldMembers'
      /\ self' = before' /\ heap' = InHeap(before, "old") /\ (Spent(first) /\ Spent(second))'
  BY <1>1 DEF CallInv, Guarding, NewHolds, OldMembers, Spent, Guarded
<1> QED
  BY <1>1, <1>3, <1>4 DEF CallInv

\* One more object is constructed, in a slot that is guarded from then on.
LEMMA OneMoreHeld ==
  ASSUME NewHolds, UNCHANGED request, request.after.slots \in Memory,
         NEW p \in Address, new' = Put(new, p, <<request.after.slots[p]>>),
         \A a \in Address : a \in Guarded(first') \/ a \in Guarded(second') <=>
                             a \in Guarded(first) \/ a \in Guarded(second) \/ a = p
  PROVE  NewHolds'
<1> DEFINE x == request.after.slots[p]
<1>1. x \in Slot /\ \A a \in Address : a \in Int
  BY SizesAssumption DEF Memory, Address
<1> HIDE DEF x
<1>2. \A a \in Address : (p =< a /\ a < p + Len(<<x>>)) <=> a = p
  BY <1>1
<1>3. \A a \in Address : a = p => <<x>>[a - p + 1] = x
  BY <1>1
<1>4. new' = [a \in Address |-> IF a = p THEN x ELSE new[a]]
  <2>1. new' = [a \in Address |-> IF p =< a /\ a < p + Len(<<x>>)
                                  THEN <<x>>[a - p + 1] ELSE new[a]]
    BY DEF Put, x
  <2>2. ASSUME NEW a \in Address
        PROVE  (IF p =< a /\ a < p + Len(<<x>>) THEN <<x>>[a - p + 1] ELSE new[a])
                 = IF a = p THEN x ELSE new[a]
    BY <1>2, <1>3
  <2> QED
    BY <2>1, <2>2
<1>5. new' \in Memory
  BY <1>1, <1>4 DEF NewHolds, Memory
<1>6. ASSUME NEW a \in Address
      PROVE  new'[a] = IF a \in Guarded(first') \/ a \in Guarded(second')
                       THEN request.after.slots[a] ELSE Raw
  BY <1>4 DEF NewHolds, x
<1> QED
  BY <1>5, <1>6 DEF NewHolds, Guarded

\* An old element is moved or copied: at most its slot changes.
LEMMA OneMoved ==
  ASSUME OldMembers, Good(before), UNCHANGED before, NEW p \in Address, self' = MovedFrom(p)
  PROVE  /\ OldMembers' /\ self'.front = self.front /\ self'.back = self.back
         /\ \A a \in Address : ShiftMayThrow \/ a # p => self'.slots[a] = self.slots[a]
<1>1. self \in DevectorType
  <2>1. before \in DevectorType
    BY DEF Good
  <2> QED
    BY <2>1 DEF OldMembers, DevectorType, Memory
<1>2. CASE ShiftMayThrow
  <2>1. self' = self
    BY <1>2 DEF MovedFrom
  <2> QED
    BY <2>1 DEF OldMembers
<1>3. CASE ~ShiftMayThrow
  <2> DEFINE m == Put(self.slots, p, <<Unspec>>)
  <2>1. self' = [self EXCEPT !.slots = m]
    BY <1>3 DEF MovedFrom
  <2>2. self.slots \in Memory /\ p \in Int /\ <<Unspec>> \in Seq(Object)
    BY SizesAssumption DEF OldMembers, Address, Object
  <2>3. m \in Memory
    BY <2>2, PutObjects
  <2>4. ASSUME NEW a \in Address, a # p PROVE m[a] = self.slots[a]
    <3>1. a \in Int /\ ~(p =< a /\ a < p + Len(<<Unspec>>))
      BY <2>2, <2>4, SizesAssumption DEF Address
    <3> QED
      BY <3>1 DEF Put
  <2> HIDE DEF m
  <2>5. self'.slots = m /\ self'.front = self.front /\ self'.back = self.back
    BY <1>1, <2>1 DEF DevectorType
  <2>6. self' = [before EXCEPT !.slots = m]
    BY <2>1 DEF OldMembers
  <2> QED
    BY <1>3, <2>3, <2>4, <2>5, <2>6 DEF OldMembers
<1> QED
  BY <1>2, <1>3

\* The indices of the old object, and how many elements move, are those of the plan.
LEMMA SameIndices ==
  ASSUME Good(before), OldMembers
  PROVE  /\ self \in DevectorType /\ self.front = before.front /\ self.back = before.back
         /\ self.cap = before.cap /\ self.buf = before.buf
         /\ FirstHalf = front /\ SecondHalf = behind
<1>1. before \in DevectorType
  BY DEF Good
<1>2. /\ self \in DevectorType /\ self.front = before.front /\ self.back = before.back
      /\ self.cap = before.cap /\ self.buf = before.buf
  BY <1>1 DEF OldMembers, DevectorType, Memory
<1>3. FirstHalf = front /\ SecondHalf = behind
  BY <1>2 DEF FirstHalf, SecondHalf, front, behind, InFront, Behind, SizeOf
<1> QED
  BY <1>2, <1>3

\* Where a slot of each of the three parts is filled from
LEMMA PlanParts ==
  ASSUME Good(before), Plan(before, request)
  PROVE  /\ \A i \in 0 .. front - 1 :
              /\ start + i \in Address /\ before.front + i \in Address
              /\ request.after.slots[start + i] = before.slots[before.front + i]
         /\ \A i \in 0 .. news - 1 :
              /\ start + front + i \in Address
              /\ request.after.slots[start + front + i] = request.xs[i + 1]
         /\ \A i \in 0 .. behind - 1 :
              /\ start + front + (news + i) \in Address
              /\ before.front + front + i \in Address
              /\ request.after.slots[start + front + (news + i)]
                   = before.slots[before.front + front + i]
<1> DEFINE lo  == before.front
           mid == before.front + front
           hi  == before.front + front + behind
<1>1. /\ start \in Nat /\ front \in Nat /\ news \in Nat /\ behind \in Nat /\ lo \in Nat
      /\ request.after.back = start + front + news + behind
      /\ lo + front + behind =< before.back /\ before.back \in Nat
      /\ MaxSize \in Nat /\ request.after.back =< MaxSize /\ before.back =< MaxSize
  BY PlanFacts
<1>2. Laid(request.after.slots, start, before.slots, lo, mid, hi, request.xs)
  BY DEF Plan, start, front, behind
<1>3. mid - lo = front /\ hi - mid = behind /\ Len(request.xs) = news
  BY <1>1 DEF news
<1>4. /\ \A i \in 0 .. front - 1 : request.after.slots[start + i] = before.slots[lo + i]
      /\ \A i \in 0 .. news - 1 :
           request.after.slots[start + front + i] = request.xs[i + 1]
      /\ \A i \in 0 .. behind - 1 :
           request.after.slots[start + front + news + i] = before.slots[mid + i]
  <2> HIDE DEF lo, mid, hi
  <2> QED
    BY <1>2, <1>3 DEF Laid
<1>5. ASSUME NEW i \in 0 .. front - 1
      PROVE  start + i \in Address /\ lo + i \in Address
  BY <1>1 DEF Address
<1>6. ASSUME NEW i \in 0 .. news - 1
      PROVE  start + front + i \in Address
  BY <1>1 DEF Address
<1>7. ASSUME NEW i \in 0 .. behind - 1
      PROVE  /\ start + front + news + i = start + front + (news + i)
             /\ start + front + (news + i) \in Address /\ mid + i \in Address
  BY <1>1 DEF Address
<1> QED
  BY <1>4, <1>5, <1>6, <1>7

\* While elements are constructed, in numbers
LEMMA ConstructFacts ==
  ASSUME CallInv, pc = "construct"
  PROVE  /\ {start, front, news, behind, before.front, before.back, first.count,
             second.count} \subseteq Nat
         /\ first.at = start /\ second.at = start + front
         /\ first.count =< front /\ second.count =< news + behind
         /\ second.count < news => first.count = 0
         /\ second.count > news => first.count = front
         /\ request.after.back = start + front + news + behind
         /\ Good(before) /\ Plan(before, request)
         /\ request.after.slots \in Memory /\ heap = Both
         /\ NewHolds /\ OldMembers /\ OldKept
         /\ self.front = before.front
         /\ FirstHalf = front /\ SecondHalf = behind
         /\ MovedSecond = second.count - news
         /\ first = [at |-> start, count |-> first.count]
         /\ second = [at |-> start + front, count |-> second.count]
<1>1. /\ Good(before) /\ Plan(before, request) /\ Progress /\ Guarding(first)
      /\ Guarding(second) /\ heap = Both /\ NewHolds /\ OldMembers /\ OldKept
  BY DEF CallInv
<1>2. MovedSecond = second.count - news
  BY DEF MovedSecond, news
<1> QED
  BY <1>1, <1>2, PlanFacts, SameIndices DEF Progress, Guarding

\* What follows from the facts that a step of the construction keeps up
LEMMA StillConstructing ==
  ASSUME CallInv, pc = "construct", pc' = "construct",
         UNCHANGED <<request, before, heap>>,
         NEW i \in Nat, NEW j \in Nat, i =< front, j =< news + behind,
         first' = [at |-> start, count |-> i],
         second' = [at |-> start + front, count |-> j],
         j < news => i = 0, j > news => i = front,
         NewHolds', OldMembers', OldKept'
  PROVE  CallInv'
<1>1. /\ {start, front, news, behind} \subseteq Nat /\ heap = Both
      /\ Good(before) /\ Plan(before, request)
      /\ request.after.back = start + front + news + behind
  BY ConstructFacts
<1>2. /\ Good(before)' /\ Plan(before, request)'
      /\ start' = start /\ front' = front /\ news' = news /\ behind' = behind
      /\ InHeap(before, "old")' = InHeap(before, "old")
      /\ InHeap(request.after, "new")' = InHeap(request.after, "new")
  BY <1>1, SamePlan
<1>3. Guarding(first)' /\ Guarding(second)'
  BY <1>1 DEF Guarding
<1>4. GuardsApart'
  BY <1>1, <1>2 DEF GuardsApart
<1>5. Progress'
  BY <1>1, <1>2 DEF Progress
<1>6. heap' = Both'
  BY <1>1, <1>2 DEF Both
<1> QED
  BY <1>2, <1>3, <1>4, <1>5, <1>6 DEF CallInv

\* A new element
LEMMA ConstructNewGood ==
  ASSUME CallInv, ConstructNew
  PROVE  CallInv'
<1> DEFINE j == second.count
           p == start + front + j
<1>1. /\ pc = "construct" /\ pc' = "construct" /\ j < news
      /\ new' = Put(new, second.at + j, <<request.xs[j + 1]>>)
      /\ second' = Extend(second) /\ UNCHANGED <<self, request, before, heap, first>>
  BY DEF ConstructNew, news
<1>2. /\ {start, front, news, behind, j} \subseteq Nat
      /\ first.count = 0 /\ second.at = start + front
      /\ Good(before) /\ Plan(before, request) /\ request.after.slots \in Memory
      /\ NewHolds /\ OldMembers /\ OldKept
      /\ first = [at |-> start, count |-> 0]
      /\ second = [at |-> start + front, count |-> j]
  BY <1>1, ConstructFacts
<1>3. p \in Address /\ request.after.slots[p] = request.xs[j + 1]
  BY <1>1, <1>2, PlanParts
<1>4. second' = [at |-> start + front, count |-> j + 1] /\ first' = first
  BY <1>1, <1>2 DEF Extend
<1> HIDE DEF j
<1>5. \A a \in Address : a \in Guarded(first') \/ a \in Guarded(second') <=>
                         a \in Guarded(first) \/ a \in Guarded(second) \/ a = p
  BY <1>2, <1>4, SizesAssumption DEF Guarded, Address
<1>6. NewHolds'
  BY <1>1, <1>2, <1>3, <1>5, OneMoreHeld
<1>7. OldMembers'
  BY <1>1, <1>2 DEF OldMembers
<1>8. OldKept'
  <2>1. ASSUME NEW a \in Address PROVE (Gone(a) \/ self.slots[a] = before.slots[a])'
    <3>1. Gone(a) => Gone(a)'
      <4>1. front' = front /\ news' = news
        BY <1>1 DEF front, news, InFront
      <4>2. /\ a \in Int /\ self' = self /\ first' = first /\ second'.count = j + 1
            /\ second.count = j /\ self.front \in Int
        BY <1>1, <1>2, <1>4, SizesAssumption, SameIndices, PlanFacts DEF Address
      <4> QED
        BY <1>2, <4>1, <4>2 DEF Gone
    <3>2. Gone(a) \/ self.slots[a] = before.slots[a]
      BY <1>2 DEF OldKept
    <3> QED
      BY <1>1, <3>1, <3>2
  <2> QED
    BY <2>1 DEF OldKept
<1>9. 0 \in Nat /\ j + 1 \in Nat /\ 0 =< front /\ j + 1 =< news + behind
      /\ ~(j + 1 > news)
  BY <1>1, <1>2
<1> QED
  BY <1>1, <1>2, <1>4, <1>6, <1>7, <1>8, <1>9, StillConstructing

\* An element in front of the new ones
LEMMA MoveFirstGood ==
  ASSUME CallInv, MoveFirst
  PROVE  CallInv'
<1> DEFINE i == first.count
           a0 == before.front + i
           p == start + i
<1>1. /\ {start, front, news, behind, i, before.front} \subseteq Nat
      /\ first.at = start
      /\ Good(before) /\ Plan(before, request) /\ request.after.slots \in Memory
      /\ NewHolds /\ OldMembers /\ OldKept /\ self.front = before.front
      /\ first = [at |-> start, count |-> i] /\ FirstHalf = front
      /\ second = [at |-> start + front, count |-> second.count]
  BY ConstructFacts DEF MoveFirst
<1>2. /\ pc = "construct" /\ pc' = "construct" /\ second.count = news /\ i < front
      /\ new' = Put(new, start + i, <<self.slots[a0]>>) /\ self' = MovedFrom(a0)
      /\ first' = Extend(first) /\ UNCHANGED <<request, before, heap, second>>
  BY <1>1 DEF MoveFirst, news
<1>3. /\ p \in Address /\ a0 \in Address /\ p = start + i
      /\ request.after.slots[p] = before.slots[a0]
  BY <1>1, <1>2, PlanParts
<1>4. /\ first' = [at |-> start, count |-> i + 1] /\ second' = second
      /\ second = [at |-> start + front, count |-> news]
  BY <1>1, <1>2 DEF Extend
<1> HIDE DEF i
<1>5. self.slots[a0] = before.slots[a0]
  <2>1. ~Gone(a0)
    BY <1>1, <1>2 DEF Gone, i
  <2> QED
    BY <1>1, <1>3, <2>1 DEF OldKept
<1>6. \A a \in Address : a \in Guarded(first') \/ a \in Guarded(second') <=>
                         a \in Guarded(first) \/ a \in Guarded(second) \/ a = p
  BY <1>1, <1>4, SizesAssumption DEF Guarded, Address
<1>7. NewHolds'
  BY <1>1, <1>2, <1>3, <1>5, <1>6, OneMoreHeld
<1>8. /\ OldMembers' /\ self'.front = self.front
      /\ \A a \in Address : ShiftMayThrow \/ a # a0 => self'.slots[a] = self.slots[a]
  BY <1>1, <1>2, <1>3, OneMoved
<1>9. OldKept'
  <2>1. ASSUME NEW a \in Address, ~Gone(a)' PROVE self'.slots[a] = before'.slots[a]
    <3>1. front' = front /\ news' = news /\ a \in Int
      BY <1>2, SizesAssumption DEF front, news, InFront, Address
    <3>2. first'.count = i + 1 /\ second'.count = news /\ first.count = i
      BY <1>4 DEF i
    <3>3. ShiftMayThrow \/ (~(self.front =< a /\ a < self.front + (i + 1))
                            /\ ~(self.front + front =< a /\ a < self.front + front + (news - news)))
      BY <1>8, <2>1, <3>1, <3>2 DEF Gone
    <3>4. ShiftMayThrow \/ a # a0
      BY <1>1, <3>1, <3>3
    <3>5. ~Gone(a)
      <4>1. second.count = news
        BY <1>2
      <4> QED
        BY <1>1, <3>1, <3>2, <3>3, <4>1 DEF Gone
    <3> QED
      BY <1>1, <1>2, <1>8, <3>4, <3>5 DEF OldKept
  <2> QED
    BY <2>1 DEF OldKept
<1>10. /\ i + 1 \in Nat /\ i + 1 =< front /\ news =< news + behind
       /\ ~(news < news) /\ ~(news > news)
  BY <1>1, <1>2
<1> QED
  BY <1>1, <1>2, <1>4, <1>7, <1>8, <1>9, <1>10, StillConstructing

\* An element behind the new ones
LEMMA MoveSecondGood ==
  ASSUME CallInv, MoveSecond
  PROVE  CallInv'
<1> DEFINE k == second.count - news
           a0 == before.front + front + k
           p == start + front + (news + k)
<1>1. /\ {start, front, news, behind, first.count, second.count, before.front} \subseteq Nat
      /\ second.at = start + front
      /\ Good(before) /\ Plan(before, request) /\ request.after.slots \in Memory
      /\ NewHolds /\ OldMembers /\ OldKept /\ self.front = before.front
      /\ first = [at |-> start, count |-> first.count] /\ FirstHalf = front
      /\ SecondHalf = behind /\ MovedSecond = k
      /\ second = [at |-> start + front, count |-> second.count]
  BY ConstructFacts DEF MoveSecond
<1>2. /\ pc = "construct" /\ pc' = "construct"
      /\ second.count >= news /\ first.count = front /\ k < behind
      /\ new' = Put(new, start + front + second.count, <<self.slots[a0]>>)
      /\ self' = MovedFrom(a0)
      /\ second' = Extend(second) /\ UNCHANGED <<request, before, heap, first>>
  BY <1>1 DEF MoveSecond, news
<1>3. k \in 0 .. behind - 1 /\ k \in Nat /\ second.count = news + k
  BY <1>1, <1>2
<1>4. /\ p \in Address /\ a0 \in Address
      /\ request.after.slots[p] = before.slots[a0]
      /\ p = start + front + second.count
  BY <1>1, <1>3, PlanParts
<1>5. /\ second' = [at |-> start + front, count |-> second.count + 1] /\ first' = first
      /\ first = [at |-> start, count |-> front]
  BY <1>1, <1>2 DEF Extend
<1> DEFINE j == second.count
<1>6. self.slots[a0] = before.slots[a0]
  <2>1. ~Gone(a0)
    BY <1>1, <1>2, <1>3 DEF Gone
  <2> QED
    BY <1>1, <1>4, <2>1 DEF OldKept
<1> HIDE DEF k, j
<1>7. \A a \in Address : a \in Guarded(first') \/ a \in Guarded(second') <=>
                         a \in Guarded(first) \/ a \in Guarded(second) \/ a = p
  <2>1. second = [at |-> start + front, count |-> j] /\ j \in Nat
        /\ second' = [at |-> start + front, count |-> j + 1] /\ p = start + front + j
    BY <1>1, <1>4, <1>5 DEF j
  <2> HIDE DEF p
  <2> QED
    BY <1>1, <1>5, <2>1, SizesAssumption DEF Guarded, Address
<1>8. NewHolds'
  BY <1>1, <1>2, <1>4, <1>6, <1>7, OneMoreHeld
<1>9. /\ OldMembers' /\ self'.front = self.front
      /\ \A a \in Address : ShiftMayThrow \/ a # a0 => self'.slots[a] = self.slots[a]
  BY <1>1, <1>2, <1>4, OneMoved
<1>10. OldKept'
  <2>1. ASSUME NEW a \in Address, ~Gone(a)' PROVE self'.slots[a] = before'.slots[a]
    <3>1. front' = front /\ news' = news /\ a \in Int
      BY <1>2, SizesAssumption DEF front, news, InFront, Address
    <3>2. /\ first'.count = front /\ first.count = front /\ j \in Nat
          /\ second'.count = j + 1 /\ second.count = j /\ j - news = k
      BY <1>1, <1>2, <1>5 DEF j, k
    <3>3. ShiftMayThrow \/ (~(self.front =< a /\ a < self.front + front)
                            /\ ~(self.front + front =< a
                                 /\ a < self.front + front + ((j + 1) - news)))
      BY <1>9, <2>1, <3>1, <3>2 DEF Gone
    <3>4. ShiftMayThrow \/ a # a0
      BY <1>1, <1>3, <3>1, <3>2, <3>3
    <3>5. ~Gone(a)
      BY <1>1, <3>1, <3>2, <3>3 DEF Gone
    <3> QED
      BY <1>1, <1>2, <1>9, <3>4, <3>5 DEF OldKept
  <2> QED
    BY <2>1 DEF OldKept
<1>11. /\ j \in Nat /\ j + 1 \in Nat /\ j + 1 =< news + behind /\ front =< front
       /\ ~(j + 1 < news) /\ front \in Nat
  BY <1>1, <1>2, <1>3 DEF j, k
<1>12. second' = [at |-> start + front, count |-> j + 1]
  BY <1>5 DEF j
<1> QED
  BY <1>1, <1>2, <1>5, <1>8, <1>9, <1>10, <1>11, <1>12, StillConstructing

\* A constructor throws: so far no element was moved from.
LEMMA ConstructionThrowsGood ==
  ASSUME CallInv, ConstructionThrows
  PROVE  CallInv'
<1>1. /\ pc = "construct" /\ pc' = "unwind"
      /\ second.count < news \/ ShiftMayThrow
      /\ UNCHANGED <<self, request, before, new, heap, second, first>>
  BY DEF ConstructionThrows, news
<1>2. /\ {start, front, news, behind, second.count} \subseteq Nat
      /\ second.count < news => first.count = 0
      /\ Good(before) /\ Plan(before, request) /\ OldMembers /\ OldKept
      /\ self.front = before.front /\ self.front \in Nat
  BY <1>1, ConstructFacts
<1>3. self = before
  <2>1. ASSUME NEW a \in Address PROVE ~Gone(a)
    BY <1>1, <1>2, SizesAssumption DEF Gone, Address
  <2>2. before.slots \in Memory /\ self.slots \in Memory
        /\ \A a \in Address : self.slots[a] = before.slots[a]
    BY <1>2, <2>1, PlanFacts DEF OldKept, OldMembers
  <2>3. self.slots = before.slots
    BY <2>2 DEF Memory
  <2>4. before = [before EXCEPT !.slots = before.slots]
    BY <1>2 DEF Good, DevectorType
  <2> QED
    BY <1>2, <2>3, <2>4 DEF OldMembers
<1>4. /\ Good(before)' /\ Plan(before, request)' /\ start' = start
      /\ InHeap(before, "old")' = InHeap(before, "old")
      /\ InHeap(request.after, "new")' = InHeap(request.after, "new")
  BY <1>1, <1>2, SamePlan
<1>5. /\ (Guarding(first) /\ Guarding(second))' /\ NewHolds' /\ OldMembers'
      /\ GuardsApart' /\ heap' = Both'
  BY <1>1, <1>4 DEF CallInv, Guarding, NewHolds, OldMembers, Guarded, GuardsApart, Both
<1> QED
  BY <1>1, <1>3, <1>4, <1>5 DEF CallInv

\* The new buffer is complete.
LEMMA AllConstructedGood ==
  ASSUME CallInv, AllConstructed
  PROVE  CallInv'
<1>1. /\ {start, front, news, behind} \subseteq Nat
      /\ Good(before) /\ Plan(before, request)
      /\ FirstHalf = front /\ SecondHalf = behind
  BY ConstructFacts DEF AllConstructed
<1>2. /\ pc = "construct" /\ pc' = "cleanup"
      /\ second.count = news + behind /\ first.count = front
      /\ UNCHANGED <<self, request, before, new, heap, second, first>>
  BY <1>1 DEF AllConstructed, news
<1>3. /\ Good(before)' /\ Plan(before, request)'
      /\ start' = start /\ front' = front /\ news' = news /\ behind' = behind
      /\ InHeap(before, "old")' = InHeap(before, "old")
      /\ InHeap(request.after, "new")' = InHeap(request.after, "new")
  BY <1>1, <1>2, SamePlan
<1>4. /\ (Guarding(first) /\ Guarding(second))' /\ NewHolds' /\ OldMembers'
      /\ GuardsApart' /\ heap' = Both' /\ Progress'
  BY <1>2, <1>3
  DEF CallInv, Guarding, NewHolds, OldMembers, Guarded, GuardsApart, Both, Progress
<1> QED
  BY <1>2, <1>3, <1>4 DEF CallInv

\* One of the old elements is destroyed.
LEMMA DestroyOldGood ==
  ASSUME CallInv, DestroyOld
  PROVE  CallInv'
<1>1. PICK a \in self.front .. self.back - 1 : self' = [self EXCEPT !.slots = Destroy(@, a, a + 1)]
  BY DEF DestroyOld
<1>2. /\ pc = "cleanup" /\ pc' = pc
      /\ UNCHANGED <<request, before, new, heap, second, first>>
  BY DEF DestroyOld
<1>3. Good(before) /\ Plan(before, request) /\ OldMembers
  BY <1>2 DEF CallInv
<1>4. /\ Good(before)' /\ Plan(before, request)'
      /\ start' = start /\ front' = front /\ news' = news /\ behind' = behind
      /\ InHeap(before, "old")' = InHeap(before, "old")
      /\ InHeap(request.after, "new")' = InHeap(request.after, "new")
  BY <1>2, <1>3, SamePlan
<1>5. OldMembers'
  <2> DEFINE m == Destroy(self.slots, a, a + 1)
  <2>1. self \in DevectorType /\ self.slots \in Memory /\ a \in Int
    <3>1. self.front \in Int /\ self.back \in Int
      BY <1>3, SameIndices, SizesAssumption DEF DevectorType, Size
    <3> QED
      BY <1>3, <3>1, SameIndices DEF OldMembers
  <2>2. m \in Memory
    BY <2>1, DestroyObjects
  <2>3. self' = [self EXCEPT !.slots = m]
    BY <1>1
  <2> HIDE DEF m
  <2>4. self'.slots = m /\ self' = [before EXCEPT !.slots = m]
    BY <1>3, <2>1, <2>3 DEF OldMembers, DevectorType
  <2> QED
    BY <1>2, <2>2, <2>4 DEF OldMembers
<1>6. /\ (Guarding(first) /\ Guarding(second))' /\ NewHolds'
      /\ GuardsApart' /\ heap' = Both' /\ Progress'
      /\ first'.count = front' /\ second'.count = news' + behind'
  BY <1>2, <1>4
  DEF CallInv, Guarding, NewHolds, Guarded, GuardsApart, Both, Progress
<1> QED
  BY <1>2, <1>4, <1>5, <1>6 DEF CallInv

\* When all is constructed the new buffer is that of the object the call is to make.
LEMMA CompleteBuffer ==
  ASSUME CallInv, pc = "cleanup"
  PROVE  new = request.after.slots
<1>1. /\ {start, front, news, behind} \subseteq Nat
      /\ request.after.back = start + front + news + behind
      /\ request.after.slots \in Memory
      /\ \A a \in Address : a < start \/ a >= request.after.back =>
                            request.after.slots[a] = Raw
  BY PlanFacts DEF CallInv
<1>2. /\ NewHolds /\ first.at = start /\ first.count = front
      /\ second.at = start + front /\ second.count = news + behind
  BY DEF CallInv, Progress
<1>3. ASSUME NEW a \in Address PROVE new[a] = request.after.slots[a]
  <2>1. a \in Int
    BY SizesAssumption DEF Address
  <2>2. CASE a \in Guarded(first) \/ a \in Guarded(second)
    BY <1>2, <2>2 DEF NewHolds
  <2>3. CASE ~(a \in Guarded(first) \/ a \in Guarded(second))
    <3>1. a < start \/ a >= request.after.back
      BY <1>1, <1>2, <2>1, <2>3 DEF Guarded
    <3> QED
      BY <1>1, <1>2, <2>3, <3>1 DEF NewHolds
  <2> QED
    BY <2>2, <2>3
<1> QED
  BY <1>1, <1>2, <1>3 DEF NewHolds, Memory

\* The old buffer is freed, and the members are the new ones.
LEMMA RebindGood ==
  ASSUME CallInv, Rebind
  PROVE  /\ CallInv' /\ self' = request.after
<1>1. /\ pc = "cleanup" /\ pc' = "done"
      /\ heap' = heap \ (IF MustFree(self) THEN {"old"} ELSE {})
      /\ self' = [request.after EXCEPT !.slots = new]
      /\ second' = Release(second) /\ first' = Release(first)
      /\ UNCHANGED <<request, before, new>>
  BY DEF Rebind
<1>2. /\ Good(before) /\ Plan(before, request) /\ OldMembers /\ heap = Both
      /\ Guarding(first) /\ Guarding(second)
  BY <1>1 DEF CallInv
<1>3. /\ Good(before)' /\ Plan(before, request)'
      /\ InHeap(request.after, "new")' = InHeap(request.after, "new")
  BY <1>1, <1>2, SamePlan
<1>4. self' = request.after
  <2>1. new = request.after.slots /\ request.after \in DevectorType
    BY <1>1, <1>2, CompleteBuffer DEF Plan, Good
  <2> QED
    BY <1>1, <2>1 DEF DevectorType
<1>5. heap' = InHeap(request.after, "new")
  <2>1. self.cap = before.cap /\ self.buf = before.buf
    BY <1>2, SameIndices
  <2>2. MustFree(self) <=> MustFree(before)
    BY <2>1 DEF MustFree, IsSmall, HasBuffer
  <2>3. InHeap(before, "old") = IF MustFree(before) THEN {"old"} ELSE {}
    BY <1>2 DEF Good, BufferMatches, InHeap
  <2>4. InHeap(request.after, "new") \subseteq {"new"}
    BY DEF InHeap
  <2> QED
    BY <1>1, <1>2, <2>2, <2>3, <2>4 DEF Both
<1>6. Guarding(first)' /\ Guarding(second)'
  BY <1>1, <1>2 DEF Guarding, Release
<1> QED
  BY <1>1, <1>3, <1>4, <1>5, <1>6 DEF CallInv

\* A guard's destructor destroys the first object of the guard that is the younger.
LEMMA UnwindFirstGood ==
  ASSUME CallInv, UnwindFirst
  PROVE  CallInv'
<1> DEFINE p == first.at
           i == first.count
<1>1. /\ pc = "unwind" /\ pc' = pc /\ i # 0
      /\ new' = Destroy(new, p, p + 1) /\ first' = [at |-> p + 1, count |-> i - 1]
      /\ UNCHANGED <<self, request, before, heap, second>>
  BY DEF UnwindFirst, Spent, AfterOne
<1>2. /\ Good(before) /\ Plan(before, request) /\ NewHolds /\ OldMembers /\ self = before
      /\ p \in Nat /\ i \in Nat /\ Guarding(second) /\ start =< p /\ p + i =< second.at
      /\ second.at + second.count =< request.after.back /\ heap = Both
  BY <1>1 DEF CallInv, Guarding, GuardsApart
<1>3. /\ Good(before)' /\ Plan(before, request)' /\ start' = start
      /\ InHeap(before, "old")' = InHeap(before, "old")
      /\ InHeap(request.after, "new")' = InHeap(request.after, "new")
  BY <1>1, <1>2, SamePlan
<1>4. /\ {start, second.at, second.count} \subseteq Nat
      /\ first'.at = p + 1 /\ first'.count = i - 1 /\ i - 1 \in Nat /\ p + 1 \in Nat
      /\ start =< p + 1 /\ (p + 1) + (i - 1) = p + i
  BY <1>1, <1>2, PlanFacts, SMTT(30) DEF Guarding
<1>5. Guarding(first)' /\ Guarding(second)'
  BY <1>1, <1>2, <1>4 DEF Guarding
<1>6. GuardsApart'
  BY <1>1, <1>2, <1>3, <1>4 DEF GuardsApart
<1>7. NewHolds'
  <2>1. new \in Memory /\ new' \in Memory
    BY <1>1, <1>2, DestroyObjects DEF NewHolds
  <2>2. ASSUME NEW a \in Address
        PROVE  new'[a] = IF a \in Guarded(first') \/ a \in Guarded(second)
                         THEN request.after.slots[a] ELSE Raw
    <3>1. a \in Int
      BY SizesAssumption DEF Address
    <3>2. new'[a] = IF p =< a /\ a < p + 1 THEN Raw ELSE new[a]
      BY <1>1 DEF Destroy
    <3>3. /\ Guarded(first) = p .. p + (i - 1)
          /\ Guarded(first') = p + 1 .. (p + 1) + ((i - 1) - 1)
      BY <1>4 DEF Guarded
    <3>4. /\ a \in Guarded(first) <=> p =< a /\ a < p + i
          /\ a \in Guarded(first') <=> p + 1 =< a /\ a < p + i
          /\ a \in Guarded(second) => second.at =< a
      <4> HIDE DEF p, i
      <4>1. a \in Guarded(second) => second.at =< a
        BY DEF Guarded
      <4> QED
        BY <1>2, <3>1, <3>3, <4>1
    <3>5. CASE a = p
      <4>1. a \notin Guarded(first') /\ a \notin Guarded(second)
        BY <1>1, <1>2, <1>4, <3>1, <3>4, <3>5
      <4> QED
        BY <1>2, <3>2, <3>5, <4>1
    <3>6. CASE a # p
      <4>1. a \in Guarded(first) <=> a \in Guarded(first')
        BY <1>2, <3>1, <3>4, <3>6
      <4>2. new'[a] = new[a]
        BY <1>2, <3>1, <3>2, <3>6
      <4> QED
        BY <1>2, <4>1, <4>2 DEF NewHolds
    <3> QED
      BY <3>5, <3>6
  <2> QED
    BY <1>1, <2>1, <2>2 DEF NewHolds, Guarded
<1>8. OldMembers' /\ heap' = Both' /\ self' = before'
  BY <1>1, <1>2, <1>3 DEF OldMembers, Both
<1> QED
  BY <1>1, <1>3, <1>5, <1>6, <1>7, <1>8 DEF CallInv

\* Then that of the other guard.
LEMMA UnwindSecondGood ==
  ASSUME CallInv, UnwindSecond
  PROVE  CallInv'
<1> DEFINE p == second.at
           j == second.count
<1>1. /\ pc = "unwind" /\ pc' = pc /\ j # 0 /\ first.count = 0
      /\ new' = Destroy(new, p, p + 1) /\ second' = [at |-> p + 1, count |-> j - 1]
      /\ UNCHANGED <<self, request, before, heap, first>>
  BY DEF UnwindSecond, Spent, AfterOne
<1>2. /\ Good(before) /\ Plan(before, request) /\ NewHolds /\ OldMembers /\ self = before
      /\ p \in Nat /\ j \in Nat /\ first.at \in Nat /\ Guarding(first)
      /\ start =< first.at /\ first.at + first.count =< p
      /\ p + j =< request.after.back /\ heap = Both
  BY <1>1 DEF CallInv, Guarding, GuardsApart
<1>3. /\ Good(before)' /\ Plan(before, request)' /\ start' = start
      /\ InHeap(before, "old")' = InHeap(before, "old")
      /\ InHeap(request.after, "new")' = InHeap(request.after, "new")
  BY <1>1, <1>2, SamePlan
<1>4. /\ start \in Nat /\ second'.at = p + 1 /\ second'.count = j - 1
      /\ j - 1 \in Nat /\ p + 1 \in Nat /\ (p + 1) + (j - 1) = p + j
      /\ first.at + first.count =< p + 1
  <2>1. start \in Nat /\ second'.at = p + 1 /\ second'.count = j - 1
    BY <1>1, <1>2, PlanFacts
  <2>2. first.count \in Nat
    BY <1>2 DEF Guarding
  <2> HIDE DEF p, j
  <2>3. j - 1 \in Nat /\ p + 1 \in Nat /\ (p + 1) + (j - 1) = p + j
    BY <1>1, <1>2
  <2>4. first.at + first.count =< p + 1
    BY <1>2, <2>2
  <2> QED
    BY <2>1, <2>3, <2>4
<1>5. Guarding(first)' /\ Guarding(second)'
  BY <1>1, <1>2, <1>4 DEF Guarding
<1>6. GuardsApart'
  BY <1>1, <1>2, <1>3, <1>4 DEF GuardsApart
<1>7. NewHolds'
  <2>1. new \in Memory /\ new' \in Memory
    BY <1>1, <1>2, DestroyObjects DEF NewHolds
  <2>2. ASSUME NEW a \in Address
        PROVE  new'[a] = IF a \in Guarded(first) \/ a \in Guarded(second')
                         THEN request.after.slots[a] ELSE Raw
    <3>1. a \in Int
      BY SizesAssumption DEF Address
    <3>2. new'[a] = IF p =< a /\ a < p + 1 THEN Raw ELSE new[a]
      BY <1>1 DEF Destroy
    <3>3. /\ Guarded(second) = p .. p + (j - 1)
          /\ Guarded(second') = p + 1 .. (p + 1) + ((j - 1) - 1)
      BY <1>4 DEF Guarded
    <3>4. /\ a \in Guarded(second) <=> p =< a /\ a < p + j
          /\ a \in Guarded(second') <=> p + 1 =< a /\ a < p + j
      BY <1>2, <3>1, <3>3
    <3>5. a \notin Guarded(first)
      BY <1>1, <1>2, <3>1 DEF Guarded
    <3>6. CASE a = p
      BY <1>2, <3>2, <3>4, <3>5, <3>6
    <3>7. CASE a # p
      <4>1. a \in Guarded(second) <=> a \in Guarded(second')
        BY <1>2, <3>1, <3>4, <3>7
      <4>2. new'[a] = new[a]
        BY <1>2, <3>1, <3>2, <3>7
      <4> QED
        BY <1>2, <4>1, <4>2 DEF NewHolds
    <3> QED
      BY <3>6, <3>7
  <2> QED
    BY <1>1, <2>1, <2>2 DEF NewHolds, Guarded
<1>8. OldMembers' /\ heap' = Both' /\ self' = before'
  BY <1>1, <1>2, <1>3 DEF OldMembers, Both
<1> QED
  BY <1>1, <1>3, <1>5, <1>6, <1>7, <1>8 DEF CallInv

\* Last, the new buffer is freed: the object is as it was.
LEMMA UnwindAllocationGood ==
  ASSUME CallInv, UnwindAllocation
  PROVE  CallInv'
<1>1. /\ pc = "unwind" /\ pc' = "threw" /\ Spent(first) /\ Spent(second)
      /\ heap' = heap \ {"new"}
      /\ UNCHANGED <<self, request, before, new, second, first>>
  BY DEF UnwindAllocation
<1>2. Good(before) /\ Plan(before, request) /\ heap = Both
  BY <1>1 DEF CallInv
<1>3. /\ Good(before)' /\ Plan(before, request)'
      /\ InHeap(before, "old")' = InHeap(before, "old")
  BY <1>1, <1>2, SamePlan
<1>4. heap' = InHeap(before, "old")
  BY <1>1, <1>2 DEF Both, InHeap
<1>5. /\ (Guarding(first) /\ Guarding(second))' /\ NewHolds' /\ OldMembers'
      /\ self' = before' /\ (Spent(first) /\ Spent(second))'
  BY <1>1 DEF CallInv, Guarding, NewHolds, OldMembers, Spent, Guarded
<1> QED
  BY <1>1, <1>3, <1>4, <1>5 DEF CallInv

\* No step breaks the invariant.
LEMMA CallNextGood ==
  ASSUME CallInv, [Step]_stepVars
  PROVE  CallInv'
<1>1. CASE UNCHANGED stepVars
  <2>1. UNCHANGED <<self, request, before, pc, new, heap, second, first>>
    BY <1>1 DEF stepVars
  <2>2. /\ Good(before)' /\ Plan(before, request)'
        /\ start' = start /\ front' = front /\ news' = news /\ behind' = behind
        /\ InHeap(before, "old")' = InHeap(before, "old")
        /\ InHeap(request.after, "new")' = InHeap(request.after, "new")
    BY <2>1, SamePlan DEF CallInv
  <2>3. /\ NewHolds' = NewHolds /\ OldMembers' = OldMembers /\ OldKept' = OldKept
        /\ Progress' = Progress /\ GuardsApart' = GuardsApart /\ Both' = Both
        /\ Guarding(first)' = Guarding(first) /\ Guarding(second)' = Guarding(second)
        /\ Spent(first)' = Spent(first) /\ Spent(second)' = Spent(second)
    BY <2>1, <2>2 DEF NewHolds, OldMembers, OldKept, Progress, GuardsApart, Both, Guarding,
                      Spent, Guarded, Gone
  <2> QED
    BY <2>1, <2>2, <2>3 DEF CallInv
<1>2. CASE Step
  BY <1>2, AllocateGood, AllocateThrowsGood, ConstructNewGood, MoveFirstGood,
     MoveSecondGood, ConstructionThrowsGood, AllConstructedGood, DestroyOldGood,
     RebindGood, UnwindFirstGood, UnwindSecondGood, UnwindAllocationGood
  DEF Step
<1> QED
  BY <1>1, <1>2

LEMMA AlwaysInv ==
  ASSUME MaxNew \in Nat
  PROVE  CallSpec => []CallInv
<1>1. CallInit => CallInv
  BY CallInitGood
<1>2. CallInv /\ [Step]_stepVars => CallInv'
  BY CallNextGood
<1> QED
  BY <1>1, <1>2, PTL DEF CallSpec

-----------------------------------------------------------------------------
\* The promises

\* Until the members change, whatever throws finds each object of the new buffer guarded,
\* by one guard.
THEOREM EachObjectGuardedOnce ==
  ASSUME MaxNew \in Nat
  PROVE  CallSpec => []GuardsCover
<1>1. ASSUME CallInv PROVE GuardsCover
  <2>1. SUFFICES ASSUME pc # "done"
                 PROVE  /\ {a \in Address : new[a] # Raw} = Guarded(first) \cup Guarded(second)
                        /\ Guarded(first) \cap Guarded(second) = {}
    BY DEF GuardsCover
  <2>2. NewHolds /\ Guarding(first) /\ Guarding(second) /\ Good(before) /\ Plan(before, request)
    BY <1>1, <2>1 DEF CallInv
  <2>3. CASE pc \in {"allocate", "threw"}
    <3>1. Guarded(first) = {} /\ Guarded(second) = {}
      BY <1>1, <2>2, <2>3 DEF CallInv, Spent, Guarded, Guarding
    <3> QED
      BY <2>2, <3>1 DEF NewHolds
  <2>4. CASE pc \in {"construct", "cleanup", "unwind"}
    <3>1. GuardsApart
      BY <1>1, <2>4 DEF CallInv
    <3>2. /\ start \in Nat /\ request.after.back \in Nat /\ MaxSize \in Nat
          /\ request.after.back =< MaxSize
          /\ \A a \in Address : start =< a /\ a < request.after.back =>
                                request.after.slots[a] # Raw
      BY <2>2, PlanFacts
    <3>3. ASSUME NEW a \in Guarded(first) \cup Guarded(second)
          PROVE  a \in Address /\ request.after.slots[a] # Raw
      <4>1. a \in Int /\ start =< a /\ a < request.after.back
        BY <2>2, <3>1, <3>2, <3>3 DEF Guarded, Guarding, GuardsApart
      <4>2. a \in Address
        BY <3>2, <4>1 DEF Address
      <4> QED
        BY <3>2, <4>1, <4>2
    <3>4. Guarded(first) \cap Guarded(second) = {}
      BY <2>2, <3>1 DEF Guarded, Guarding, GuardsApart
    <3> QED
      BY <2>2, <3>3, <3>4 DEF NewHolds
  <2> QED
    BY <1>1, <2>1, <2>3, <2>4 DEF CallInv
<1> QED
  BY <1>1, AlwaysInv, PTL

\* When the call is over there is one buffer, the one in use: none is lost, and none is
\* freed twice.
THEOREM OneBufferInTheEnd ==
  ASSUME MaxNew \in Nat
  PROVE  CallSpec => []OneLeft
<1>1. ASSUME CallInv PROVE OneLeft
  BY <1>1 DEF CallInv, OneLeft
<1> QED
  BY <1>1, AlwaysInv, PTL

Promise == INSTANCE StrongCall WITH
             object <- Seen, wanted <- Wanted,
             outcome <- IF pc \in {"done", "threw"} THEN pc ELSE "running"

\* What a caller sees is one step of DevectorOps, or none at all if something throws.
THEOREM StrongExceptionGuarantee ==
  ASSUME MaxNew \in Nat
  PROVE  CallSpec => Promise!Init /\ [][Promise!Next]_Promise!callVars
<1>1. CallInit => Promise!Init
  BY DEF CallInit, Promise!Init
<1>2. ASSUME CallInv, [Step]_stepVars
      PROVE  [Promise!Next]_Promise!callVars
  <2>1. CASE UNCHANGED stepVars
    BY <2>1 DEF stepVars, Promise!callVars, Seen, Wanted
  <2>2. CASE AllocateThrows \/ UnwindAllocation
    <3>1. /\ pc \in {"allocate", "unwind"} /\ pc' = "threw"
          /\ UNCHANGED <<self, request, before>>
      BY <2>2 DEF AllocateThrows, UnwindAllocation
    <3>2. self = before
      BY <1>2, <3>1 DEF CallInv
    <3> QED
      BY <3>1, <3>2 DEF Promise!Next, Promise!Throw, Seen, Wanted
  <2>3. CASE Rebind
    <3>1. pc = "cleanup" /\ pc' = "done" /\ request' = request /\ self' = request.after
      BY <1>2, <2>3, RebindGood DEF Rebind
    <3> QED
      BY <3>1 DEF Promise!Next, Promise!Return, Seen, Wanted
  <2>4. CASE \/ Allocate \/ ConstructNew \/ MoveFirst \/ MoveSecond \/ ConstructionThrows
             \/ AllConstructed \/ DestroyOld \/ UnwindFirst \/ UnwindSecond
    <3>1. /\ pc \notin {"done", "threw"} /\ pc' \notin {"done", "threw"}
          /\ UNCHANGED <<request, before>>
      BY <2>4 DEF Allocate, ConstructNew, MoveFirst, MoveSecond, ConstructionThrows,
                  AllConstructed, DestroyOld, UnwindFirst, UnwindSecond
    <3> QED
      BY <3>1 DEF Promise!callVars, Seen, Wanted
  <2> QED
    BY <1>2, <2>1, <2>2, <2>3, <2>4 DEF Step
<1> QED
  BY <1>1, <1>2, AlwaysInv, PTL DEF CallSpec

=============================================================================
