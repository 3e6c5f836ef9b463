-------------------------- MODULE BatchDequeProofs --------------------------
(***************************************************************************)
(* BatchDeque and BatchDequeReserve, proved for every segment size, number *)
(* of segments and bound of the specification.  The inductive invariant is *)
(* Inv: the map, the iterators and the segments of dq fit together (Good), *)
(* and the latest call returned or threw.  Next has three lemmas for each  *)
(* call: ...Kept, for the invariant and for what the call leaves of the    *)
(* cells in front of the first element, which is what the reserve promise  *)
(* is about; ...Step, that the call is one of SequenceContract; ...Stay,   *)
(* that it leaves the elements at their addresses where it has to.         *)
(* Divides, a hypothesis of every theorem, says that a number of elements  *)
(* that wraps around does so at the end of a segment.                      *)
(***************************************************************************)
EXTENDS BatchDequeReserve, BatchDequeElementsProofs, SequenceTheorems

\* Every state reached by calls: the object is as the operations need it, and the
\* latest call returned or threw.
Inv ==
  /\ Good(dq, {}, dq.mem)
  /\ call.out \in {"ok", "threw"}

-----------------------------------------------------------------------------
\* Each call keeps the invariant

\* What a caller stores
LEMMA RangesAre ==
  ASSUME NEW n \in Nat, NEW xs \in Ranges(n)
  PROVE  xs \in Seq(Object) /\ Len(xs) \in Nat
<1>1. PICK m \in 0 .. n : xs \in [1 .. m -> Values]
  BY DEF Ranges
<1>2. m \in Nat /\ Values \subseteq Object
  BY DEF Object
<1> QED
  BY <1>1, <1>2

\* No other segment is in use, so that what they held does not matter.
LEMMA GoodAlone ==
  ASSUME NEW d, NEW m0, Good(d, {}, m0), NEW m1
  PROVE  Good(d, {}, m1)
  BY DEF Good

LEMMA InitGood ==
  ASSUME Divides, Init
  PROVE  Inv
<1>1. PICK xs \in Ranges(MaxLen) :
             \/ SegmentCount(Len(xs)) =< MaxSegments /\ dq = Constructed(xs)
             \/ \E index \in Indices :
                  /\ SegmentCount(index + Len(xs)) =< MaxSegments
                  /\ dq = Built(MaxSegments, index, xs)
  BY DEF Init
<1>2. xs \in Seq(Object) /\ MaxSegments \in Nat /\ MaxSegments =< MapMax
  BY BoundsAssumption, BatchAssumption, RangesAre
<1>3. Good(dq, {}, dq.mem)
  <2>1. CASE SegmentCount(Len(xs)) =< MaxSegments /\ dq = Constructed(xs)
    BY <1>2, <2>1, ConstructedGood
  <2>2. ASSUME NEW index \in Indices, SegmentCount(index + Len(xs)) =< MaxSegments,
               dq = Built(MaxSegments, index, xs)
        PROVE  Good(dq, {}, dq.mem)
    BY <1>2, <2>2, BuiltGood
  <2> QED
    BY <1>1, <2>1, <2>2
<1>4. call.out = "ok"
  BY DEF Init, Call
<1> QED
  BY <1>3, <1>4 DEF Inv

\* What a call leaves behind: one of the outcomes, and the record of the call.
LEMMA CallReads ==
  /\ \A op, n, xs, outcomes : Completes(op, n, xs, outcomes) =>
       /\ dq' \in outcomes /\ call'.op = op /\ call'.n = n /\ call'.xs = xs
       /\ call'.out = "ok"
  /\ \A op, at, n, xs, outcomes, ret : Returns(op, at, n, xs, outcomes, ret) =>
       /\ dq' \in outcomes /\ call'.op = op /\ call'.at = at /\ call'.n = n
       /\ call'.xs = xs /\ call'.out = "ok" /\ call'.ret = ret
  /\ \A op, at, n, xs, outcomes : Throws(op, at, n, xs, outcomes) =>
       /\ dq' \in outcomes /\ call'.op = op /\ call'.at = at /\ call'.n = n
       /\ call'.xs = xs /\ call'.out = "threw"
  BY DEF Completes, Returns, Throws, Call

\* What a call does to the cells in front, as far as it has to.
FrontSpared ==
  LET free == FreeInFront(dq)
      left == FreeInFront(dq')
  IN  /\ call'.op \in AtFront /\ call'.out = "ok" => FrontKept(dq, dq')
      /\ call'.op \in AtFront /\ call'.out = "threw" => left >= free
      /\ call'.op = "reserve_front" => left >= free
      /\ call'.op = "reserve_front" /\ call'.out = "ok" =>
           call'.n \in Nat /\ call'.n =< left + SizeOf(dq)
      /\ call'.op \in AtBack \cup {"reserve_back"} => left >= free

\* The calls whose name says nothing of the cells in front
LEMMA SparedElsewhere ==
  ASSUME call'.op \notin AtFront \cup AtBack \cup {"reserve_front", "reserve_back"}
  PROVE  FrontSpared
  BY DEF FrontSpared

\* Operations at the back leave the cells in front.
LEMMA SparedAtBack ==
  ASSUME call'.op \in AtBack \cup {"reserve_back"}, FreeInFront(dq') >= FreeInFront(dq)
  PROVE  FrontSpared
  BY DEF FrontSpared, AtBack, AtFront

LEMMA SparedAtFront ==
  ASSUME call'.op \in AtFront, call'.out = "ok" => FrontKept(dq, dq'),
         call'.out = "threw" => FreeInFront(dq') >= FreeInFront(dq)
  PROVE  FrontSpared
  BY DEF FrontSpared, AtBack, AtFront

LEMMA FrontKeptIf ==
  ASSUME NEW d, NEW e, Good(d, {}, d.mem), Good(e, {}, d.mem),
         FreeInFront(e) + SizeOf(e) >= FreeInFront(d) + SizeOf(d)
  PROVE  FrontKept(d, e)
  BY GoodNumbers DEF FrontKept

\* One call.
Kept == Good(dq', {}, dq.mem) /\ call'.out \in {"ok", "threw"} /\ FrontSpared

LEMMA EmplaceFrontKept ==
  ASSUME Divides, Inv, NEW x \in Values, EmplaceFrontCall(x)
  PROVE  Kept
<1>1. Good(dq, {}, dq.mem) /\ x \in Object
  BY DEF Inv, Object
<1>2. CASE EmplaceFrontOk(dq) /\ Completes("emplace_front", 1, <<x>>, {EmplaceFront(dq, x)})
  <2>1. dq' = EmplaceFront(dq, x) /\ call'.op = "emplace_front" /\ call'.out = "ok"
    BY <1>2 DEF Completes, Returns, Call
  <2>2. PushedFront(dq, dq', {}, dq.mem)
    BY <1>1, <1>2, <2>1, EmplaceFrontGood
  <2>3. Good(dq', {}, dq.mem) /\ Grown(dq, dq', 1, 0)
    BY <2>2 DEF PushedFront
  <2>4. FrontKept(dq, dq')
    <3>1. SizeOf(dq') = SizeOf(dq) + 1 + 0
      BY <1>1, <2>3, GrownSizeOf
    <3>2. SizeOf(dq) \in Nat /\ FreeInFront(dq) \in Nat /\ SegmentSize \in Nat
      BY <1>1, GoodNumbers, SegmentAssumption
    <3>3. FreeInFront(dq') >= FreeInFront(dq) - 1
      BY <2>2, <3>2, SegmentAssumption DEF PushedFront
    <3>4. FreeInFront(dq') \in Nat
      BY <2>3, GoodNumbers
    <3> QED
      BY <1>1, <2>3, <3>1, <3>2, <3>3, <3>4, FrontKeptIf
  <2>5. FrontSpared
    BY <2>1, <2>4, SparedAtFront DEF AtFront
  <2> QED
    BY <2>1, <2>3, <2>5 DEF Kept
<1>3. CASE Throws("emplace_front", 0, 1, <<x>>, EmplaceFrontThrew(dq))
  <2>1. /\ dq' \in EmplaceFrontThrew(dq) /\ call'.op = "emplace_front"
        /\ call'.out = "threw"
    BY <1>3, CallReads
  <2>2. Good(dq', {}, dq.mem) /\ FreeInFront(dq') = FreeInFront(dq)
    BY <1>1, <2>1, EmplaceFrontThrewGood
  <2>3. FrontSpared
    <3>1. FreeInFront(dq) \in Nat
      BY <1>1, GoodNumbers
    <3> QED
      BY <2>1, <2>2, <3>1, SparedAtFront DEF AtFront
  <2> QED
    BY <2>1, <2>2, <2>3 DEF Kept
<1> QED
  BY <1>2, <1>3 DEF EmplaceFrontCall

LEMMA EmplaceBackKept ==
  ASSUME Divides, Inv, NEW x \in Values, EmplaceBackCall(x)
  PROVE  Kept
<1>1. Good(dq, {}, dq.mem) /\ x \in Object /\ FreeInFront(dq) \in Nat
  BY GoodNumbers DEF Inv, Object
<1>2. CASE EmplaceBackOk(dq) /\ Completes("emplace_back", 1, <<x>>, {EmplaceBack(dq, x)})
  <2>1. dq' = EmplaceBack(dq, x) /\ call'.op = "emplace_back" /\ call'.out = "ok"
    BY <1>2, CallReads
  <2>2. PushedBack(dq, dq', {}, dq.mem)
    BY <1>1, <1>2, <2>1, EmplaceBackGood
  <2>3. Good(dq', {}, dq.mem) /\ FreeInFront(dq') = FreeInFront(dq)
    BY <2>2 DEF PushedBack
  <2>4. FrontSpared
    BY <1>1, <2>1, <2>3, SparedAtBack DEF AtBack
  <2> QED
    BY <2>1, <2>3, <2>4 DEF Kept
<1>3. CASE Throws("emplace_back", 0, 1, <<x>>, EmplaceBackThrew(dq))
  <2>1. dq' \in EmplaceBackThrew(dq) /\ call'.op = "emplace_back" /\ call'.out = "threw"
    BY <1>3, CallReads
  <2>2. Good(dq', {}, dq.mem) /\ FreeInFront(dq') = FreeInFront(dq)
    BY <1>1, <2>1, EmplaceBackThrewGood
  <2>3. FrontSpared
    BY <1>1, <2>1, <2>2, SparedAtBack DEF AtBack
  <2> QED
    BY <2>1, <2>2, <2>3 DEF Kept
<1> QED
  BY <1>2, <1>3 DEF EmplaceBackCall

LEMMA PopFrontKept ==
  ASSUME Inv, PopFrontCall
  PROVE  Kept
<1>1. Good(dq, {}, dq.mem) /\ dq.begin # dq.end
  BY DEF Inv, PopFrontCall
<1>2. dq' = PopFront(dq) /\ call'.op = "pop_front" /\ call'.out = "ok"
  BY DEF PopFrontCall, Completes, Returns, Call
<1>3. MovedTo(dq, dq', {}, dq.mem, First(dq) + 1, Past(dq))
  BY <1>1, <1>2, PopFrontGood
<1>4. /\ Good(dq', {}, dq.mem) /\ First(dq') = First(dq) + 1 /\ Past(dq') = Past(dq)
      /\ dq'.map = dq.map
  BY <1>3 DEF MovedTo
<1>5. FrontKept(dq, dq')
  <2> DEFINE lo == dq.map.front * SegmentSize
  <2>1. /\ First(dq) \in Int /\ Past(dq) \in Int /\ lo \in Int
        /\ FreeInFront(dq) = First(dq) - lo /\ SizeOf(dq) = Past(dq) - First(dq)
    BY <1>1, GoodNumbers
  <2>2. FreeInFront(dq') = First(dq') - lo /\ SizeOf(dq') = Past(dq') - First(dq')
    BY <1>4, GoodNumbers
  <2> HIDE DEF lo
  <2>3. FreeInFront(dq') + SizeOf(dq') >= FreeInFront(dq) + SizeOf(dq)
    BY <1>4, <2>1, <2>2
  <2> QED
    BY <1>1, <1>4, <2>3, FrontKeptIf
<1>6. FrontSpared
  BY <1>2, <1>5, SparedAtFront DEF AtFront
<1> QED
  BY <1>2, <1>4, <1>6 DEF Kept

LEMMA PopBackKept ==
  ASSUME Inv, PopBackCall
  PROVE  Kept
<1>1. Good(dq, {}, dq.mem) /\ dq.begin # dq.end
  BY DEF Inv, PopBackCall
<1>2. dq' = PopBack(dq) /\ call'.op = "pop_back" /\ call'.out = "ok"
  BY DEF PopBackCall, Completes, Returns, Call
<1>3. MovedTo(dq, dq', {}, dq.mem, First(dq), Past(dq) - 1)
  BY <1>1, <1>2, PopBackGood
<1>4. Good(dq', {}, dq.mem) /\ First(dq') = First(dq) /\ dq'.map = dq.map
  BY <1>3 DEF MovedTo
<1>5. FreeInFront(dq') = FreeInFront(dq) /\ FreeInFront(dq) \in Nat
  BY <1>1, <1>4, GoodNumbers DEF FreeInFront
<1>6. FrontSpared
  BY <1>2, <1>5, SparedAtBack DEF AtBack
<1> QED
  BY <1>2, <1>4, <1>6 DEF Kept

LEMMA ClearKept ==
  ASSUME Inv, ClearCall
  PROVE  Kept
<1>1. Good(dq, {}, dq.mem)
  BY DEF Inv
<1>2. dq' = Clear(dq) /\ call'.op = "clear" /\ call'.out = "ok"
  BY DEF ClearCall, Completes, Returns, Call
<1>3. Good(dq', {}, dq.mem)
  BY <1>1, <1>2, ClearGood DEF MovedTo
<1>4. FrontSpared
  BY <1>2, SparedElsewhere DEF AtFront, AtBack
<1> QED
  BY <1>2, <1>3, <1>4 DEF Kept

LEMMA ShrinkToFitKept ==
  ASSUME Inv, ShrinkToFitCall
  PROVE  Kept
<1>1. Good(dq, {}, dq.mem)
  BY DEF Inv
<1>2. dq' = ShrinkToFit(dq) /\ call'.op = "shrink_to_fit" /\ call'.out = "ok"
  BY DEF ShrinkToFitCall, Completes, Returns, Call
<1>3. Good(dq', {}, dq.mem)
  BY <1>1, <1>2, ShrinkToFitGood
<1>4. FrontSpared
  BY <1>2, SparedElsewhere DEF AtFront, AtBack
<1> QED
  BY <1>2, <1>3, <1>4 DEF Kept

LEMMA ResizeFrontKept ==
  ASSUME Divides, Inv, NEW sz \in Nat, NEW x \in Values, ResizeFrontCall(sz, x)
  PROVE  Kept
<1>1. Good(dq, {}, dq.mem) /\ x \in Object /\ FreeInFront(dq) \in Nat
      /\ SizeOf(dq) \in Nat
  BY GoodNumbers DEF Inv, Object
<1>2. CASE Completes("resize_front", sz, <<x>>, ResizeFront(dq, sz, x))
  <2>1. /\ dq' \in ResizeFront(dq, sz, x) /\ call'.op = "resize_front"
        /\ call'.out = "ok"
    BY <1>2, CallReads
  <2>2. Good(dq', {}, dq.mem) /\ FrontKept(dq, dq')
    BY <1>1, <2>1, ResizeFrontGood
  <2>3. FrontSpared
    BY <2>1, <2>2, SparedAtFront DEF AtFront
  <2> QED
    BY <2>1, <2>2, <2>3 DEF Kept
<1>3. CASE sz > SizeOf(dq)
           /\ Throws("resize_front", 0, sz, <<x>>, ResizeFrontThrew(dq, sz, x))
  <2>1. /\ dq' \in ResizeFrontThrew(dq, sz, x) /\ call'.op = "resize_front"
        /\ call'.out = "threw"
    BY <1>3, CallReads
  <2>2. Good(dq', {}, dq.mem) /\ SizeOf(dq') = SizeOf(dq) /\ FrontKept(dq, dq')
    BY <1>1, <1>3, <2>1, ResizeFrontThrewGood
  <2>3. FreeInFront(dq') >= FreeInFront(dq)
    BY <1>1, <2>2 DEF FrontKept
  <2>4. FrontSpared
    BY <2>1, <2>3, SparedAtFront DEF AtFront
  <2> QED
    BY <2>1, <2>2, <2>4 DEF Kept
<1> QED
  BY <1>2, <1>3 DEF ResizeFrontCall

LEMMA ResizeBackKept ==
  ASSUME Divides, Inv, NEW sz \in Nat, NEW x \in Values, ResizeBackCall(sz, x)
  PROVE  Kept
<1>1. Good(dq, {}, dq.mem) /\ x \in Object /\ FreeInFront(dq) \in Nat
  BY GoodNumbers DEF Inv, Object
<1>2. CASE Completes("resize_back", sz, <<x>>, ResizeBack(dq, sz, x))
  <2>1. dq' \in ResizeBack(dq, sz, x) /\ call'.op = "resize_back" /\ call'.out = "ok"
    BY <1>2, CallReads
  <2>2. Good(dq', {}, dq.mem) /\ FreeInFront(dq') = FreeInFront(dq)
    BY <1>1, <2>1, ResizeBackGood
  <2>3. FrontSpared
    BY <1>1, <2>1, <2>2, SparedAtBack DEF AtBack
  <2> QED
    BY <2>1, <2>2, <2>3 DEF Kept
<1>3. CASE sz > SizeOf(dq)
           /\ Throws("resize_back", 0, sz, <<x>>, ResizeBackThrew(dq, sz, x))
  <2>1. /\ dq' \in ResizeBackThrew(dq, sz, x) /\ call'.op = "resize_back"
        /\ call'.out = "threw"
    BY <1>3, CallReads
  <2>2. Good(dq', {}, dq.mem) /\ FreeInFront(dq') = FreeInFront(dq)
    BY <1>1, <1>3, <2>1, ResizeBackThrewGood
  <2>3. FrontSpared
    BY <1>1, <2>1, <2>2, SparedAtBack DEF AtBack
  <2> QED
    BY <2>1, <2>2, <2>3 DEF Kept
<1> QED
  BY <1>2, <1>3 DEF ResizeBackCall

LEMMA ReserveFrontKept ==
  ASSUME Inv, NEW n \in Nat, ReserveFrontCall(n)
  PROVE  Kept
<1>1. Good(dq, {}, dq.mem) /\ FreeInFront(dq) \in Nat
  BY GoodNumbers DEF Inv
<1>2. CASE Completes("reserve_front", n, << >>, ReserveFront(dq, n))
  <2>1. /\ dq' \in ReserveFront(dq, n) /\ call'.op = "reserve_front"
        /\ call'.out = "ok" /\ call'.n = n
    BY <1>2, CallReads
  <2>2. /\ Good(dq', {}, dq.mem) /\ FreeInFront(dq') >= FreeInFront(dq)
        /\ n =< FreeInFront(dq') + SizeOf(dq)
    BY <1>1, <2>1, ReserveFrontGood
  <2>3. FrontSpared
    BY <2>1, <2>2 DEF FrontSpared, AtFront, AtBack
  <2> QED
    BY <2>1, <2>2, <2>3 DEF Kept
<1>3. CASE Throws("reserve_front", 0, n, << >>, ReserveFrontThrew(dq, n))
  <2>1. /\ dq' \in ReserveFrontThrew(dq, n) /\ call'.op = "reserve_front"
        /\ call'.out = "threw"
    BY <1>3, CallReads
  <2>2. Good(dq', {}, dq.mem) /\ FreeInFront(dq') >= FreeInFront(dq)
    BY <1>1, <2>1, ReserveFrontThrewGood
  <2>3. FrontSpared
    BY <2>1, <2>2 DEF FrontSpared, AtFront, AtBack
  <2> QED
    BY <2>1, <2>2, <2>3 DEF Kept
<1> QED
  BY <1>2, <1>3 DEF ReserveFrontCall

LEMMA ReserveBackKept ==
  ASSUME Inv, NEW n \in Nat, ReserveBackCall(n)
  PROVE  Kept
<1>1. Good(dq, {}, dq.mem) /\ FreeInFront(dq) \in Nat
  BY GoodNumbers DEF Inv
<1>2. /\ dq' \in ReserveBack(dq, n) \cup ReserveBackThrew(dq, n)
      /\ call'.op = "reserve_back" /\ call'.out \in {"ok", "threw"}
  BY CallReads DEF ReserveBackCall
<1>3. Good(dq', {}, dq.mem) /\ FreeInFront(dq') = FreeInFront(dq)
  BY <1>1, <1>2, ReserveBackGood
<1>4. FrontSpared
  BY <1>1, <1>2, <1>3, SparedAtBack
<1> QED
  BY <1>2, <1>3, <1>4 DEF Kept

\* insert, stable_insert, erase and assign
LEMMA KeptElsewhere ==
  ASSUME Good(dq', {}, dq.mem), call'.out \in {"ok", "threw"},
         call'.op \in {"insert", "stable_insert", "erase", "assign"}
  PROVE  Kept
<1>1. FrontSpared
  BY SparedElsewhere DEF AtFront, AtBack
<1> QED
  BY <1>1 DEF Kept

LEMMA EmplaceKept ==
  ASSUME Divides, Inv, NEW index \in 0 .. SizeOf(dq), NEW x \in Values,
         EmplaceCall(index, x)
  PROVE  Kept
<1>1. Good(dq, {}, dq.mem) /\ x \in Object
  BY DEF Inv, Object
<1>2. \/ EmplaceOk(dq, index) /\ dq' \in {Emplace(dq, index, x)}
      \/ dq' \in EmplaceThrew(dq, index, x)
  BY CallReads DEF EmplaceCall
<1>3. Good(dq', {}, dq.mem)
  <2>1. CASE EmplaceOk(dq, index) /\ dq' \in {Emplace(dq, index, x)}
    BY <1>1, <2>1, EmplaceGood
  <2>2. CASE dq' \in EmplaceThrew(dq, index, x)
    BY <1>1, <2>2, EmplaceThrewGood
  <2> QED
    BY <1>2, <2>1, <2>2
<1>4. call'.op = "insert" /\ call'.out \in {"ok", "threw"}
  BY CallReads DEF EmplaceCall
<1> QED
  BY <1>3, <1>4, KeptElsewhere

LEMMA InsertKept ==
  ASSUME Divides, Inv, NEW index \in 0 .. SizeOf(dq), NEW xs \in Seq(Object),
         NEW b, InsertCall(index, xs, b)
  PROVE  Kept
<1>1. Good(dq, {}, dq.mem)
  BY DEF Inv
<1>2. \/ dq' \in InsertRange(dq, index, xs, b)
      \/ dq' \in InsertRangeThrew(dq, index, xs, b)
  BY CallReads DEF InsertCall
<1>3. Good(dq', {}, dq.mem)
  BY <1>1, <1>2, InsertRangeGood, InsertRangeThrewGood
<1>4. call'.op = "insert" /\ call'.out \in {"ok", "threw"}
  BY CallReads DEF InsertCall
<1> QED
  BY <1>3, <1>4, KeptElsewhere

LEMMA StableInsertKept ==
  ASSUME Divides, Inv, NEW index \in 0 .. SizeOf(dq), NEW xs \in Seq(Object),
         NEW b, StableInsertCall(index, xs, b)
  PROVE  Kept
<1>1. Good(dq, {}, dq.mem)
  BY DEF Inv
<1>2. \/ dq' \in StableInsert(dq, index, xs, b)
      \/ dq' \in StableInsertThrew(dq, index, xs, b)
  BY CallReads DEF StableInsertCall
<1>3. Good(dq', {}, dq.mem)
  BY <1>1, <1>2, StableInsertGood, StableInsertThrewGood
<1>4. call'.op = "stable_insert" /\ call'.out \in {"ok", "threw"}
  BY CallReads DEF StableInsertCall
<1> QED
  BY <1>3, <1>4, KeptElsewhere

LEMMA InsertAliasedKept ==
  ASSUME Divides, Inv, NEW index \in 0 .. SizeOf(dq), NEW n \in Nat,
         NEW i \in 1 .. SizeOf(dq), InsertAliasedCall(index, n, i)
  PROVE  Kept
<1>1. Good(dq, {}, dq.mem)
  BY DEF Inv
<1>2. /\ dq' \in InsertAliased(dq, index, n, i)
      /\ call'.op = "insert" /\ call'.out \in {"ok", "threw"}
  BY CallReads DEF InsertAliasedCall
<1>3. Good(dq', {}, dq.mem)
  BY <1>1, <1>2, InsertAliasedGood
<1> QED
  BY <1>2, <1>3, KeptElsewhere

LEMMA EraseKept ==
  ASSUME Divides, Inv, NEW index \in Nat, NEW n \in Nat, index + n =< SizeOf(dq),
         EraseCall(index, n)
  PROVE  Kept
<1>1. Good(dq, {}, dq.mem)
  BY DEF Inv
<1>2. dq' \in {EraseRange(dq, index, n)} \/ dq' \in EraseThrew(dq, index, n)
  BY CallReads DEF EraseCall
<1>3. Good(dq', {}, dq.mem)
  BY <1>1, <1>2, EraseRangeGood, EraseThrewGood
<1>4. call'.op = "erase" /\ call'.out \in {"ok", "threw"}
  BY CallReads DEF EraseCall
<1> QED
  BY <1>3, <1>4, KeptElsewhere

LEMMA AssignKept ==
  ASSUME Divides, Inv, NEW xs \in Seq(Object), NEW bytes, AssignCall(xs, bytes)
  PROVE  Kept
<1>1. /\ Good(dq, {}, dq.mem)
      /\ BeginsInFirstSegment(dq) \/ (~bytes /\ dq.begin = dq.end)
  BY DEF Inv, AssignCall
<1>2. dq' \in Assign(dq, xs, bytes) \/ dq' \in AssignThrew(dq, xs, bytes)
  BY CallReads DEF AssignCall
<1>3. Good(dq', {}, dq.mem)
  BY <1>1, <1>2, AssignGood, AssignThrewGood
<1>4. call'.op = "assign" /\ call'.out \in {"ok", "threw"}
  BY CallReads DEF AssignCall
<1> QED
  BY <1>3, <1>4, KeptElsewhere

LEMMA NextKept ==
  ASSUME Divides, Inv, Next
  PROVE  Kept
<1>1. MaxLen \in Nat /\ MaxSegments * SegmentSize \in Nat /\ MaxRange \in Nat
      /\ SizeOf(dq) \in Nat
  BY BoundsAssumption, BatchAssumption, SegmentAssumption, GoodNumbers DEF Inv
<1>2. ASSUME NEW x \in Values,
             \/ EmplaceFrontCall(x)
             \/ EmplaceBackCall(x)
             \/ \E sz \in 0 .. MaxLen : ResizeFrontCall(sz, x) \/ ResizeBackCall(sz, x)
             \/ \E index \in 0 .. SizeOf(dq) : EmplaceCall(index, x)
      PROVE  Kept
  BY <1>1, <1>2, EmplaceFrontKept, EmplaceBackKept, ResizeFrontKept, ResizeBackKept,
     EmplaceKept
<1>3. CASE PopFrontCall \/ PopBackCall \/ ClearCall \/ ShrinkToFitCall
  BY <1>3, PopFrontKept, PopBackKept, ClearKept, ShrinkToFitKept
<1>4. ASSUME NEW n \in 0 .. MaxSegments * SegmentSize,
             ReserveFrontCall(n) \/ ReserveBackCall(n)
      PROVE  Kept
  BY <1>1, <1>4, ReserveFrontKept, ReserveBackKept
<1>5. ASSUME NEW index \in 0 .. SizeOf(dq), NEW xs \in Ranges(MaxRange),
             NEW b \in BOOLEAN, InsertCall(index, xs, b) \/ StableInsertCall(index, xs, b)
      PROVE  Kept
  BY <1>1, <1>5, RangesAre, InsertKept, StableInsertKept
<1>6. ASSUME NEW index \in 0 .. SizeOf(dq), NEW n \in 1 .. MaxRange,
             NEW i \in 1 .. SizeOf(dq), InsertAliasedCall(index, n, i)
      PROVE  Kept
  BY <1>1, <1>6, InsertAliasedKept
<1>7. ASSUME NEW index \in 0 .. SizeOf(dq), NEW n \in 0 .. SizeOf(dq),
             index + n =< SizeOf(dq), EraseCall(index, n)
      PROVE  Kept
  BY <1>1, <1>7, EraseKept
<1>8. ASSUME NEW xs \in Ranges(MaxLen), NEW bytes \in BOOLEAN, AssignCall(xs, bytes)
      PROVE  Kept
  BY <1>1, <1>8, RangesAre, AssignKept
<1> QED
  BY <1>2, <1>3, <1>4, <1>5, <1>6, <1>7, <1>8, Zenon DEF Next

LEMMA NextInv ==
  ASSUME Divides, Inv, [Next]_vars
  PROVE  Inv'
<1>1. CASE Next
  <2>1. Good(dq', {}, dq.mem) /\ call'.out \in {"ok", "threw"}
    BY <1>1, NextKept DEF Kept
  <2>2. Good(dq', {}, dq'.mem)
    BY <2>1, GoodAlone
  <2> QED
    BY <2>1, <2>2 DEF Inv
<1>2. CASE UNCHANGED vars
  BY <1>2 DEF Inv, vars
<1> QED
  BY <1>1, <1>2

\* The invariant holds in every state that calls reach.
THEOREM Invariance ==
  ASSUME Divides
  PROVE  Spec => []Inv
<1>1. Init => Inv
  BY InitGood
<1>2. Inv /\ [Next]_vars => Inv'
  BY NextInv
<1> QED
  BY <1>1, <1>2, PTL DEF Spec

-----------------------------------------------------------------------------
\* What holds in every such state

LEMMA TypeFollows ==
  ASSUME Inv
  PROVE  TypeOK
  BY DEF Inv, Good, Shaped, TypeOK

LEMMA SizesFollow ==
  ASSUME Inv
  PROVE  WellFormed
  BY GoodFits DEF Inv, WellFormed

LEMMA OwnershipFollows ==
  ASSUME Inv
  PROVE  EachSegmentOnce
  BY GoodOwns DEF Inv, EachSegmentOnce

LEMMA BasicFollows ==
  ASSUME Inv
  PROVE  BasicGuarantee
  BY SizesFollow, OwnershipFollows, GoodHolds DEF Inv, BasicGuarantee

LEMMA LiveFollows ==
  ASSUME Inv, ~ShiftMayThrow
  PROVE  ObjectsLive
  BY GoodLives DEF Inv, ObjectsLive

LEMMA IteratorsFollow ==
  ASSUME Inv, Divides
  PROVE  IteratorIsPosition
<1>1. /\ Good(dq, {}, dq.mem) /\ Shaped(dq) /\ Owned(dq, {})
      /\ First(dq) \in Int /\ Past(dq) \in Int
      /\ dq.map.front * SegmentSize \in Int /\ dq.map.back * SegmentSize \in Int
      /\ dq.map.front * SegmentSize =< First(dq)
      /\ Past(dq) =< dq.map.back * SegmentSize
  BY ShapedNumbers DEF Inv, Good, Shaped, Bounded
<1> DEFINE n == SegmentSize * MaxSegments
<1>2. SizeOf(dq) = Past(dq) - First(dq) /\ SizeOf(dq) =< n /\ n \in Nat /\ n < Word \div 2
  BY <1>1, SizeIs
<1> HIDE DEF n
<1>3. \A p : At(p) = Locate(p)
  BY DEF At, Locate
<1> SUFFICES ASSUME NEW p \in First(dq) .. Past(dq), NEW q \in First(dq) .. Past(dq)
             PROVE  /\ Advance(At(p), q - p) = At(q)
                    /\ DistanceTo(At(p), At(q)) = q - p
                    /\ q = p + 1 => Increment(At(p)) = At(q) /\ Decrement(At(q)) = At(p)
  BY DEF IteratorIsPosition
<1>4. p \in Int /\ q \in Int /\ First(dq) =< p /\ p =< Past(dq)
      /\ First(dq) =< q /\ q =< Past(dq)
  BY <1>1
<1>5. /\ Locate(p) \in Iterators /\ Position(Locate(p)) = p
      /\ Locate(q) \in Iterators /\ Position(Locate(q)) = q
  BY <1>4, LocatePosition
<1>6. Advance(Locate(p), q - p) = Locate(q)
  <2> DEFINE lo == dq.map.front * SegmentSize
             hi == dq.map.back * SegmentSize
  <2>1. q - p \in Int /\ p + (q - p) = q
    BY <1>4
  <2>2. lo =< p /\ p =< hi /\ lo =< q /\ q =< hi
    <3>1. /\ lo \in Int /\ hi \in Int /\ lo =< First(dq) /\ Past(dq) =< hi
      BY <1>1
    <3> HIDE DEF lo, hi
    <3> QED
      BY <1>1, <1>4, <3>1
  <2> DEFINE k == q - p
  <2>3. k \in Int /\ p + k = q
    BY <2>1
  <2> HIDE DEF k
  <2>4. Advance(Locate(p), k) = Locate(Position(Locate(p)) + k)
    BY <1>1, <1>5, <2>2, <2>3, AdvanceInside
  <2> QED
    BY <1>5, <2>3, <2>4 DEF k
<1>7. DistanceTo(Locate(p), Locate(q)) = q - p
  <2>1. -n =< q - p /\ q - p =< n
    BY <1>1, <1>2, <1>4
  <2> QED
    BY <1>2, <1>5, <2>1, DistanceIs
<1>8. q = p + 1 => Increment(Locate(p)) = Locate(q) /\ Decrement(Locate(q)) = Locate(p)
  <2>1. SUFFICES ASSUME q = p + 1
                 PROVE  Increment(Locate(p)) = Locate(q) /\ Decrement(Locate(q)) = Locate(p)
    OBVIOUS
  <2>2. q - 1 = p
    BY <1>4, <2>1
  <2>3. Increment(Locate(p)) = Locate(p + 1) /\ Decrement(Locate(q)) = Locate(q - 1)
    BY <1>5, IncrementIs, DecrementIs
  <2> QED
    BY <2>1, <2>2, <2>3
<1> QED
  BY <1>3, <1>6, <1>7, <1>8

-----------------------------------------------------------------------------
\* The theorems about one deque

\* After any calls, those that threw included, all members have their types.
THEOREM TypeCorrect ==
  ASSUME Divides
  PROVE  Spec => []TypeOK
<1>1. Inv => TypeOK
  BY TypeFollows
<1> QED
  BY <1>1, Invariance, PTL

\* invariants_ok() of the deque and of its map, and the place of _end, for every size
\* of a segment and whatever throws.
THEOREM AlwaysWellFormed ==
  ASSUME Divides
  PROVE  Spec => []WellFormed
<1>1. Inv => WellFormed
  BY SizesFollow
<1> QED
  BY <1>1, Invariance, PTL

\* No call, whether it returns or throws, loses a segment or frees one twice.
THEOREM SegmentsAlwaysOwned ==
  ASSUME Divides
  PROVE  Spec => []EachSegmentOnce
<1>1. Inv => EachSegmentOnce
  BY OwnershipFollows
<1> QED
  BY <1>1, Invariance, PTL

\* The basic exception guarantee, also where moving or assigning an element throws.
THEOREM AlwaysUsable ==
  ASSUME Divides
  PROVE  Spec => []BasicGuarantee
<1>1. Inv => BasicGuarantee
  BY BasicFollows
<1> QED
  BY <1>1, Invariance, PTL

\* If moving elements does not throw, no call leaves an object behind outside of the
\* elements, or in a segment that was freed.
THEOREM NoElementLost ==
  ASSUME Divides, ~ShiftMayThrow
  PROVE  Spec => []ObjectsLive
<1>1. Inv => ObjectsLive
  BY LiveFollows
<1> QED
  BY <1>1, Invariance, PTL

\* Iterators of elements, wherever these lie, are the numbers of their places.
THEOREM IteratorsAreExact ==
  ASSUME Divides
  PROVE  Spec => []IteratorIsPosition
<1>1. Inv => IteratorIsPosition
  BY IteratorsFollow
<1> QED
  BY <1>1, Invariance, PTL

-----------------------------------------------------------------------------
\* The promise of reserve_front

\* The caller is never owed more than the cells in front.
ReserveInv ==
  Inv /\ owedFront \in Nat /\ owedFront =< FreeInFront(dq)

LEMMA ReserveInitOk ==
  ASSUME Divides, ReserveInit
  PROVE  ReserveInv
<1>1. Inv /\ owedFront = 0
  BY InitGood DEF ReserveInit
<1>2. FreeInFront(dq) \in Nat
  BY <1>1, GoodNumbers DEF Inv
<1> QED
  BY <1>1, <1>2 DEF ReserveInv

LEMMA ReserveNextOk ==
  ASSUME Divides, ReserveInv, [ReserveNext]_reserveVars
  PROVE  ReserveInv'
<1> DEFINE n == SizeOf(dq)
           m == SizeOf(dq')
           free == FreeInFront(dq)
           left == FreeInFront(dq')
           op == call'.op
           owed == owedFront
<1>0. Inv /\ owed \in Nat /\ owed =< free
  BY DEF ReserveInv
<1>1. n \in Nat /\ free \in Nat
  BY <1>0, GoodNumbers DEF Inv
<1>2. CASE ReserveNext
  <2>1. Inv' /\ Kept
    BY <1>0, <1>2, NextInv, NextKept DEF ReserveNext
  <2>2. m \in Nat /\ left \in Nat
    BY <2>1, GoodNumbers DEF Kept
  <2>3. call'.out \in {"ok", "threw"} /\ FrontSpared
    BY <2>1 DEF Kept
  <2>4. owedFront' = Owed(owed, op \in AtFront, op = "reserve_front",
                          op \in AtBack \cup {"reserve_back"})
    BY <1>2 DEF ReserveNext, Account
  <2> DEFINE back == op \in AtBack \cup {"reserve_back"}
             front == op \in AtFront
             reserves == op = "reserve_front"
             threw == call'.out = "threw"
  <2>5. owedFront' = IF back \/ (threw /\ (front \/ reserves)) THEN owed
                     ELSE IF front THEN Larger(0, owed - (m - n))
                     ELSE IF reserves THEN Larger(owed, call'.n - n)
                     ELSE 0
    BY <2>4 DEF Owed
  <2>6. CASE back \/ (threw /\ (front \/ reserves))
    <3>1. left >= free
      BY <2>3, <2>6 DEF FrontSpared
    <3> QED
      BY <1>0, <1>1, <2>1, <2>2, <2>5, <2>6, <3>1 DEF ReserveInv
  <2>7. CASE front /\ ~threw /\ ~back
    <3>1. left + m >= free + n
      BY <2>3, <2>7 DEF FrontSpared, FrontKept
    <3>2. owedFront' = Larger(0, owed - (m - n))
      BY <2>5, <2>7
    <3> HIDE DEF left, m, free, n, owed
    <3>3. owedFront' \in Nat /\ owedFront' =< left
      BY <1>0, <1>1, <2>2, <3>1, <3>2 DEF Larger
    <3> QED
      BY <2>1, <3>3 DEF ReserveInv, left
  <2>8. CASE reserves /\ ~front /\ ~threw /\ ~back
    <3>1. left >= free /\ call'.n \in Nat /\ call'.n =< left + n
      BY <2>3, <2>8 DEF FrontSpared
    <3>2. owedFront' = Larger(owed, call'.n - n)
      BY <2>5, <2>8
    <3> HIDE DEF left, m, free, n, owed
    <3>3. owedFront' \in Nat /\ owedFront' =< left
      BY <1>0, <1>1, <2>2, <3>1, <3>2 DEF Larger
    <3> QED
      BY <2>1, <3>3 DEF ReserveInv, left
  <2>9. CASE ~reserves /\ ~front /\ ~back
    <3>1. owedFront' = 0
      BY <2>5, <2>9
    <3> QED
      BY <2>1, <2>2, <3>1 DEF ReserveInv
  <2> QED
    BY <2>6, <2>7, <2>8, <2>9
<1>3. CASE UNCHANGED reserveVars
  <2>1. dq' = dq /\ call' = call /\ owedFront' = owedFront
    BY <1>3 DEF reserveVars
  <2> QED
    BY <1>0, <2>1 DEF ReserveInv, Inv
<1> QED
  BY <1>2, <1>3
\* reserve_front keeps its promise: the cells counted in owedFront are there, whatever
\* pushes, pops, reservations and throws came since.
THEOREM FrontPromise ==
  ASSUME Divides
  PROVE  ReserveSpec => []FrontPromiseKept
<1>1. ReserveInit => ReserveInv
  BY ReserveInitOk
<1>2. ReserveInv /\ [ReserveNext]_reserveVars => ReserveInv'
  BY ReserveNextOk
<1>3. ReserveInv => FrontPromiseKept
  BY DEF ReserveInv, FrontPromiseKept, FreeInFront
<1> QED
  BY <1>1, <1>2, <1>3, PTL DEF ReserveSpec

-----------------------------------------------------------------------------
\* Segment iterators

\* data() and data_size()
LEMMA SegmentDataIs ==
  ASSUME NEW d, Shaped(d), NEW a \in Int, d.begin.at =< a,
         a < d.end.at \/ (a = d.end.at /\ d.end.index > 0)
  PROVE  SegmentData(It(a, IF a = d.begin.at THEN d.begin.index ELSE 0), d.end) =
           {p \in First(d) .. Past(d) - 1 : p \div SegmentSize = a}
<1> DEFINE ba == d.begin.at
           bi == d.begin.index
           ea == d.end.at
           ei == d.end.index
           j == IF a = ba THEN bi ELSE 0
           A == a * SegmentSize
           size == IF a # ea THEN SegmentSize - j ELSE ei - j
<1>1. /\ ba \in Int /\ bi \in Indices /\ ea \in Int /\ ei \in Indices
      /\ First(d) = ba * SegmentSize + bi /\ Past(d) = ea * SegmentSize + ei
      /\ First(d) \in Int /\ Past(d) \in Int
      /\ SegmentSize \in Nat /\ SegmentSize > 1
  BY ShapedNumbers, SegmentAssumption DEF Iterators, First, Past, Position
<1>2. /\ bi \in Nat /\ ei \in Nat /\ bi < SegmentSize /\ ei < SegmentSize
      /\ j \in Nat /\ A \in Int
  <2>1. bi \in Nat /\ ei \in Nat /\ bi < SegmentSize /\ ei < SegmentSize
    BY <1>1 DEF Indices
  <2>2. A \in Int
    BY Distribute
  <2> QED
    BY <2>1, <2>2
<1>3. SegmentData(It(a, j), d.end) = A + j .. A + j + size - 1
  BY DEF SegmentData, Position, DataSize, It
<1>4. size \in Int
  BY <1>1, <1>2
<1>5. ASSUME NEW p \in Int
      PROVE  A + j =< p /\ p =< A + j + size - 1 <=>
               First(d) =< p /\ p < Past(d) /\ p \div SegmentSize = a
  <2> DEFINE q == p \div SegmentSize
             i == p % SegmentSize
             Q == q * SegmentSize
  <2>1. q \in Int /\ i \in Indices /\ Q + i = p /\ Q \in Int /\ i \in Nat /\ i < SegmentSize
    <3>1. q \in Int /\ i \in Indices /\ Q + i = p
      BY PartsOf
    <3> HIDE DEF q, i
    <3> QED
      BY <1>1, <3>1, Distribute DEF Indices
  <2> HIDE DEF q, i
\* The place of p from where the other iterators point to
  <2>2. /\ A =< Q + i <=> a =< q
        /\ Q + i < A + SegmentSize <=> q < a + 1
    <3>1. (a + 1) * SegmentSize = A + SegmentSize /\ a + 1 \in Int
      BY <1>1, Distribute
    <3>2. /\ a * SegmentSize =< q * SegmentSize + i <=> a =< q
          /\ q * SegmentSize + i < (a + 1) * SegmentSize <=> q < a + 1
      BY <2>1, <3>1, PlaceOrder
    <3> QED
      BY <3>1, <3>2
  <2>3. ba < a => First(d) < A
    <3>1. ba * SegmentSize + bi < a * SegmentSize <=> ba < a
      BY <1>1, PlaceOrder
    <3> QED
      BY <1>1, <3>1
  <2>4. a < ea => A + SegmentSize =< Past(d)
    <3>1. SUFFICES ASSUME a < ea PROVE A + SegmentSize =< Past(d)
      OBVIOUS
    <3>2. (a + 1) * SegmentSize = A + SegmentSize /\ a + 1 \in Int /\ a + 1 =< ea
      BY <1>1, <3>1, Distribute
    <3>3. (a + 1) * SegmentSize =< ea * SegmentSize + ei
      BY <1>1, <3>2, PlaceOrder
    <3> QED
      BY <1>1, <3>2, <3>3
  <2>5. q = a => Q = A
    OBVIOUS
  <2>6. a = ba => First(d) = A + bi /\ j = bi
    BY <1>1
  <2>7. a # ba => j = 0 /\ ba < a
    BY <1>1
  <2>8. a = ea => Past(d) = A + ei /\ size = ei - j
    BY <1>1
  <2>9. a # ea => a < ea /\ size = SegmentSize - j
    BY <1>1
  <2> DEFINE lo == First(d)
             hi == Past(d)
  <2>10. lo \in Int /\ hi \in Int
    BY <1>1
  <2> HIDE DEF A, Q, j, size, ba, bi, ea, ei, lo, hi
  <2>11. ASSUME A + j =< p, p =< A + j + size - 1
         PROVE  lo =< p /\ p < hi /\ q = a
    <3>1. p < A + SegmentSize
      BY <1>1, <1>2, <1>4, <2>1, <2>8, <2>9, <2>11
    <3>2. q = a
      BY <1>2, <2>1, <2>2, <2>11, <3>1
    <3>3. lo =< p
      BY <1>2, <2>3, <2>6, <2>7, <2>10, <2>11 DEF lo
    <3>4. p < hi
      BY <1>1, <1>2, <1>4, <2>4, <2>8, <2>9, <2>10, <2>11, <3>1 DEF hi
    <3> QED
      BY <3>2, <3>3, <3>4
  <2>12. ASSUME lo =< p, p < hi, q = a
         PROVE  A + j =< p /\ p =< A + j + size - 1
    <3>1. A =< p /\ p < A + SegmentSize
      BY <1>1, <1>2, <2>1, <2>2, <2>12
    <3>2. A + j =< p
      BY <1>2, <2>6, <2>7, <2>12, <3>1 DEF lo
    <3>3. p =< A + j + size - 1
      BY <1>1, <1>2, <1>4, <2>8, <2>9, <2>10, <2>12, <3>1 DEF hi
    <3> QED
      BY <3>2, <3>3
  <2> QED
    BY <2>11, <2>12 DEF lo, hi, q
<1> HIDE DEF A, j, size
<1>6. A + j .. A + j + size - 1 = {p \in First(d) .. Past(d) - 1 : p \div SegmentSize = a}
  <2> DEFINE lo == First(d)
             hi == Past(d)
             u == A + j
             v == A + j + size - 1
             X == u .. v
             Y == {p \in lo .. hi - 1 : p \div SegmentSize = a}
  <2>1. lo \in Int /\ hi \in Int /\ u \in Int /\ v \in Int
    BY <1>1, <1>2, <1>4
  <2>2. \A p \in Int : u =< p /\ p =< v <=> lo =< p /\ p < hi /\ p \div SegmentSize = a
    BY <1>5
  <2> HIDE DEF lo, hi, u, v
  <2>3. \A p : p \in X <=> p \in Int /\ u =< p /\ p =< v
    BY <2>1
  <2>4. \A p : p \in Y <=> p \in Int /\ lo =< p /\ p < hi /\ p \div SegmentSize = a
    BY <2>1
  <2> HIDE DEF X, Y
  <2>5. X = Y
    BY <2>2, <2>3, <2>4
  <2> QED
    BY <2>5 DEF X, Y, lo, hi, u, v
<1> QED
  BY <1>3, <1>6 DEF j

\* The iterators of the segments, counted from the first one.
SegmentsOf(d) ==
  [k \in 0 .. SegmentEnd(d.end).at - d.begin.at |->
     It(d.begin.at + k, IF k = 0 THEN d.begin.index ELSE 0)]

LEMMA SegmentsForward ==
  ASSUME NEW d, Shaped(d), NEW last \in Nat, last = SegmentEnd(d.end).at - d.begin.at,
         NEW g, g = [k \in 0 .. last |-> IF k = 0 THEN SegmentBegin(d.begin)
                                         ELSE SegmentIncrement(g[k - 1])]
  PROVE  g = SegmentsOf(d)
<1> DEFINE h == SegmentsOf(d)
           P == {k \in Nat : k =< last => g[k] = h[k]}
<1>1. d.begin.at \in Int /\ d.begin = It(d.begin.at, d.begin.index)
  BY ShapedNumbers DEF Iterators, It
<1>2. h = [k \in 0 .. last |-> It(d.begin.at + k, IF k = 0 THEN d.begin.index ELSE 0)]
  BY DEF SegmentsOf
<1> HIDE DEF h
<1>3. 0 \in P
  <2>1. g[0] = d.begin /\ h[0] = It(d.begin.at + 0, d.begin.index)
    BY <1>2 DEF SegmentBegin
  <2> QED
    BY <1>1, <2>1
<1>4. ASSUME NEW n \in P PROVE n + 1 \in P
  <2>1. SUFFICES ASSUME n + 1 =< last PROVE g[n + 1] = h[n + 1]
    OBVIOUS
  <2>2. n \in Nat /\ n \in 0 .. last /\ n + 1 \in 0 .. last /\ (n + 1) - 1 = n
        /\ n + 1 # 0 /\ g[n] = h[n]
    BY <2>1
  <2>3. g[n + 1] = It(h[n].at + 1, 0)
    BY <2>2 DEF SegmentIncrement
  <2>4. h[n].at = d.begin.at + n /\ h[n + 1] = It(d.begin.at + (n + 1), 0)
    BY <1>2, <2>2 DEF It
  <2>5. (d.begin.at + n) + 1 = d.begin.at + (n + 1)
    BY <1>1, <2>2
  <2> QED
    BY <2>3, <2>4, <2>5
<1>5. P = Nat
  <2>1. P \in SUBSET Nat
    OBVIOUS
  <2> HIDE DEF P
  <2> QED
    BY <1>3, <1>4, <2>1, Induction
<1>6. \A k \in 0 .. last : g[k] = h[k]
  <2> SUFFICES ASSUME NEW k \in 0 .. last PROVE g[k] = h[k]
    OBVIOUS
  <2>1. k \in Nat /\ k =< last
    OBVIOUS
  <2>2. k \in P
    BY <1>5, <2>1
  <2> QED
    BY <2>1, <2>2
<1> QED
  BY <1>2, <1>6 DEF h

LEMMA SegmentsBackward ==
  ASSUME NEW d, Shaped(d), NEW last \in Nat, last = SegmentEnd(d.end).at - d.begin.at,
         NEW g, g = [k \in 0 .. last |-> IF k = last THEN SegmentEnd(d.end)
                                         ELSE SegmentDecrement(g[k + 1], d.begin)]
  PROVE  g = SegmentsOf(d)
<1> DEFINE h == SegmentsOf(d)
           P == {k \in Nat : k =< last => g[last - k] = h[last - k]}
<1>1. /\ d.begin.at \in Int /\ SegmentEnd(d.end) = It(d.begin.at + last, 0)
      /\ last = 0 => d.begin.index = 0
  BY SegmentNumbers
<1>2. h = [k \in 0 .. last |-> It(d.begin.at + k, IF k = 0 THEN d.begin.index ELSE 0)]
  BY DEF SegmentsOf
<1> HIDE DEF h
<1>3. 0 \in P
  <2>1. last \in 0 .. last /\ last - 0 = last /\ d.begin.at + 0 = d.begin.at
    BY <1>1
  <2>2. g[last] = SegmentEnd(d.end)
    BY <2>1
  <2>3. h[last] = It(d.begin.at + last, 0)
    <3>1. h[last] = It(d.begin.at + last, IF last = 0 THEN d.begin.index ELSE 0)
      BY <1>2, <2>1
    <3> QED
      BY <1>1, <3>1
  <2>4. g[last - 0] = h[last - 0]
    BY <1>1, <2>1, <2>2, <2>3
  <2> QED
    BY <2>4
<1>4. ASSUME NEW n \in P PROVE n + 1 \in P
  <2>1. SUFFICES ASSUME n + 1 =< last PROVE g[last - (n + 1)] = h[last - (n + 1)]
    OBVIOUS
  <2> DEFINE k == last - (n + 1)
  <2>2. /\ k \in Nat /\ k \in 0 .. last /\ k # last /\ k + 1 = last - n
        /\ k + 1 \in 0 .. last /\ k + 1 # 0 /\ g[last - n] = h[last - n]
    BY <2>1
  <2> HIDE DEF k
  <2>3. g[k] = SegmentDecrement(h[k + 1], d.begin)
    BY <2>2
  <2>4. h[k + 1] = It(d.begin.at + (k + 1), 0)
    BY <1>2, <2>2
  <2> DEFINE ba == d.begin.at
  <2>5. (ba + (k + 1)) - 1 = ba + k /\ (ba + k = ba <=> k = 0)
    <3>1. ba \in Int
      BY <1>1
    <3>2. k \in Int
      BY <2>2
    <3> HIDE DEF ba
    <3> QED
      BY <3>1, <3>2
  <2>6. g[k] = It(d.begin.at + k, IF k = 0 THEN d.begin.index ELSE 0)
    BY <2>3, <2>4, <2>5 DEF SegmentDecrement, It
  <2> QED
    BY <1>2, <2>2, <2>6 DEF k
<1>5. P = Nat
  <2>1. P \in SUBSET Nat
    OBVIOUS
  <2> HIDE DEF P
  <2> QED
    BY <1>3, <1>4, <2>1, Induction
<1>6. \A k \in 0 .. last : g[k] = h[k]
  <2> SUFFICES ASSUME NEW k \in 0 .. last PROVE g[k] = h[k]
    OBVIOUS
  <2>1. last - k \in Nat /\ last - k =< last /\ last - (last - k) = k
    OBVIOUS
  <2>2. last - k \in P
    BY <1>5, <2>1
  <2> HIDE DEF h
  <2> QED
    BY <2>1, <2>2
<1> QED
  BY <1>2, <1>6 DEF h

LEMMA SegmentsFollow ==
  ASSUME Inv
  PROVE  SegmentIsItsElements
<1> DEFINE last == SegmentEnd(dq.end).at - dq.begin.at
           F(g) == [k \in 0 .. last |-> IF k = 0 THEN SegmentBegin(dq.begin)
                                        ELSE SegmentIncrement(g[k - 1])]
           B(g) == [k \in 0 .. last |-> IF k = last THEN SegmentEnd(dq.end)
                                        ELSE SegmentDecrement(g[k + 1], dq.begin)]
           h == SegmentsOf(dq)
           forward == CHOOSE g : g = F(g)
           backward == CHOOSE g : g = B(g)
           a(k) == dq.begin.at + k
<1>0. Shaped(dq)
  BY DEF Inv, Good
<1>1. /\ last \in Nat /\ dq.begin.at \in Int /\ dq.begin.index \in Indices
      /\ dq.begin = It(dq.begin.at, dq.begin.index)
      /\ SegmentEnd(dq.end) = It(dq.begin.at + last, 0)
      /\ last = 0 => dq.begin.index = 0
      /\ \A k \in Nat : k < last =>
            a(k) < dq.end.at \/ (a(k) = dq.end.at /\ dq.end.index > 0)
  BY <1>0, SegmentNumbers, ShapedNumbers DEF Iterators, It
<1>2. h = [k \in 0 .. last |-> It(dq.begin.at + k, IF k = 0 THEN dq.begin.index ELSE 0)]
  BY DEF SegmentsOf
<1> HIDE DEF last, h
<1>3. h = F(h)
  <2>1. ASSUME NEW k \in 0 .. last
        PROVE  h[k] = IF k = 0 THEN SegmentBegin(dq.begin) ELSE SegmentIncrement(h[k - 1])
    <3>1. CASE k = 0
      BY <1>1, <1>2, <3>1 DEF SegmentBegin
    <3>2. CASE k # 0
      <4>1. k - 1 \in 0 .. last /\ (dq.begin.at + (k - 1)) + 1 = dq.begin.at + k
        BY <1>1, <3>2
      <4> QED
        BY <1>2, <3>2, <4>1 DEF SegmentIncrement, It
    <3> QED
      BY <3>1, <3>2
  <2> QED
    BY <1>2, <2>1
<1>4. h = B(h)
  <2>1. ASSUME NEW k \in 0 .. last
        PROVE  h[k] = IF k = last THEN SegmentEnd(dq.end)
                      ELSE SegmentDecrement(h[k + 1], dq.begin)
    <3>1. CASE k = last
      BY <1>1, <1>2, <3>1
    <3>2. CASE k # last
      <4>1. /\ k + 1 \in 0 .. last /\ k + 1 # 0 /\ k \in Int
            /\ (dq.begin.at + (k + 1)) - 1 = dq.begin.at + k
            /\ (dq.begin.at + k = dq.begin.at <=> k = 0)
        BY <1>1, <3>2
      <4> QED
        BY <1>2, <3>2, <4>1 DEF SegmentDecrement, It
    <3> QED
      BY <3>1, <3>2
  <2> QED
    BY <1>2, <2>1
<1>5. forward = h
  <2>1. forward = F(forward)
    <3> HIDE DEF F
    <3> QED
      BY <1>3
  <2> HIDE DEF forward
  <2> QED
    BY <1>0, <1>1, <2>1, SegmentsForward DEF last, h
<1>6. backward = h
  <2>1. backward = B(backward)
    <3> HIDE DEF B
    <3> QED
      BY <1>4
  <2> HIDE DEF backward
  <2> QED
    BY <1>0, <1>1, <2>1, SegmentsBackward DEF last, h
<1>7. ASSUME NEW k \in 0 .. last, k < last
      PROVE  SegmentData(h[k], dq.end) =
               {p \in First(dq) .. Past(dq) - 1 : p \div SegmentSize = dq.begin.at + k}
  <2>1. /\ a(k) \in Int /\ dq.begin.at =< a(k) /\ (a(k) = dq.begin.at <=> k = 0)
        /\ a(k) < dq.end.at \/ (a(k) = dq.end.at /\ dq.end.index > 0)
    BY <1>1, <1>7
  <2>2. h[k] = It(a(k), IF a(k) = dq.begin.at THEN dq.begin.index ELSE 0)
    BY <1>2, <2>1
  <2> QED
    BY <1>0, <2>1, <2>2, SegmentDataIs
<1>8. ASSUME NEW k \in 0 .. last, k > 0 PROVE SegmentAdvance(h[0], k) = h[k]
  BY <1>1, <1>2, <1>8 DEF SegmentAdvance, It
<1>9. \A k \in 0 .. last :
        /\ forward[k] = backward[k]
        /\ k < last => SegmentData(forward[k], dq.end) =
                         {p \in First(dq) .. Past(dq) - 1 :
                            p \div SegmentSize = dq.begin.at + k}
        /\ k > 0 => SegmentAdvance(forward[0], k) = forward[k]
  BY <1>5, <1>6, <1>7, <1>8
<1> QED
  BY <1>9 DEF SegmentIsItsElements, last

\* Iterating over the segments, in both directions, visits every element once.
THEOREM SegmentsAreExact ==
  ASSUME Divides
  PROVE  Spec => []SegmentIsItsElements
<1>1. Inv => SegmentIsItsElements
  BY SegmentsFollow
<1> QED
  BY <1>1, Invariance, PTL

-----------------------------------------------------------------------------
\* The refinement

\* The effects of the operations in the words of the contract
LEMMA SpliceRead ==
  ASSUME NEW d, NEW kept, NEW m0, Good(d, kept, m0), NEW e, Good(e, kept, m0),
         NEW xs \in Seq(Object), NEW index \in 0 .. SizeOf(d),
         MapP!IsSplice(Contents(e), Contents(d), index, xs)
  PROVE  /\ Contents(e) = Contract!Splice(Contents(d), index, xs)
         /\ index \in 0 .. Len(Contents(d))
<1> DEFINE s == Contents(d)
           r == Contents(e)
<1>1. s \in Seq(Object) /\ r \in Seq(Object) /\ index \in 0 .. Len(s)
      /\ MapP!IsSplice(r, s, index, xs)
  BY ContentsAre
<1> HIDE DEF s, r
<1>2. r = SubSeq(s, 1, index) \o xs \o SubSeq(s, index + 1, Len(s))
  BY <1>1, MapConstants, MapP!SplicedIs
<1> QED
  BY <1>1, <1>2 DEF Contract!Splice, s, r

LEMMA CutRead ==
  ASSUME NEW d, NEW kept, NEW m0, Good(d, kept, m0), NEW e, Good(e, kept, m0),
         NEW index \in Nat, NEW n \in Nat, index + n =< SizeOf(d),
         MapP!IsCut(Contents(e), Contents(d), index, n)
  PROVE  /\ Contents(e) = Contract!Cut(Contents(d), index, n)
         /\ index \in 0 .. Len(Contents(d)) - n
<1> DEFINE s == Contents(d)
           r == Contents(e)
<1>1. /\ s \in Seq(Object) /\ r \in Seq(Object) /\ index + n =< Len(s)
      /\ MapP!IsCut(r, s, index, n)
  BY ContentsAre
<1> HIDE DEF s, r
<1>2. r = SubSeq(s, 1, index) \o SubSeq(s, index + n + 1, Len(s))
  BY <1>1, MapConstants, MapP!CutIs
<1>3. index \in 0 .. Len(s) - n
  BY <1>1
<1> QED
  BY <1>2, <1>3 DEF Contract!Cut, s, r

LEMMA CutAtBack ==
  ASSUME NEW s \in Seq(Object), NEW n \in 0 .. Len(s)
  PROVE  Contract!Cut(s, n, Len(s) - n) = SubSeq(s, 1, n)
  BY MapConstants, MapP!Prefix DEF Contract!Cut

\* Calls that throw and change nothing, and calls that only change where there is room
LEMMA UnmovedStep ==
  ASSUME Unmoved(dq, dq'),
         \/ /\ call'.out = "threw"
            /\ call'.op \in AtEnds \ {"pop_front", "pop_back"}
         \/ /\ call'.out = "ok"
            /\ call'.op \in {"reserve_front", "reserve_back", "shrink_to_fit"}
  PROVE  Contract!Next
<1>1. Contents(dq)' = Contents(dq)
  BY UnmovedContents
<1> QED
  BY <1>1 DEF AtEnds, Contract!Next, Contract!StrongThrew, Contract!Reallocate,
     Contract!Returned

LEMMA EmplaceFrontStep ==
  ASSUME Divides, Inv, NEW x \in Values, EmplaceFrontCall(x)
  PROVE  Contract!Next
<1>1. Good(dq, {}, dq.mem) /\ x \in Object /\ <<x>> \in Seq(Object)
  BY DEF Inv, Object
<1>2. CASE EmplaceFrontOk(dq) /\ Completes("emplace_front", 1, <<x>>, {EmplaceFront(dq, x)})
  <2>1. /\ dq' = EmplaceFront(dq, x) /\ call'.op = "emplace_front" /\ call'.out = "ok"
        /\ call'.xs = <<x>>
    BY <1>2, CallReads
  <2>2. Good(dq', {}, dq.mem) /\ Prefixed(dq, dq', <<x>>)
    BY <1>1, <1>2, <2>1, EmplaceFrontGood, EmplaceFrontPrefixed DEF PushedFront
  <2>3. Contents(dq)' = <<x>> \o Contents(dq)
    <3>1. Contents(dq') = <<x>> \o Contents(dq)
      BY <1>1, <2>2, PrefixedIs, ZenonT(30)
    <3> QED
      BY <3>1
  <2> QED
    BY <2>1, <2>3 DEF Contract!Next, Contract!EmplaceFront, Contract!Returned
<1>3. CASE Throws("emplace_front", 0, 1, <<x>>, EmplaceFrontThrew(dq))
  <2>1. /\ dq' \in EmplaceFrontThrew(dq) /\ call'.op = "emplace_front"
        /\ call'.out = "threw"
    BY <1>3, CallReads
  <2>2. Unmoved(dq, dq')
    BY <1>1, <2>1, EmplaceFrontThrewGood, GrownUnmoved
  <2> QED
    BY <2>1, <2>2, UnmovedStep DEF AtEnds
<1> QED
  BY <1>2, <1>3 DEF EmplaceFrontCall

LEMMA EmplaceBackStep ==
  ASSUME Divides, Inv, NEW x \in Values, EmplaceBackCall(x)
  PROVE  Contract!Next
<1>1. Good(dq, {}, dq.mem) /\ x \in Object /\ <<x>> \in Seq(Object)
  BY DEF Inv, Object
<1>2. CASE EmplaceBackOk(dq) /\ Completes("emplace_back", 1, <<x>>, {EmplaceBack(dq, x)})
  <2>1. /\ dq' = EmplaceBack(dq, x) /\ call'.op = "emplace_back" /\ call'.out = "ok"
        /\ call'.xs = <<x>>
    BY <1>2, CallReads
  <2>2. Good(dq', {}, dq.mem) /\ Suffixed(dq, dq', <<x>>)
    BY <1>1, <1>2, <2>1, EmplaceBackGood, EmplaceBackSuffixed DEF PushedBack
  <2>3. Contents(dq)' = Contents(dq) \o <<x>>
    <3>1. Contents(dq') = Contents(dq) \o <<x>>
      BY <1>1, <2>2, SuffixedIs, ZenonT(30)
    <3> QED
      BY <3>1
  <2> QED
    BY <2>1, <2>3 DEF Contract!Next, Contract!EmplaceBack, Contract!Returned
<1>3. CASE Throws("emplace_back", 0, 1, <<x>>, EmplaceBackThrew(dq))
  <2>1. /\ dq' \in EmplaceBackThrew(dq) /\ call'.op = "emplace_back"
        /\ call'.out = "threw"
    BY <1>3, CallReads
  <2>2. Unmoved(dq, dq')
    BY <1>1, <2>1, EmplaceBackThrewGood, GrownUnmoved
  <2> QED
    BY <2>1, <2>2, UnmovedStep DEF AtEnds
<1> QED
  BY <1>2, <1>3 DEF EmplaceBackCall

LEMMA ResizeFrontStep ==
  ASSUME Divides, Inv, NEW sz \in Nat, NEW x \in Values, ResizeFrontCall(sz, x)
  PROVE  Contract!Next
<1> DEFINE s == Contents(dq)
<1>1. /\ Good(dq, {}, dq.mem) /\ x \in Object /\ SizeOf(dq) \in Nat
      /\ Len(s) = SizeOf(dq)
  BY ContentsAre DEF Inv, Object
<1>2. CASE Completes("resize_front", sz, <<x>>, ResizeFront(dq, sz, x))
  <2>1. /\ dq' \in ResizeFront(dq, sz, x) /\ call'.op = "resize_front"
        /\ call'.out = "ok" /\ call'.xs = <<x>> /\ call'.n = sz
    BY <1>2, CallReads
  <2>2. Good(dq', {}, dq.mem)
    BY <1>1, <2>1, ResizeFrontElements
  <2>3. CASE sz > SizeOf(dq)
    <3> DEFINE xs == Copies(sz - SizeOf(dq), x)
    <3>1. xs \in Seq(Object) /\ xs = Contract!SameElement(sz - Len(s), <<x>>[1])
      <4>1. sz - SizeOf(dq) \in Nat
        BY <1>1, <2>3
      <4> QED
        BY <1>1, <4>1, CopiesAre DEF Copies, Contract!SameElement
    <3>2. Prefixed(dq, dq', xs)
      BY <1>1, <2>1, <2>3, ResizeFrontElements
    <3> HIDE DEF xs
    <3>3. Contents(dq)' = xs \o s
      <4>1. Contents(dq') = xs \o s
        BY <1>1, <2>2, <3>1, <3>2, PrefixedIs, ZenonT(30)
      <4> QED
        BY <4>1
    <3> QED
      BY <1>1, <2>1, <2>3, <3>1, <3>3
         DEF Contract!Next, Contract!ResizeFront, Contract!Returned
  <2>4. CASE ~(sz > SizeOf(dq))
    <3> DEFINE n == SizeOf(dq) - sz
    <3>1. n \in Nat /\ SizeOf(dq') = SizeOf(dq) - n /\ PartOf(dq, dq', n)
          /\ 0 + n =< SizeOf(dq) /\ 0 \in Nat
      <4>1. SizeOf(dq') = sz /\ PartOf(dq, dq', SizeOf(dq) - sz)
        BY <1>1, <2>1, <2>4, ResizeFrontElements
      <4> QED
        BY <1>1, <2>4, <4>1
    <3> HIDE DEF n
    <3>2. MapP!IsCut(Contents(dq'), Contents(dq), 0, n)
      BY <1>1, <2>2, <3>1, FrontPartIsCut
    <3>3. Contents(dq)' = Contract!Cut(s, 0, n)
      <4>1. Contents(dq') = Contract!Cut(s, 0, n)
        BY <1>1, <2>2, <3>1, <3>2, CutRead
      <4> QED
        BY <4>1
    <3> QED
      BY <1>1, <2>1, <2>4, <3>3 DEF Contract!Next, Contract!ResizeFront, Contract!Returned, n
  <2> QED
    BY <2>3, <2>4
<1>3. CASE sz > SizeOf(dq)
           /\ Throws("resize_front", 0, sz, <<x>>, ResizeFrontThrew(dq, sz, x))
  <2>1. /\ dq' \in ResizeFrontThrew(dq, sz, x) /\ call'.op = "resize_front"
        /\ call'.out = "threw"
    BY <1>3, CallReads
  <2>2. Unmoved(dq, dq')
    BY <1>1, <1>3, <2>1, ResizeFrontThrewUnmoved
  <2> QED
    BY <2>1, <2>2, UnmovedStep DEF AtEnds
<1> QED
  BY <1>2, <1>3 DEF ResizeFrontCall

LEMMA ResizeBackStep ==
  ASSUME Divides, Inv, NEW sz \in Nat, NEW x \in Values, ResizeBackCall(sz, x)
  PROVE  Contract!Next
<1> DEFINE s == Contents(dq)
<1>1. /\ Good(dq, {}, dq.mem) /\ x \in Object /\ SizeOf(dq) \in Nat
      /\ Len(s) = SizeOf(dq) /\ s \in Seq(Object)
  BY ContentsAre DEF Inv, Object
<1>2. CASE Completes("resize_back", sz, <<x>>, ResizeBack(dq, sz, x))
  <2>1. /\ dq' \in ResizeBack(dq, sz, x) /\ call'.op = "resize_back"
        /\ call'.out = "ok" /\ call'.xs = <<x>> /\ call'.n = sz
    BY <1>2, CallReads
  <2>2. Good(dq', {}, dq.mem)
    BY <1>1, <2>1, ResizeBackElements
  <2>3. CASE sz > SizeOf(dq)
    <3> DEFINE xs == Copies(sz - SizeOf(dq), x)
    <3>1. xs \in Seq(Object) /\ xs = Contract!SameElement(sz - Len(s), <<x>>[1])
      <4>1. sz - SizeOf(dq) \in Nat
        BY <1>1, <2>3
      <4> QED
        BY <1>1, <4>1, CopiesAre DEF Copies, Contract!SameElement
    <3>2. Suffixed(dq, dq', xs)
      BY <1>1, <2>1, <2>3, ResizeBackElements
    <3> HIDE DEF xs
    <3>3. Contents(dq)' = s \o xs
      <4>1. Contents(dq') = s \o xs
        BY <1>1, <2>2, <3>1, <3>2, SuffixedIs, ZenonT(30)
      <4> QED
        BY <4>1
    <3> QED
      BY <1>1, <2>1, <2>3, <3>1, <3>3
         DEF Contract!Next, Contract!ResizeBack, Contract!Returned
  <2>4. CASE ~(sz > SizeOf(dq))
    <3> DEFINE n == SizeOf(dq) - sz
    <3>1. n \in Nat /\ SizeOf(dq') = SizeOf(dq) - n /\ PartOf(dq, dq', 0)
          /\ SizeOf(dq) - n = sz /\ sz + n =< SizeOf(dq)
          /\ sz \in 0 .. Len(s) /\ n = Len(s) - sz
      <4>1. SizeOf(dq') = sz /\ PartOf(dq, dq', 0)
        BY <1>1, <2>1, <2>4, ResizeBackElements
      <4> QED
        BY <1>1, <2>4, <4>1
    <3> HIDE DEF n
    <3>2. MapP!IsCut(Contents(dq'), Contents(dq), sz, n)
      BY <1>1, <2>2, <3>1, BackPartIsCut
    <3>3. Contents(dq') = Contract!Cut(s, sz, n)
      BY <1>1, <2>2, <3>1, <3>2, CutRead
    <3>4. Contract!Cut(s, sz, n) = SubSeq(s, 1, sz)
      BY <1>1, <3>1, CutAtBack
    <3>5. Contents(dq)' = SubSeq(s, 1, sz)
      BY <3>3, <3>4
    <3> QED
      BY <1>1, <2>1, <2>4, <3>5 DEF Contract!Next, Contract!ResizeBack, Contract!Returned
  <2> QED
    BY <2>3, <2>4
<1>3. CASE sz > SizeOf(dq)
           /\ Throws("resize_back", 0, sz, <<x>>, ResizeBackThrew(dq, sz, x))
  <2>1. /\ dq' \in ResizeBackThrew(dq, sz, x) /\ call'.op = "resize_back"
        /\ call'.out = "threw"
    BY <1>3, CallReads
  <2>2. Unmoved(dq, dq')
    BY <1>1, <1>3, <2>1, ResizeBackThrewUnmoved
  <2> QED
    BY <2>1, <2>2, UnmovedStep DEF AtEnds
<1> QED
  BY <1>2, <1>3 DEF ResizeBackCall

\* Calls that only remove elements at the ends.
LEMMA RemovalStep ==
  ASSUME Inv, PopFrontCall \/ PopBackCall \/ ClearCall
  PROVE  Contract!Next
<1> DEFINE s == Contents(dq)
<1>1. /\ Good(dq, {}, dq.mem) /\ s \in Seq(Object) /\ Len(s) = SizeOf(dq)
      /\ SizeOf(dq) \in Nat /\ 0 \in Nat /\ 1 \in Nat
  BY ContentsAre DEF Inv
<1>2. ASSUME NEW e, Good(e, {}, dq.mem), SizeOf(e) = SizeOf(dq) - 1
      PROVE  0 + 1 =< SizeOf(dq) /\ SizeOf(dq) - 1 \in Nat /\ s # << >>
             /\ (SizeOf(dq) - 1) + 1 =< SizeOf(dq)
  <2>1. SizeOf(e) \in Nat
    BY <1>2, GoodNumbers
  <2>2. SizeOf(dq) > 0
    BY <1>1, <1>2, <2>1
  <2>3. s # << >>
    <3> HIDE DEF s
    <3> QED
      BY <1>1, <2>2
  <2> QED
    BY <1>1, <2>2, <2>3
<1>3. CASE PopFrontCall
  <2>1. /\ dq' = PopFront(dq) /\ call'.op = "pop_front" /\ call'.out = "ok"
        /\ dq.begin # dq.end
    BY <1>3, CallReads DEF PopFrontCall
  <2>2. Good(dq', {}, dq.mem) /\ SizeOf(dq') = SizeOf(dq) - 1 /\ PartOf(dq, dq', 1)
    BY <1>1, <2>1, PopFrontElements
  <2>3. MapP!IsCut(Contents(dq'), Contents(dq), 0, 1)
    BY <1>1, <2>2, FrontPartIsCut
  <2>4. Contents(dq)' = Contract!Cut(s, 0, 1)
    BY <1>1, <1>2, <2>2, <2>3, CutRead
  <2> QED
    BY <1>2, <2>1, <2>2, <2>4 DEF Contract!Next, Contract!PopFront, Contract!Returned
<1>4. CASE PopBackCall
  <2>1. /\ dq' = PopBack(dq) /\ call'.op = "pop_back" /\ call'.out = "ok"
        /\ dq.begin # dq.end
    BY <1>4, CallReads DEF PopBackCall
  <2>2. Good(dq', {}, dq.mem) /\ SizeOf(dq') = SizeOf(dq) - 1 /\ PartOf(dq, dq', 0)
    BY <1>1, <2>1, PopBackElements
  <2>3. MapP!IsCut(Contents(dq'), Contents(dq), SizeOf(dq) - 1, 1)
    BY <1>1, <2>2, BackPartIsCut
  <2>4. Contents(dq)' = Contract!Cut(s, SizeOf(dq) - 1, 1)
    BY <1>1, <1>2, <2>2, <2>3, CutRead
  <2> QED
    BY <1>1, <1>2, <2>1, <2>2, <2>4 DEF Contract!Next, Contract!PopBack, Contract!Returned
<1>5. CASE ClearCall
  <2>1. dq' = Clear(dq) /\ call'.op = "clear" /\ call'.out = "ok"
    BY <1>5, CallReads DEF ClearCall
  <2>2. Contents(dq)' = << >>
    BY <1>1, <2>1, ClearElements
  <2> QED
    BY <2>1, <2>2 DEF Contract!Next, Contract!Clear, Contract!Returned
<1> QED
  BY <1>3, <1>4, <1>5

\* Calls that only change where there is room.
LEMMA MemoryStep ==
  ASSUME Inv, NEW n \in Nat, ReserveFrontCall(n) \/ ReserveBackCall(n) \/ ShrinkToFitCall
  PROVE  /\ Good(dq, {}, dq.mem) /\ Unmoved(dq, dq') /\ call'.out \in {"ok", "threw"}
         /\ call'.op \in {"reserve_front", "reserve_back", "shrink_to_fit"}
<1>1. Good(dq, {}, dq.mem)
  BY DEF Inv
<1>2. CASE ReserveFrontCall(n)
  <2>1. /\ dq' \in ReserveFront(dq, n) \/ dq' \in ReserveFrontThrew(dq, n)
        /\ call'.op = "reserve_front" /\ call'.out \in {"ok", "threw"}
    BY <1>2, CallReads DEF ReserveFrontCall
  <2>2. Good(dq', {}, dq.mem) /\ Grown(dq, dq', 0, 0)
    BY <1>1, <2>1, ReserveFrontGood, ReserveFrontThrewGood
  <2> QED
    BY <1>1, <2>1, <2>2, GrownUnmoved
<1>3. CASE ReserveBackCall(n)
  <2>1. /\ dq' \in ReserveBack(dq, n) \cup ReserveBackThrew(dq, n)
        /\ call'.op = "reserve_back" /\ call'.out \in {"ok", "threw"}
    BY <1>3, CallReads DEF ReserveBackCall
  <2>2. Good(dq', {}, dq.mem) /\ Grown(dq, dq', 0, 0)
    BY <1>1, <2>1, ReserveBackGood
  <2> QED
    BY <1>1, <2>1, <2>2, GrownUnmoved
<1>4. CASE ShrinkToFitCall
  <2>1. dq' = ShrinkToFit(dq) /\ call'.op = "shrink_to_fit" /\ call'.out = "ok"
    BY <1>4, CallReads DEF ShrinkToFitCall
  <2> QED
    BY <1>1, <2>1, ShrinkToFitUnmoved
<1> QED
  BY <1>2, <1>3, <1>4

\* An insertion that returns.
LEMMA InsertStep ==
  ASSUME Good(dq, {}, dq.mem), NEW index \in 0 .. SizeOf(dq), NEW xs \in Seq(Object),
         NEW n, NEW outcomes, Returns("insert", index, n, xs, outcomes, index),
         \A e \in outcomes :
           Good(e, {}, dq.mem) /\ MapP!IsSplice(Contents(e), Contents(dq), index, xs)
  PROVE  Contract!Next
<1>1. /\ dq' \in outcomes /\ call'.op = "insert" /\ call'.at = index /\ call'.xs = xs
      /\ call'.out = "ok" /\ call'.ret = index
  BY CallReads
<1>2. Good(dq', {}, dq.mem) /\ MapP!IsSplice(Contents(dq'), Contents(dq), index, xs)
  BY <1>1
<1>3. /\ Contents(dq)' = Contract!Splice(Contents(dq), index, xs)
      /\ index \in 0 .. Len(Contents(dq))
  BY <1>2, SpliceRead
<1> QED
  BY <1>1, <1>3 DEF Contract!Next, Contract!Insert, Contract!Returned

\* An insertion that throws.
LEMMA InsertThrewStep ==
  ASSUME NotKept \subseteq Excepted,
         NEW op \in {"insert", "stable_insert"}, NEW index, NEW n, NEW xs, NEW outcomes,
         Throws(op, index, n, xs, outcomes),
         \A e \in outcomes : PartlyInserted(dq, e, xs)
  PROVE  Contract!Next
<1>1. /\ dq' \in outcomes /\ call'.op = op /\ call'.out = "threw" /\ call'.xs = xs
  BY CallReads
<1>2. PICK k \in 0 .. Len(xs) - 1 :
         \/ Contents(dq') = Contents(dq) \o FirstPart(xs, k)
         \/ Contents(dq') = LastPart(xs, k) \o Contents(dq)
  BY <1>1 DEF PartlyInserted
<1>3. \/ Contents(dq)' = Contents(dq) \o SubSeq(xs, 1, k)
      \/ Contents(dq)' = SubSeq(xs, Len(xs) - k + 1, Len(xs)) \o Contents(dq)
  BY <1>2 DEF FirstPart, LastPart
<1> QED
  BY <1>1, <1>2, <1>3 DEF Contract!Next, Contract!InsertThrew, Contract!Threw, NotKept

LEMMA EmplaceStep ==
  ASSUME NotKept \subseteq Excepted, Divides, ~ShiftMayThrow, Inv, NEW index \in 0 .. SizeOf(dq), NEW x \in Values,
         EmplaceCall(index, x)
  PROVE  Contract!Next
<1>1. /\ Good(dq, {}, dq.mem) /\ x \in Object /\ <<x>> \in Seq(Object)
      /\ Len(<<x>>) = 1
  BY DEF Inv, Object
<1>2. CASE /\ EmplaceOk(dq, index)
           /\ Returns("insert", index, 1, <<x>>, {Emplace(dq, index, x)}, index)
  <2> DEFINE xs == <<x>>
             after == {Emplace(dq, index, x)}
  <2>1. \A e \in after :
          Good(e, {}, dq.mem) /\ MapP!IsSplice(Contents(e), Contents(dq), index, xs)
    BY <1>1, <1>2, EmplaceSplices
  <2>2. xs \in Seq(Object) /\ Returns("insert", index, 1, xs, after, index)
    BY <1>1, <1>2
  <2> HIDE DEF xs, after
  <2> QED
    BY <1>1, <2>1, <2>2, InsertStep
<1>3. CASE Throws("insert", index, 1, <<x>>, EmplaceThrew(dq, index, x))
  <2>1. ASSUME NEW e \in EmplaceThrew(dq, index, x) PROVE PartlyInserted(dq, e, <<x>>)
    <3>1. Contents(e) = Contents(dq)
      BY <1>1, <2>1, EmplaceThrewUnmoved, UnmovedContents
    <3>2. 0 \in 0 .. Len(<<x>>) - 1 /\ FirstPart(<<x>>, 0) = << >>
      <4>1. 0 \in 0 .. Len(<<x>>) /\ 0 \in 0 .. Len(<<x>>) - 1
        BY <1>1
      <4>2. FirstPart(<<x>>, 0) \in Seq(Object) /\ Len(FirstPart(<<x>>, 0)) = 0
        BY <1>1, <4>1, PartsAre
      <4> QED
        BY <4>1, <4>2
    <3>3. Contents(dq) \in Seq(Object)
      BY <1>1, ContentsAre
    <3>4. Contents(e) = Contents(dq) \o FirstPart(<<x>>, 0)
      BY <3>1, <3>2, <3>3
    <3> QED
      BY <3>2, <3>4 DEF PartlyInserted
  <2> QED
    BY <1>3, <2>1, InsertThrewStep
<1> QED
  BY <1>2, <1>3 DEF EmplaceCall

LEMMA InsertRangeStep ==
  ASSUME NotKept \subseteq Excepted, Divides, ~ShiftMayThrow, Inv, NEW index \in 0 .. SizeOf(dq),
         NEW xs \in Seq(Object), NEW b, InsertCall(index, xs, b)
  PROVE  Contract!Next
<1>1. Good(dq, {}, dq.mem)
  BY DEF Inv
<1>2. CASE Returns("insert", index, Len(xs), xs, InsertRange(dq, index, xs, b), index)
  BY <1>1, <1>2, InsertRangeSplices, InsertStep
<1>3. CASE Throws("insert", index, Len(xs), xs, InsertRangeThrew(dq, index, xs, b))
  BY <1>1, <1>3, InsertRangeThrewElements, InsertThrewStep
<1> QED
  BY <1>2, <1>3 DEF InsertCall

LEMMA InsertAliasedStep ==
  ASSUME Divides, Inv, NEW index \in 0 .. SizeOf(dq), NEW n \in Nat,
         NEW i \in 1 .. SizeOf(dq), InsertAliasedCall(index, n, i)
  PROVE  Contract!Next
<1>1. Good(dq, {}, dq.mem) /\ Contents(dq)[i] \in Object
  BY ContentsAre DEF Inv
<1> DEFINE xs == Copies(n, Contents(dq)[i])
<1>2. xs \in Seq(Object)
  BY <1>1, CopiesAre
<1>3. \A e \in InsertAliased(dq, index, n, i) :
        Good(e, {}, dq.mem) /\ MapP!IsSplice(Contents(e), Contents(dq), index, xs)
  BY <1>1, InsertAliasedSplices
<1>4. Returns("insert", index, n, xs, InsertAliased(dq, index, n, i), index)
  BY DEF InsertAliasedCall
<1> HIDE DEF xs
<1> QED
  BY <1>1, <1>2, <1>3, <1>4, InsertStep

\* stable_insert puts the range at the last place, up to the hint, where a segment begins.
LEMMA AtTheBoundary ==
  ASSUME Divides, Good(dq, {}, dq.mem), NEW index \in 0 .. SizeOf(dq),
         NEW at \in 0 .. index, at = StablePosition(dq, index)
  PROVE  /\ Contract!BeginsSegment(at)
         /\ \A i \in at + 1 .. index : ~Contract!BeginsSegment(i)
<1> DEFINE bi == dq.begin.index
           ba == dq.begin.at
           p == First(dq) + index
           h == p \div SegmentSize
           r == p % SegmentSize
<1>1. /\ dq.begin \in Iterators /\ SizeOf(dq) \in Nat /\ Len(Contents(dq)) = SizeOf(dq)
      /\ First(dq) \in Int /\ Past(dq) \in Int /\ SizeOf(dq) = Past(dq) - First(dq)
      /\ dq.map.front * SegmentSize \in Int /\ dq.map.back * SegmentSize \in Int
      /\ dq.map.front * SegmentSize =< First(dq) /\ Past(dq) =< dq.map.back * SegmentSize
  BY GoodNumbers, ShapedNumbers, ContentsAre DEF Good, Shaped, Bounded
<1>0. SizeOf(dq) \in Nat /\ index \in Nat /\ at \in Nat /\ at =< index /\ index =< SizeOf(dq)
  <2>1. SizeOf(dq) \in Nat
    BY <1>1
  <2> QED
    BY <2>1
<1>2. /\ ba \in Int /\ bi \in Indices /\ bi \in Nat /\ First(dq) = ba * SegmentSize + bi
      /\ SegmentSize \in Nat /\ SegmentSize > 1 /\ 0 \in Indices
  <2>1. SegmentSize \in Nat /\ SegmentSize > 1
    BY SegmentAssumption
  <2>2. ba \in Int /\ bi \in Indices
    BY <1>1 DEF Iterators
  <2>3. First(dq) = ba * SegmentSize + bi
    BY DEF First, Position
  <2> HIDE DEF ba, bi
  <2> QED
    BY <2>1, <2>2, <2>3 DEF Indices
<1>3. /\ p \in Int /\ h \in Int /\ r \in Indices /\ r \in Nat /\ h * SegmentSize + r = p
      /\ r < SegmentSize
  <2>1. p \in Int
    BY <1>1
  <2>2. h \in Int /\ r \in Indices /\ h * SegmentSize + r = p
    BY <2>1, PartsOf
  <2> HIDE DEF h, r, p
  <2> QED
    BY <1>2, <2>1, <2>2 DEF Indices
<1> HIDE DEF h, r, bi, ba
<1>4. CASE StableAtEnd(dq, index)
  <2>1. at = index /\ index = SizeOf(dq)
    BY <1>4 DEF StablePosition, StableAtEnd
  <2> QED
    BY <1>1, <2>1 DEF Contract!BeginsSegment
<1>5. CASE ~StableAtEnd(dq, index)
  <2>1. StableHint(dq, index).at = h
    <3>1. Position(dq.begin) = First(dq)
      BY DEF First
    <3>2. /\ dq.map.front * SegmentSize =< First(dq) + index
          /\ First(dq) + index =< dq.map.back * SegmentSize
          /\ First(dq) =< dq.map.back * SegmentSize
      <4> DEFINE lo == dq.map.front * SegmentSize
                 hi == dq.map.back * SegmentSize
      <4>1. /\ lo \in Int /\ hi \in Int /\ lo =< First(dq) /\ Past(dq) =< hi
            /\ First(dq) \in Int /\ Past(dq) \in Int /\ SizeOf(dq) = Past(dq) - First(dq)
        BY <1>1
      <4> HIDE DEF lo, hi
      <4>2. lo =< First(dq) + index /\ First(dq) + index =< hi /\ First(dq) =< hi
        BY <1>0, <4>1
      <4> QED
        BY <4>2 DEF lo, hi
    <3>3. Advance(dq.begin, index) = Locate(First(dq) + index)
      BY <1>1, <3>1, <3>2, AdvanceInside DEF Good
    <3> QED
      BY <3>3 DEF StableHint, Locate, It, h
  <2>2. index < SizeOf(dq)
    BY <1>0, <1>5 DEF StableAtEnd
  <2>3. (h - ba) * SegmentSize = h * SegmentSize - ba * SegmentSize
        /\ h * SegmentSize \in Int /\ ba * SegmentSize \in Int /\ h - ba \in Int
    BY <1>2, <1>3, Distribute
  <2> DEFINE X == (h - ba) * SegmentSize
  <2>4. X \in Int /\ bi + index = X + r
    <3>1. X = h * SegmentSize - ba * SegmentSize
      BY <2>3
    <3> HIDE DEF X
    <3> QED
      BY <1>2, <1>3, <2>3, <3>1
  <2>5. \/ at = 0 /\ X = 0
        \/ at = X - bi
    <3>1. CASE h = ba
      BY <1>2, <1>5, <2>1, <2>3, <3>1 DEF StablePosition, StableAtStart, ba
    <3>2. CASE h # ba
      <4>1. at = h * SegmentSize - First(dq)
        BY <1>5, <2>1, <3>2 DEF StablePosition, StableAtStart, ba
      <4> QED
        BY <1>2, <2>3, <4>1
    <3> QED
      BY <3>1, <3>2
  <2> HIDE DEF X, p
  <2>6. Contract!BeginsSegment(at)
    <3>1. CASE at = 0
      BY <3>1 DEF Contract!BeginsSegment
    <3>2. CASE at = X - bi
      <4>1. (X + 0) % SegmentSize = 0
        BY <1>2, <2>3, PlaceOf DEF X
      <4>2. bi + at = X + 0
        BY <1>2, <2>4, <3>2
      <4> QED
        BY <4>1, <4>2 DEF Contract!BeginsSegment, bi
    <3> QED
      BY <2>5, <3>1, <3>2
  <2>7. ASSUME NEW i \in at + 1 .. index PROVE ~Contract!BeginsSegment(i)
    <3> DEFINE j == r - (index - i)
    <3>1. i \in Nat /\ i > 0 /\ i # SizeOf(dq) /\ i > at /\ i =< index
      BY <1>0, <2>2
    <3>2. j \in Indices /\ j > 0 /\ bi + i = X + j
      BY <1>2, <1>3, <2>4, <2>5, <3>1 DEF Indices
    <3> HIDE DEF j
    <3>3. (X + j) % SegmentSize = j
      BY <2>3, <3>2, PlaceOf DEF X
    <3>4. (bi + i) % SegmentSize # 0
      BY <3>2, <3>3
    <3> QED
      BY <1>1, <3>1, <3>4 DEF Contract!BeginsSegment, bi
  <2> QED
    BY <2>6, <2>7
<1> QED
  BY <1>4, <1>5

LEMMA StableInsertStep ==
  ASSUME NotKept \subseteq Excepted, Divides, ~ShiftMayThrow, Inv, NEW index \in 0 .. SizeOf(dq),
         NEW xs \in Seq(Object), NEW b, StableInsertCall(index, xs, b)
  PROVE  Contract!Next
<1> DEFINE s == Contents(dq)
           at == StablePosition(dq, index)
<1>1. Good(dq, {}, dq.mem) /\ s \in Seq(Object) /\ SizeOf(dq) \in Nat /\ Len(s) = SizeOf(dq)
  BY ContentsAre DEF Inv
<1>2. CASE Returns("stable_insert", index, Len(xs), xs, StableInsert(dq, index, xs, b), at)
  <2>1. /\ dq' \in StableInsert(dq, index, xs, b) /\ call'.op = "stable_insert"
        /\ call'.at = index /\ call'.xs = xs /\ call'.out = "ok" /\ call'.ret = at
    BY <1>2, CallReads
  <2>2. Good(dq', {}, dq.mem) /\ at \in 0 .. index /\ StablySpliced(dq, dq', at, xs)
    BY <1>1, <2>1, StableInsertElements
  <2>3. PICK c \in Nat : MapP!IsSplice(Contents(dq'), Contents(dq), at, xs \o Copies(c, Default))
    BY <2>2 DEF StablySpliced
  <2> DEFINE fill == Copies(c, Default)
             ys == xs \o fill
  <2>4. Default \in Object /\ fill \in Seq(Object) /\ Len(fill) = c
    <3>1. Default \in Object
      BY BatchAssumption DEF Object
    <3> QED
      BY <3>1, CopiesAre
  <2> HIDE DEF fill
  <2>5. ys \in Seq(Object) /\ Len(ys) = Len(xs) + c
    BY <2>4
  <2>6. MapP!IsSplice(Contents(dq'), Contents(dq), at, ys)
    BY <2>3 DEF fill
  <2> HIDE DEF ys, at
  <2>7. at \in 0 .. SizeOf(dq)
    BY <1>1, <2>2
  <2>8. Contents(dq') = Contract!Splice(s, at, ys)
    BY <1>1, <2>2, <2>5, <2>6, <2>7, SpliceRead
  <2>9. Len(Contents(dq')) = Len(s) + Len(ys)
    BY <2>6 DEF MapP!IsSplice
  <2> DEFINE filling == Len(Contents(dq')) - Len(s) - Len(xs)
  <2>10. filling = c /\ filling >= 0
    BY <1>1, <2>5, <2>9
  <2>11. Contract!SameElement(filling, Default) = fill
    BY <2>10 DEF Contract!SameElement, fill, Copies
  <2>12. Contents(dq') = Contract!Splice(s, at, xs \o Contract!SameElement(filling, Default))
    BY <2>8, <2>11 DEF ys
  <2> HIDE DEF s
  <2>13. \E x \in Object :
           LET f == Len(Contents(dq')) - Len(s) - Len(xs)
           IN  /\ f >= 0
               /\ f < SegmentSize \/ "stable_insert" \in Excepted
               /\ Contents(dq') = Contract!Splice(s, at, xs \o Contract!SameElement(f, x))
    BY <2>4, <2>10, <2>12 DEF NotKept
  <2>14. /\ Contract!BeginsSegment(at)
         /\ \A i \in at + 1 .. index : ~Contract!BeginsSegment(i)
    BY <1>1, <2>2, AtTheBoundary DEF at
  <2> QED
    BY <2>1, <2>2, <2>13, <2>14 DEF Contract!Next, Contract!StableInsert, Contract!Returned, s
<1>3. CASE Throws("stable_insert", index, Len(xs), xs, StableInsertThrew(dq, index, xs, b))
  BY <1>1, <1>3, StableInsertThrewElements, InsertThrewStep
<1> QED
  BY <1>2, <1>3 DEF StableInsertCall

LEMMA EraseStep ==
  ASSUME Divides, ~ShiftMayThrow, SelfMoveKeeps, Inv, NEW index \in Nat, NEW n \in Nat,
         index + n =< SizeOf(dq), EraseCall(index, n)
  PROVE  Contract!Next
<1>1. Good(dq, {}, dq.mem)
  BY DEF Inv
<1>2. ~Throws("erase", index, n, << >>, EraseThrew(dq, index, n))
  BY CallReads DEF EraseThrew
<1>3. Returns("erase", index, n, << >>, {EraseRange(dq, index, n)}, index)
  BY <1>2 DEF EraseCall
<1>4. /\ dq' = EraseRange(dq, index, n) /\ call'.op = "erase" /\ call'.at = index
      /\ call'.n = n /\ call'.out = "ok" /\ call'.ret = index
  BY <1>3, CallReads
<1>5. Good(dq', {}, dq.mem) /\ MapP!IsCut(Contents(dq'), Contents(dq), index, n)
  BY <1>1, <1>4, EraseRangeCuts
<1>6. /\ Contents(dq)' = Contract!Cut(Contents(dq), index, n)
      /\ index \in 0 .. Len(Contents(dq)) - n
  BY <1>1, <1>5, CutRead
<1> QED
  BY <1>4, <1>6 DEF Contract!Next, Contract!Erase, Contract!Returned

LEMMA AssignStep ==
  ASSUME NotKept \subseteq Excepted, Divides, ~ShiftMayThrow, Inv, NEW xs \in Seq(Object), NEW bytes,
         AssignCall(xs, bytes)
  PROVE  Contract!Next
<1>1. /\ Good(dq, {}, dq.mem)
      /\ BeginsInFirstSegment(dq) \/ (~bytes /\ dq.begin = dq.end)
  BY DEF Inv, AssignCall
<1>2. CASE Completes("assign", Len(xs), xs, Assign(dq, xs, bytes))
  <2>1. /\ dq' \in Assign(dq, xs, bytes) /\ call'.op = "assign" /\ call'.xs = xs
        /\ call'.out = "ok"
    BY <1>2, CallReads
  <2>2. Contents(dq)' = xs
    BY <1>1, <2>1, AssignElements
  <2> QED
    BY <2>1, <2>2 DEF Contract!Next, Contract!Assign, Contract!Returned
<1>3. CASE Throws("assign", 0, Len(xs), xs, AssignThrew(dq, xs, bytes))
  <2>1. /\ dq' \in AssignThrew(dq, xs, bytes) /\ call'.op = "assign" /\ call'.xs = xs
        /\ call'.out = "threw"
    BY <1>3, CallReads
  <2>2. \/ dq' = dq
        \/ \E k \in 0 .. Len(xs) - 1 : Contents(dq') = FirstPart(xs, k)
    BY <1>1, <2>1, AssignThrewElements
  <2>3. \/ Contents(dq)' = Contents(dq)
        \/ \E k \in 0 .. Len(xs) - 1 : Contents(dq)' = SubSeq(xs, 1, k)
    BY <2>2 DEF FirstPart
  <2> QED
    BY <2>1, <2>3 DEF Contract!Next, Contract!AssignThrew, Contract!Threw, NotKept
<1> QED
  BY <1>2, <1>3 DEF AssignCall

\* Every call is one that the contract allows.
LEMMA StepImplements ==
  ASSUME NotKept \subseteq Excepted, Divides, ~ShiftMayThrow, SelfMoveKeeps, Inv, [Next]_vars
  PROVE  [Contract!Next]_<<Contents(dq), call>>
<1>1. MaxLen \in Nat /\ MaxSegments * SegmentSize \in Nat /\ MaxRange \in Nat
      /\ SizeOf(dq) \in Nat
  BY BoundsAssumption, BatchAssumption, SegmentAssumption, GoodNumbers DEF Inv
<1>2. ASSUME NEW x \in Values,
             \/ EmplaceFrontCall(x)
             \/ EmplaceBackCall(x)
             \/ \E sz \in 0 .. MaxLen : ResizeFrontCall(sz, x) \/ ResizeBackCall(sz, x)
             \/ \E index \in 0 .. SizeOf(dq) : EmplaceCall(index, x)
      PROVE  Contract!Next
  BY <1>1, <1>2, EmplaceFrontStep, EmplaceBackStep, ResizeFrontStep, ResizeBackStep,
     EmplaceStep
<1>3. CASE PopFrontCall \/ PopBackCall \/ ClearCall
  BY <1>3, RemovalStep
<1>4. CASE ShrinkToFitCall \/ \E n \in 0 .. MaxSegments * SegmentSize :
                                ReserveFrontCall(n) \/ ReserveBackCall(n)
  <2>1. PICK n \in Nat : ReserveFrontCall(n) \/ ReserveBackCall(n) \/ ShrinkToFitCall
    BY <1>1, <1>4
  <2>2. /\ Unmoved(dq, dq') /\ call'.out \in {"ok", "threw"}
        /\ call'.op \in {"reserve_front", "reserve_back", "shrink_to_fit"}
    BY <2>1, MemoryStep
  <2> QED
    BY <2>2, UnmovedStep DEF AtEnds
<1>5. ASSUME NEW index \in 0 .. SizeOf(dq), NEW xs \in Ranges(MaxRange),
             NEW b \in BOOLEAN, InsertCall(index, xs, b) \/ StableInsertCall(index, xs, b)
      PROVE  Contract!Next
  BY <1>1, <1>5, RangesAre, InsertRangeStep, StableInsertStep
<1>6. ASSUME NEW index \in 0 .. SizeOf(dq), NEW n \in 1 .. MaxRange,
             NEW i \in 1 .. SizeOf(dq), InsertAliasedCall(index, n, i)
      PROVE  Contract!Next
  BY <1>1, <1>6, InsertAliasedStep
<1>7. ASSUME NEW index \in 0 .. SizeOf(dq), NEW n \in 0 .. SizeOf(dq),
             index + n =< SizeOf(dq), EraseCall(index, n)
      PROVE  Contract!Next
  BY <1>1, <1>7, EraseStep
<1>8. ASSUME NEW xs \in Ranges(MaxLen), NEW bytes \in BOOLEAN, AssignCall(xs, bytes)
      PROVE  Contract!Next
  BY <1>1, <1>8, RangesAre, AssignStep
<1>9. CASE UNCHANGED vars
  <2>1. Contents(dq)' = Contents(dq) /\ call' = call
    BY <1>9 DEF vars
  <2> QED
    BY <2>1
<1> QED
  BY <1>2, <1>3, <1>4, <1>5, <1>6, <1>7, <1>8, <1>9, Zenon DEF Next

LEMMA InitImplements ==
  ASSUME Divides, Init
  PROVE  Contract!Init
<1>1. Contents(dq) \in Seq(Object)
  BY InitGood, ContentsAre DEF Inv
<1> QED
  BY <1>1 DEF Init, Call, Contract!Init

\* Any sequence of calls has the effects and the iterators that the documentation gives
\* for each member function, and a call that throws has none, for every size of a segment,
\* if moving an element neither throws nor changes it when it is moved onto itself; except
\* that insert, stable_insert and assign may leave a part of their effect, and that
\* stable_insert, which does find the nearest boundary, may fill more than one segment.  Of
\* these three less is proved than documented, since they do not keep it.
THEOREM BatchDequeImplementsContract ==
  ASSUME NotKept \subseteq Excepted, Divides, ~ShiftMayThrow, SelfMoveKeeps
  PROVE  Spec => ImplementsContract
<1>1. Init => Contract!Init
  BY InitImplements
<1>2. Inv /\ [Next]_vars => [Contract!Next]_<<Contents(dq), call>>
  BY StepImplements
<1> QED
  BY <1>1, <1>2, Invariance, PTL DEF Spec, ImplementsContract, Contract!Spec

-----------------------------------------------------------------------------
\* References to the elements

\* The shorter of two sequences is at one end of the other.
LEMMA RunAtAnEnd ==
  ASSUME NEW S, NEW old \in Seq(S), NEW new \in Seq(S),
         NEW m \in Nat, NEW k \in Nat, NEW l \in Nat,
         \A i \in 1 .. m : old[k + i] = new[l + i],
         Len(old) = m \/ Len(new) = m, k + m =< Len(old), l + m =< Len(new),
         (k = 0 /\ l = 0) \/ (k + m = Len(old) /\ l + m = Len(new))
  PROVE  SameAtAnEnd(old, new)
<1>1. SubSeq(old, k + 1, k + m) = SubSeq(new, l + 1, l + m)
  <2> DEFINE p == SubSeq(old, k + 1, k + m)
             q == SubSeq(new, l + 1, l + m)
  <2>1. /\ k \in 0 .. Len(old) /\ k + m \in k .. Len(old) /\ (k + m) - k = m
        /\ l \in 0 .. Len(new) /\ l + m \in l .. Len(new) /\ (l + m) - l = m
    OBVIOUS
  <2>2. /\ p \in Seq(S) /\ Len(p) = (k + m) - k
        /\ \A i \in 1 .. (k + m) - k : p[i] = old[k + i]
    BY <2>1, MapConstants, MapP!Run
  <2>3. /\ q \in Seq(S) /\ Len(q) = (l + m) - l
        /\ \A i \in 1 .. (l + m) - l : q[i] = new[l + i]
    BY <2>1, MapConstants, MapP!Run
  <2> HIDE DEF p, q
  <2>4. Len(p) = Len(q) /\ \A i \in 1 .. Len(p) : p[i] = q[i]
    BY <2>1, <2>2, <2>3
  <2>5. p = q
    BY <2>2, <2>3, <2>4, SeqEqual
  <2> QED
    BY <2>5 DEF p, q
<1>2. Smaller(Len(old), Len(new)) = m
  BY DEF Smaller
<1>3. CASE k = 0 /\ l = 0
  <2>1. 0 + 1 = 1 /\ 0 + m = m
    OBVIOUS
  <2>2. SubSeq(new, 1, m) = SubSeq(old, 1, m)
    BY <1>1, <1>3, <2>1
  <2> QED
    BY <1>2, <2>2 DEF SameAtAnEnd
<1>4. CASE k + m = Len(old) /\ l + m = Len(new)
  <2>1. Len(old) - m + 1 = k + 1 /\ Len(new) - m + 1 = l + 1
        /\ Len(old) = k + m /\ Len(new) = l + m
    BY <1>4
  <2>2. SubSeq(new, Len(new) - m + 1, Len(new)) = SubSeq(old, Len(old) - m + 1, Len(old))
    BY <1>1, <2>1
  <2> QED
    BY <1>2, <2>2 DEF SameAtAnEnd
<1> QED
  BY <1>3, <1>4

LEMMA SharedEnd ==
  ASSUME NEW d, NEW kept, NEW m0, Good(d, kept, m0), NEW e, Good(e, kept, m0), NEW m \in Nat,
         NEW k \in Nat, NEW l \in Nat, \A i \in 1 .. m : SameElement(d, k + i, e, l + i),
         SizeOf(d) = m \/ SizeOf(e) = m, k + m =< SizeOf(d), l + m =< SizeOf(e),
         (k = 0 /\ l = 0) \/ (k + m = SizeOf(d) /\ l + m = SizeOf(e))
  PROVE  SameAtAnEnd(Addresses(d), Addresses(e))
<1> DEFINE old == Addresses(d)
           new == Addresses(e)
           S == {old[i] : i \in DOMAIN old} \cup {new[i] : i \in DOMAIN new}
<1>1. /\ SizeOf(d) \in Nat /\ SizeOf(e) \in Nat
      /\ Len(old) = SizeOf(d) /\ Len(new) = SizeOf(e)
  BY ContentsAre
<1>2. old \in Seq(S) /\ new \in Seq(S)
  <2>1. old \in [1 .. SizeOf(d) -> S] /\ new \in [1 .. SizeOf(e) -> S]
    BY DEF Addresses
  <2> HIDE DEF old, new, S
  <2> QED
    BY <1>1, <2>1
<1>3. \A i \in 1 .. m : old[k + i] = new[l + i]
  BY DEF SameElement
<1> HIDE DEF old, new, S
<1>4. SameAtAnEnd(old, new)
  BY <1>1, <1>2, <1>3, RunAtAnEnd
<1> QED
  BY <1>4 DEF old, new

LEMMA PrefixedStay ==
  ASSUME NEW d, NEW kept, NEW m0, Good(d, kept, m0), NEW e, Good(e, kept, m0),
         NEW xs \in Seq(Object), Prefixed(d, e, xs)
  PROVE  SameAtAnEnd(Addresses(d), Addresses(e))
<1> DEFINE m == SizeOf(d)
           l == Len(xs)
<1>1. /\ m \in Nat /\ l \in Nat /\ 0 \in Nat /\ SizeOf(e) = m + l /\ SizeOf(d) = m
      /\ \A i \in 1 .. m : SameElement(d, i, e, l + i)
  BY GoodNumbers DEF Prefixed
<1> HIDE DEF m, l
<1>2. \A i \in 1 .. m : 0 + i = i
  BY <1>1
<1>3. /\ \A i \in 1 .. m : SameElement(d, 0 + i, e, l + i)
      /\ 0 + m = SizeOf(d) /\ l + m = SizeOf(e) /\ 0 + m =< SizeOf(d) /\ l + m =< SizeOf(e)
  BY <1>1, <1>2
<1> QED
  BY <1>1, <1>3, SharedEnd

LEMMA SuffixedStay ==
  ASSUME NEW d, NEW kept, NEW m0, Good(d, kept, m0), NEW e, Good(e, kept, m0),
         NEW xs \in Seq(Object), Suffixed(d, e, xs)
  PROVE  SameAtAnEnd(Addresses(d), Addresses(e))
<1> DEFINE m == SizeOf(d)
           l == Len(xs)
<1>1. /\ m \in Nat /\ l \in Nat /\ 0 \in Nat /\ SizeOf(e) = m + l /\ SizeOf(d) = m
      /\ \A i \in 1 .. m : SameElement(d, i, e, i)
  BY GoodNumbers DEF Suffixed
<1> HIDE DEF m, l
<1>2. \A i \in 1 .. m : 0 + i = i
  BY <1>1
<1>3. /\ \A i \in 1 .. m : SameElement(d, 0 + i, e, 0 + i)
      /\ 0 + m =< SizeOf(d) /\ 0 + m =< SizeOf(e)
  BY <1>1, <1>2
<1> QED
  BY <1>1, <1>3, SharedEnd

\* What is left of an object that lost elements at one end
LEMMA PartStays ==
  ASSUME NEW d, NEW kept, NEW m0, Good(d, kept, m0), NEW e, Good(e, kept, m0), NEW k \in Nat,
         PartOf(d, e, k), k = SizeOf(d) - SizeOf(e) \/ (k = 0 /\ SizeOf(e) =< SizeOf(d))
  PROVE  SameAtAnEnd(Addresses(d), Addresses(e))
<1> DEFINE m == SizeOf(e)
<1>1. /\ m \in Nat /\ SizeOf(d) \in Nat /\ 0 \in Nat /\ SizeOf(e) = m
      /\ \A i \in 1 .. m : SameElement(d, k + i, e, i)
      /\ k = SizeOf(d) - m \/ (k = 0 /\ m =< SizeOf(d))
  BY GoodNumbers DEF PartOf
<1> HIDE DEF m
<1>2. \A i \in 1 .. m : 0 + i = i
  BY <1>1
<1>3. /\ \A i \in 1 .. m : SameElement(d, k + i, e, 0 + i)
      /\ k + m =< SizeOf(d) /\ 0 + m =< SizeOf(e)
      /\ (k = 0 /\ 0 = 0) \/ (k + m = SizeOf(d) /\ 0 + m = SizeOf(e))
  BY <1>1, <1>2
<1> QED
  BY <1>1, <1>3, SharedEnd

LEMMA UnmovedStay ==
  ASSUME NEW d, NEW e, Unmoved(d, e)
  PROVE  SameAtAnEnd(Addresses(d), Addresses(e))
  BY UnmovedContents DEF SameAtAnEnd

\* What ElementsStay says of a step
Stayed ==
  LET old == Addresses(dq)
      new == Addresses(dq')
  IN  /\ call'.op \in AtEnds => SameAtAnEnd(old, new)
      /\ call'.op = "stable_insert" /\ call'.out = "ok"
           /\ (call'.ret > 0 \/ Len(call'.xs) = 0) =>
           \A i \in DOMAIN old : \E j \in DOMAIN new : new[j] = old[i]

LEMMA StayedAtAnEnd ==
  ASSUME call'.op \in AtEnds, SameAtAnEnd(Addresses(dq), Addresses(dq'))
  PROVE  Stayed
  BY DEF Stayed, AtEnds

LEMMA StayedElsewhere ==
  ASSUME call'.op \in {"clear", "insert", "erase", "assign"}
  PROVE  Stayed
  BY DEF Stayed, AtEnds

LEMMA EmplaceEndsStay ==
  ASSUME Divides, Inv, NEW x \in Values, EmplaceFrontCall(x) \/ EmplaceBackCall(x)
  PROVE  Stayed
<1>1. Good(dq, {}, dq.mem) /\ x \in Object /\ <<x>> \in Seq(Object)
  BY DEF Inv, Object
<1>2. CASE EmplaceFrontCall(x)
  <2>1. \/ dq' \in EmplaceFrontThrew(dq)
        \/ EmplaceFrontOk(dq) /\ dq' = EmplaceFront(dq, x)
    BY <1>2, CallReads DEF EmplaceFrontCall
  <2>2. call'.op \in AtEnds
    BY <1>2, CallReads DEF EmplaceFrontCall, AtEnds
  <2>3. CASE EmplaceFrontOk(dq) /\ dq' = EmplaceFront(dq, x)
    <3>1. Good(dq', {}, dq.mem) /\ Prefixed(dq, dq', <<x>>)
      BY <1>1, <2>3, EmplaceFrontGood, EmplaceFrontPrefixed DEF PushedFront
    <3>2. SameAtAnEnd(Addresses(dq), Addresses(dq'))
      BY <1>1, <3>1, PrefixedStay
    <3> QED
      BY <2>2, <3>2, StayedAtAnEnd
  <2>4. CASE dq' \in EmplaceFrontThrew(dq)
    <3>1. Unmoved(dq, dq')
      BY <1>1, <2>4, EmplaceFrontThrewGood, GrownUnmoved
    <3> QED
      BY <2>2, <3>1, UnmovedStay, StayedAtAnEnd
  <2> QED
    BY <2>1, <2>3, <2>4
<1>3. CASE EmplaceBackCall(x)
  <2>1. \/ dq' \in EmplaceBackThrew(dq)
        \/ EmplaceBackOk(dq) /\ dq' = EmplaceBack(dq, x)
    BY <1>3, CallReads DEF EmplaceBackCall
  <2>2. call'.op \in AtEnds
    BY <1>3, CallReads DEF EmplaceBackCall, AtEnds
  <2>3. CASE EmplaceBackOk(dq) /\ dq' = EmplaceBack(dq, x)
    <3>1. Good(dq', {}, dq.mem) /\ Suffixed(dq, dq', <<x>>)
      BY <1>1, <2>3, EmplaceBackGood, EmplaceBackSuffixed DEF PushedBack
    <3>2. SameAtAnEnd(Addresses(dq), Addresses(dq'))
      BY <1>1, <3>1, SuffixedStay
    <3> QED
      BY <2>2, <3>2, StayedAtAnEnd
  <2>4. CASE dq' \in EmplaceBackThrew(dq)
    <3>1. Unmoved(dq, dq')
      BY <1>1, <2>4, EmplaceBackThrewGood, GrownUnmoved
    <3> QED
      BY <2>2, <3>1, UnmovedStay, StayedAtAnEnd
  <2> QED
    BY <2>1, <2>3, <2>4
<1> QED
  BY <1>2, <1>3

LEMMA ResizeStay ==
  ASSUME Divides, Inv, NEW sz \in Nat, NEW x \in Values,
         ResizeFrontCall(sz, x) \/ ResizeBackCall(sz, x)
  PROVE  Stayed
<1>1. /\ Good(dq, {}, dq.mem) /\ x \in Object /\ SizeOf(dq) \in Nat
  BY ContentsAre DEF Inv, Object
<1>2. sz > SizeOf(dq) => Copies(sz - SizeOf(dq), x) \in Seq(Object)
  <2>1. ASSUME sz > SizeOf(dq) PROVE sz - SizeOf(dq) \in Nat
    BY <1>1, <2>1
  <2> QED
    BY <1>1, <2>1, CopiesAre
<1>3. CASE ResizeFrontCall(sz, x)
  <2>1. \/ dq' \in ResizeFront(dq, sz, x)
        \/ sz > SizeOf(dq) /\ dq' \in ResizeFrontThrew(dq, sz, x)
    BY <1>3, CallReads DEF ResizeFrontCall
  <2>2. call'.op \in AtEnds
    BY <1>3, CallReads DEF ResizeFrontCall, AtEnds
  <2>3. CASE dq' \in ResizeFront(dq, sz, x)
    <3>1. /\ Good(dq', {}, dq.mem)
          /\ sz > SizeOf(dq) => Prefixed(dq, dq', Copies(sz - SizeOf(dq), x))
          /\ ~(sz > SizeOf(dq)) => SizeOf(dq') = sz /\ PartOf(dq, dq', SizeOf(dq) - sz)
      BY <1>1, <2>3, ResizeFrontElements
    <3>2. CASE sz > SizeOf(dq)
      BY <1>1, <1>2, <2>2, <3>1, <3>2, PrefixedStay, StayedAtAnEnd
    <3>3. CASE ~(sz > SizeOf(dq))
      <4>1. SizeOf(dq) - sz \in Nat /\ SizeOf(dq) - sz = SizeOf(dq) - SizeOf(dq')
        BY <1>1, <3>1, <3>3
      <4>2. SameAtAnEnd(Addresses(dq), Addresses(dq'))
        BY <1>1, <3>1, <3>3, <4>1, PartStays
      <4> QED
        BY <2>2, <4>2, StayedAtAnEnd
    <3> QED
      BY <3>2, <3>3
  <2>4. CASE sz > SizeOf(dq) /\ dq' \in ResizeFrontThrew(dq, sz, x)
    <3>1. Unmoved(dq, dq')
      BY <1>1, <2>4, ResizeFrontThrewUnmoved
    <3> QED
      BY <2>2, <3>1, UnmovedStay, StayedAtAnEnd
  <2> QED
    BY <2>1, <2>3, <2>4
<1>4. CASE ResizeBackCall(sz, x)
  <2>1. \/ dq' \in ResizeBack(dq, sz, x)
        \/ sz > SizeOf(dq) /\ dq' \in ResizeBackThrew(dq, sz, x)
    BY <1>4, CallReads DEF ResizeBackCall
  <2>2. call'.op \in AtEnds
    BY <1>4, CallReads DEF ResizeBackCall, AtEnds
  <2>3. CASE dq' \in ResizeBack(dq, sz, x)
    <3>1. /\ Good(dq', {}, dq.mem)
          /\ sz > SizeOf(dq) => Suffixed(dq, dq', Copies(sz - SizeOf(dq), x))
          /\ ~(sz > SizeOf(dq)) => SizeOf(dq') = sz /\ PartOf(dq, dq', 0)
      BY <1>1, <2>3, ResizeBackElements
    <3>2. CASE sz > SizeOf(dq)
      BY <1>1, <1>2, <2>2, <3>1, <3>2, SuffixedStay, StayedAtAnEnd
    <3>3. CASE ~(sz > SizeOf(dq))
      <4>1. 0 \in Nat /\ SizeOf(dq') =< SizeOf(dq) /\ PartOf(dq, dq', 0)
        BY <1>1, <3>1, <3>3
      <4>2. SameAtAnEnd(Addresses(dq), Addresses(dq'))
        BY <1>1, <3>1, <4>1, PartStays
      <4> QED
        BY <2>2, <4>2, StayedAtAnEnd
    <3> QED
      BY <3>2, <3>3
  <2>4. CASE sz > SizeOf(dq) /\ dq' \in ResizeBackThrew(dq, sz, x)
    <3>1. Unmoved(dq, dq')
      BY <1>1, <2>4, ResizeBackThrewUnmoved
    <3> QED
      BY <2>2, <3>1, UnmovedStay, StayedAtAnEnd
  <2> QED
    BY <2>1, <2>3, <2>4
<1> QED
  BY <1>3, <1>4

LEMMA PopsStay ==
  ASSUME Inv, PopFrontCall \/ PopBackCall
  PROVE  Stayed
<1>1. Good(dq, {}, dq.mem) /\ SizeOf(dq) \in Nat /\ 0 \in Nat /\ 1 \in Nat
  BY ContentsAre DEF Inv
<1>2. CASE PopFrontCall
  <2>1. dq' = PopFront(dq) /\ call'.op \in AtEnds /\ dq.begin # dq.end
    BY <1>2, CallReads DEF PopFrontCall, AtEnds
  <2>2. Good(dq', {}, dq.mem) /\ SizeOf(dq') = SizeOf(dq) - 1 /\ PartOf(dq, dq', 1)
    BY <1>1, <2>1, PopFrontElements
  <2>3. 1 = SizeOf(dq) - SizeOf(dq')
    BY <1>1, <2>2
  <2>4. SameAtAnEnd(Addresses(dq), Addresses(dq'))
    BY <1>1, <2>2, <2>3, PartStays
  <2> QED
    BY <2>1, <2>4, StayedAtAnEnd
<1>3. CASE PopBackCall
  <2>1. dq' = PopBack(dq) /\ call'.op \in AtEnds /\ dq.begin # dq.end
    BY <1>3, CallReads DEF PopBackCall, AtEnds
  <2>2. Good(dq', {}, dq.mem) /\ SizeOf(dq') = SizeOf(dq) - 1 /\ PartOf(dq, dq', 0)
    BY <1>1, <2>1, PopBackElements
  <2>3. SizeOf(dq') =< SizeOf(dq)
    BY <1>1, <2>2
  <2>4. SameAtAnEnd(Addresses(dq), Addresses(dq'))
    BY <1>1, <2>2, <2>3, PartStays
  <2> QED
    BY <2>1, <2>4, StayedAtAnEnd
<1> QED
  BY <1>2, <1>3

LEMMA StableInsertStays ==
  ASSUME Divides, Inv, NEW index \in 0 .. SizeOf(dq), NEW xs \in Seq(Object), NEW b,
         StableInsertCall(index, xs, b)
  PROVE  Stayed
<1>1. Good(dq, {}, dq.mem)
  BY DEF Inv
<1>2. call'.op = "stable_insert" /\ call'.op \notin AtEnds
  BY CallReads DEF StableInsertCall, AtEnds
<1>3. CASE Returns("stable_insert", index, Len(xs), xs, StableInsert(dq, index, xs, b),
                   StablePosition(dq, index))
  <2>1. /\ dq' \in StableInsert(dq, index, xs, b) /\ call'.xs = xs
        /\ call'.ret = StablePosition(dq, index)
    BY <1>3, CallReads
  <2>2. /\ Good(dq', {}, dq.mem)
        /\ StablePosition(dq, index) > 0 \/ Len(xs) = 0 => AllStay(dq, dq')
    BY <1>1, <2>1, StableInsertElements
  <2>3. ASSUME call'.ret > 0 \/ Len(call'.xs) = 0
        PROVE  \A i \in DOMAIN Addresses(dq) : \E j \in DOMAIN Addresses(dq') :
                 Addresses(dq')[j] = Addresses(dq)[i]
    <3>1. AllStay(dq, dq')
      BY <2>1, <2>2, <2>3
    <3>2. /\ DOMAIN Addresses(dq) = 1 .. SizeOf(dq)
          /\ DOMAIN Addresses(dq') = 1 .. SizeOf(dq')
      BY DEF Addresses
    <3> QED
      BY <3>1, <3>2 DEF AllStay, SameElement
  <2> QED
    BY <1>2, <2>3 DEF Stayed
<1>4. CASE Throws("stable_insert", index, Len(xs), xs, StableInsertThrew(dq, index, xs, b))
  <2>1. call'.out = "threw"
    BY <1>4, CallReads
  <2> QED
    BY <1>2, <2>1 DEF Stayed
<1> QED
  BY <1>3, <1>4 DEF StableInsertCall

LEMMA NextStays ==
  ASSUME Divides, Inv, Next
  PROVE  Stayed
<1>1. MaxLen \in Nat /\ MaxSegments * SegmentSize \in Nat /\ MaxRange \in Nat
      /\ SizeOf(dq) \in Nat
  BY BoundsAssumption, BatchAssumption, SegmentAssumption, GoodNumbers DEF Inv
<1>2. ASSUME NEW x \in Values,
             \/ EmplaceFrontCall(x)
             \/ EmplaceBackCall(x)
             \/ \E sz \in 0 .. MaxLen : ResizeFrontCall(sz, x) \/ ResizeBackCall(sz, x)
      PROVE  Stayed
  BY <1>1, <1>2, EmplaceEndsStay, ResizeStay
<1>3. CASE \/ ClearCall
           \/ \E index \in 0 .. SizeOf(dq), x \in Values : EmplaceCall(index, x)
           \/ \E index \in 0 .. SizeOf(dq), xs \in Ranges(MaxRange), b \in BOOLEAN :
                InsertCall(index, xs, b)
           \/ \E index \in 0 .. SizeOf(dq), n \in 1 .. MaxRange, i \in 1 .. SizeOf(dq) :
                InsertAliasedCall(index, n, i)
           \/ \E index \in 0 .. SizeOf(dq), n \in 0 .. SizeOf(dq) : EraseCall(index, n)
           \/ \E xs \in Ranges(MaxLen), bytes \in BOOLEAN : AssignCall(xs, bytes)
  <2>1. call'.op \in {"clear", "insert", "erase", "assign"}
    BY <1>3, CallReads
       DEF ClearCall, EmplaceCall, InsertCall, InsertAliasedCall, EraseCall, AssignCall
  <2> QED
    BY <2>1, StayedElsewhere
<1>4. CASE PopFrontCall \/ PopBackCall
  BY <1>4, PopsStay
<1>5. CASE ShrinkToFitCall \/ \E n \in 0 .. MaxSegments * SegmentSize :
                                ReserveFrontCall(n) \/ ReserveBackCall(n)
  <2>1. PICK n \in Nat : ReserveFrontCall(n) \/ ReserveBackCall(n) \/ ShrinkToFitCall
    BY <1>1, <1>5
  <2>2. Unmoved(dq, dq') /\ call'.op \in AtEnds
    BY <2>1, MemoryStep DEF AtEnds
  <2> QED
    BY <2>2, UnmovedStay, StayedAtAnEnd
<1>6. ASSUME NEW index \in 0 .. SizeOf(dq), NEW xs \in Ranges(MaxRange),
             NEW b \in BOOLEAN, StableInsertCall(index, xs, b)
      PROVE  Stayed
  BY <1>1, <1>6, RangesAre, StableInsertStays
<1> QED
  BY <1>2, <1>3, <1>4, <1>5, <1>6, Zenon DEF Next

\* References to the elements stay valid in calls at the ends, those that throw
\* included, and in a stable_insert that puts whole segments between two others,
\* whatever the size of a segment and whatever throws.
THEOREM ElementsStayInPlace ==
  ASSUME Divides
  PROVE  Spec => ElementsStay
<1>1. Inv /\ [Next]_vars => [Stayed]_vars
  BY NextStays
<1> QED
  BY <1>1, Invariance, PTL DEF Spec, ElementsStay, Stayed

=============================================================================
