-------------------------- MODULE BatchDequePairProofs --------------------------
(***************************************************************************)
(* Two batch_deques that are copied, moved, swapped and constructed from   *)
(* each other, of any segment size and number of segments, with equal or   *)
(* unequal allocators: both stay well formed, their contents change as     *)
(* PairContract says, and each segment goes back to the allocator it came  *)
(* from.                                                                   *)
(*                                                                         *)
(* The inductive invariant is PairInv: both are in the good state (Shapes) *)
(* and the rest has its type.  Owners, that the segments of each are from  *)
(* its allocator, rests on it, for a caller that avoids the hazards.       *)
(*                                                                         *)
(* Then the constructors of one batch_deque, step by step                  *)
(* (BatchDequeConstruct).  ConstructInv says for every step which cells    *)
(* hold an element, and which segments there are.                          *)
(*                                                                         *)
(* At the end, a batch_deque that is saved and loaded                      *)
(* (BatchDequeSerialization).  SerialInv says that it is in the good state *)
(* and what is in the archive.  The segment iterators' pieces are the      *)
(* elements, in order (PiecesAre), so what is saved are the contents.      *)
(***************************************************************************)
EXTENDS BatchDequePair, BatchDequeConstruct, BatchDequeSerialization,
        BatchDequeElementsProofs, SequenceTheorems

-----------------------------------------------------------------------------
\* One batch_deque

\* In the good state; it shares its segments with no other one.
Well(d) == Good(d, {}, {})

\* The elements are objects, each in a cell of its own.
LEMMA WellContents ==
  ASSUME NEW d, Well(d)
  PROVE  Contents(d) \in Seq(Object) /\ d \in DequeType /\ d.allocated \subseteq Segments
<1>1. Contents(d) \in Seq(Object)
  BY ContentsAre DEF Well
<1>2. d \in DequeType
  BY DEF Well, Good, Shaped
<1> QED
  BY <1>1, <1>2 DEF DequeType

\* The default constructed one has no segments.
LEMMA EmptyWell ==
  ASSUME Divides
  PROVE  LET e == Constructed(<< >>)
         IN  Well(e) /\ Contents(e) = << >> /\ e.allocated = {} /\ Assignable(e)
<1> DEFINE e == Constructed(<< >>)
<1>1. << >> \in Seq(Object) /\ Len(<< >>) = 0
  OBVIOUS
<1>2. SegmentCount(0) = 0
  <2> DEFINE k == SegmentCount(0)
  <2>1. k \in Nat /\ k * SegmentSize < 0 + SegmentSize
    BY SegmentCountIs
  <2>2. \A j \in Nat : j > 0 => j * SegmentSize >= SegmentSize
    BY SegmentAssumption
  <2> HIDE DEF k
  <2>3. k = 0
    BY <2>1, <2>2, SegmentAssumption
  <2> QED
    BY <2>3 DEF k
<1>3. Well(e) /\ Contents(e) = << >>
  <2>1. SegmentCount(Len(<< >>)) =< MaxSegments
    BY <1>1, <1>2, BatchAssumption
  <2> QED
    BY <1>1, <2>1, ConstructedGood DEF Well
<1>4. e.allocated = 1 .. SegmentCount(0 + 0) /\ e.begin = It(0, 0) /\ e.map.front = 0
  BY <1>1 DEF Constructed, Built, Map!Reserved
<1>5. e.allocated = {}
  BY <1>2, <1>4
<1>6. Assignable(e)
  BY <1>4 DEF Assignable, BeginsInFirstSegment, It
<1> QED
  BY <1>3, <1>5, <1>6

\* The copy constructor has room for the elements.
LEMMA CopyConstructedWell ==
  ASSUME Divides, NEW d, Well(d)
  PROVE  Well(CopyConstructed(d)) /\ Contents(CopyConstructed(d)) = Contents(d)
<1> DEFINE xs == Contents(d)
           index == d.begin.index
           c == Map!SizeOf(d.map)
           k == SegmentCount(index + Len(xs))
           lo == d.map.front
           x == d.begin.at
           hi == d.map.back
<1>1. /\ xs \in Seq(Object) /\ Len(xs) = Past(d) - First(d) /\ Len(xs) \in Nat
      /\ First(d) \in Int /\ Past(d) \in Int
  BY ContentsAre DEF Well
<1>2. /\ Shaped(d) /\ Owned(d, {}) /\ c = hi - lo /\ lo \in Nat /\ hi \in Nat
      /\ lo =< hi /\ hi =< MapMax /\ MapMax \in Nat
  <2>1. Shaped(d) /\ Owned(d, {})
    BY DEF Well, Good
  <2> QED
    BY <2>1, ShapedNumbers DEF Map!SizeOf
<1>3. c =< MaxSegments /\ MaxSegments \in Nat
  BY <1>2, SegmentsFit, BatchAssumption DEF Map!SizeOf
<1>4. /\ index \in Indices /\ index \in Nat /\ x \in Nat /\ lo =< x
      /\ First(d) = x * SegmentSize + index /\ Past(d) =< hi * SegmentSize
      /\ SegmentSize \in Nat /\ SegmentSize > 0
  <2>1. d \in DequeType /\ d.begin \in Iterators
    BY <1>2, ShapedNumbers DEF Shaped
  <2>2. index \in Indices /\ x \in 0 .. MapMax /\ SegmentSize \in Nat /\ SegmentSize > 0
    BY <2>1, SegmentAssumption DEF DequeType
  <2>3. index \in Nat /\ x \in Nat
    BY <1>2, <2>2 DEF Indices
  <2>4. lo =< x
    <3>1. /\ MapGood(d.map) /\ Position(d.begin) = First(d)
          /\ d.map.front * SegmentSize =< First(d) /\ First(d) =< d.map.back * SegmentSize
      <4>1. d.map.front * SegmentSize \in Int /\ d.map.back * SegmentSize \in Int
        BY <1>2, ShapedNumbers
      <4> QED
        BY <1>1, <1>2, <4>1 DEF Shaped, Bounded, First
    <3> QED
      BY <2>1, <3>1, InMap
  <2> QED
    BY <1>2, <2>2, <2>3, <2>4 DEF First, Position, Shaped, Bounded
<1> HIDE DEF xs, index, lo, x, hi
<1>5. k \in Nat /\ k * SegmentSize < index + Len(xs) + SegmentSize
  <2>1. index + Len(xs) \in Nat
    BY <1>1, <1>4
  <2> QED
    BY <2>1, SegmentCountIs
<1>6. k =< c
  <2> HIDE DEF k
  <2>1. /\ (hi - x) * SegmentSize = hi * SegmentSize - x * SegmentSize
        /\ hi * SegmentSize \in Int /\ x * SegmentSize \in Int
    BY <1>2, <1>4, Distribute
  <2>2. k * SegmentSize < (hi - x + 1) * SegmentSize
    <3>1. (hi - x + 1) * SegmentSize = (hi - x) * SegmentSize + SegmentSize
      BY <1>2, <1>4
    <3>2. k * SegmentSize \in Int /\ (hi - x) * SegmentSize \in Int
      BY <1>2, <1>4, <1>5
    <3> DEFINE y == x * SegmentSize
               z == hi * SegmentSize
               q == k * SegmentSize
               r == (hi - x) * SegmentSize
               n == Len(xs)
    <3>3. /\ r = z - y /\ y \in Int /\ z \in Int /\ q \in Int /\ r \in Int
          /\ First(d) = y + index /\ Past(d) =< z /\ q < index + n + SegmentSize
          /\ n = Past(d) - First(d) /\ n \in Nat /\ Past(d) \in Int
      BY <1>1, <1>4, <1>5, <2>1, <3>2
    <3> HIDE DEF y, z, q, r, n
    <3>4. index + n =< r
      BY <1>4, <3>3
    <3>5. q < r + SegmentSize
      BY <1>4, <3>3, <3>4
    <3> QED
      BY <3>1, <3>5 DEF q, r
  <2>3. k < hi - x + 1
    <3>1. ASSUME k >= hi - x + 1 PROVE FALSE
      <4>1. hi - x + 1 \in Int /\ k \in Int /\ 0 \in Indices
        BY <1>2, <1>4, <1>5 DEF Indices
      <4>2. k * SegmentSize >= (hi - x + 1) * SegmentSize
        BY <1>4, <3>1, <4>1
      <4> QED
        BY <1>4, <2>2, <4>1, <4>2
    <3> QED
      BY <1>2, <1>4, <1>5, <3>1
  <2> QED
    BY <1>2, <1>4, <1>5, <2>3
<1>7. k =< MaxSegments /\ c \in Nat /\ c =< MapMax
  <2> HIDE DEF k
  <2> QED
    BY <1>2, <1>3, <1>5, <1>6
<1>8. Good(Built(c, index, xs), {}, {}) /\ Contents(Built(c, index, xs)) = xs
  <2> HIDE DEF c
  <2> QED
    BY <1>1, <1>4, <1>6, <1>7, BuiltGood
<1> QED
  BY <1>8 DEF CopyConstructed, Well, xs, index

\* What assign, with the elements of another one, leaves
LEMMA AssignWell ==
  ASSUME Divides, NEW d, Well(d), Assignable(d), NEW xs \in Seq(Object)
  PROVE  /\ \A e \in Assign(d, xs, FALSE) : Well(e) /\ Contents(e) = xs
         /\ \A e \in AssignThrew(d, xs, FALSE) : Well(e)
<1>1. BeginsInFirstSegment(d) \/ (~FALSE /\ d.begin = d.end)
  BY DEF Assignable
<1>2. Good(d, {}, {})
  BY DEF Well
<1> QED
  BY <1>1, <1>2, AssignElements, AssignThrewGood DEF Well

\* The objects that were moved from are still there, in the same segments.
LEMMA MovedFromWell ==
  ASSUME NEW d, Well(d)
  PROVE  Well(MovedFrom(d)) /\ MovedFrom(d).allocated = d.allocated
<1> DEFINE f == [p \in First(d) .. Past(d) - 1 |-> Unspec]
<1>1. Good(d, {}, {}) /\ Shaped(d) /\ Owned(d, {}) /\ First(d) \in Int /\ Past(d) \in Int
  BY GoodNumbers DEF Well, Good
<1>2. \A p \in DOMAIN f : p \in Int /\ First(d) =< p /\ p < Past(d) /\ f[p] \in Object
  BY <1>1 DEF Object
<1>3. \A p \in DOMAIN f : f[p] \in Slot
  BY <1>2 DEF Slot
<1>4. MovedFrom(d) = Store(d, f)
  BY DEF MovedFrom
<1> HIDE DEF f
<1>5. Rearranged(d, Store(d, f), {}, {})
  BY <1>1, <1>2, RearrangedGood
<1>6. Store(d, f).allocated = d.allocated
  BY <1>1, <1>3, StoreIs
<1> QED
  BY <1>4, <1>5, <1>6 DEF Rearranged, Well

\* The operations on one of them
LEMMA EditWell ==
  ASSUME Divides, NEW o \in Names, Well(obj[o]), NEW e \in Edits(o)
  PROVE  Well(e)
<1> DEFINE d == obj[o]
<1>0. Good(d, {}, {})
  BY DEF Well
<1>1. \/ \E x \in Values : EmplaceFrontOk(d) /\ e = EmplaceFront(d, x)
      \/ \E x \in Values : EmplaceBackOk(d) /\ e = EmplaceBack(d, x)
      \/ d.begin # d.end /\ e \in {PopFront(d), PopBack(d)}
      \/ e = Clear(d)
  BY DEF Edits
<1> HIDE DEF d
<1>2. ASSUME NEW x \in Values, EmplaceFrontOk(d), e = EmplaceFront(d, x) PROVE Well(e)
  BY <1>0, <1>2, EmplaceFrontGood DEF Object, PushedFront, Well
<1>3. ASSUME NEW x \in Values, EmplaceBackOk(d), e = EmplaceBack(d, x) PROVE Well(e)
  BY <1>0, <1>3, EmplaceBackGood DEF Object, PushedBack, Well
<1>4. ASSUME d.begin # d.end, e \in {PopFront(d), PopBack(d)} PROVE Well(e)
  BY <1>0, <1>4, PopFrontGood, PopBackGood DEF MovedTo, Well
<1>5. ASSUME e = Clear(d) PROVE Well(e)
  BY <1>0, <1>5, ClearGood DEF MovedTo, Well
<1> QED
  BY <1>1, <1>2, <1>3, <1>4, <1>5

-----------------------------------------------------------------------------
\* The shapes of both

\* Both are in the good state.
Shapes ==
  /\ obj = [o \in Names |-> obj[o]]
  /\ \A o \in Names : Well(obj[o])

\* The allocators are allocators, and the segments came from some of them.
Typed ==
  /\ propagates \in BOOLEAN
  /\ alloc \in [Names -> Allocators]
  /\ source \in [Names -> [Segments -> Allocators \cup {Free}]]

\* The inductive invariant
PairInv == Shapes /\ Typed

\* One of them becomes d, the other one stays.
LEMMA OneShape ==
  ASSUME Shapes, NEW o \in Names, NEW d, Well(d), obj' = [obj EXCEPT ![o] = d]
  PROVE  Shapes' /\ obj'[o] = d /\ \A n \in Names \ {o} : obj'[n] = obj[n]
  BY DEF Shapes

\* Two different ones get new shapes.
LEMMA TwoShapes ==
  ASSUME Shapes, NEW o \in Names, NEW p \in Names, o # p, NEW d, NEW e, Well(d), Well(e),
         obj' = [obj EXCEPT ![o] = d, ![p] = e]
  PROVE  Shapes' /\ obj'[o] = d /\ obj'[p] = e
  BY DEF Shapes

\* The names are two.
LEMMA TheOther ==
  ASSUME NEW o \in Names, NEW p \in Names, o # p, NEW n \in Names
  PROVE  n = o \/ n = p
  BY DEF Names

\* What the segments come from after o became d
LEMMA SourceOfTyped ==
  ASSUME Typed, NEW o \in Names, NEW d, NEW al \in Allocators
  PROVE  /\ SourceOf(o, d, al) \in [Segments -> Allocators \cup {Free}]
         /\ \A s \in Segments \cap d.allocated :
              SourceOf(o, d, al)[s] = IF s \in obj[o].allocated THEN source[o][s] ELSE al
  BY DEF SourceOf, Typed

\* What they come from after it was constructed
NewSource(d, al) == [s \in Segments |-> IF s \in d.allocated THEN al ELSE Free]

LEMMA NewSourceTyped ==
  ASSUME NEW d, NEW al \in Allocators
  PROVE  /\ NewSource(d, al) \in [Segments -> Allocators \cup {Free}]
         /\ NoSource \in [Segments -> Allocators \cup {Free}]
         /\ \A s \in Segments \cap d.allocated : NewSource(d, al)[s] = al
  BY DEF NewSource, NoSource

-----------------------------------------------------------------------------
\* What each call does to the two

\* Copy assignment: the elements are those of `from`, or it threw.
LEMMA CopyAssigned ==
  ASSUME Divides, Shapes, NEW o \in Names, NEW p \in Names, CopyAssign(o, p)
  PROVE  \E e : /\ Well(e) /\ Become(o, e, alloc'[o])
               /\ \/ call'.out = "ok" /\ Contents(e) = Contents(obj[p])
                  \/ call'.out = "threw"
<1> DEFINE xs == Contents(obj[p])
           d  == ClearedFor(o, p)
<1>1. Well(obj[o]) /\ Well(obj[p]) /\ xs \in Seq(Object)
  BY WellContents DEF Shapes
<1>2. Well(d) /\ Assignable(d)
  <2>1. Well(Clear(obj[o]))
    BY <1>1, ClearGood DEF Well, MovedTo
  <2> QED
    BY <1>1, <2>1 DEF ClearedFor, CopyAssign
<1>3. \/ \E e \in Assign(d, xs, FALSE) : Become(o, e, alloc'[o]) /\ call'.out = "ok"
      \/ \E e \in AssignThrew(d, xs, FALSE) : Become(o, e, alloc'[o]) /\ call'.out = "threw"
  <2>1. \/ /\ \E e \in Assign(d, xs, FALSE) : Become(o, e, alloc'[o])
           /\ Is("copy", o, p, "ok")
        \/ /\ \E e \in AssignThrew(d, xs, FALSE) : Become(o, e, alloc'[o])
           /\ Is("copy", o, p, "threw")
    BY DEF CopyAssign
  <2> HIDE DEF d, xs
  <2>2. /\ Is("copy", o, p, "ok") => call'.out = "ok"
        /\ Is("copy", o, p, "threw") => call'.out = "threw"
    BY DEF Is
  <2> QED
    BY <2>1, <2>2, Zenon
<1> HIDE DEF d, xs
<1>4. /\ \A e \in Assign(d, xs, FALSE) : Well(e) /\ Contents(e) = xs
      /\ \A e \in AssignThrew(d, xs, FALSE) : Well(e)
  BY <1>1, <1>2, AssignWell
<1> QED
  BY <1>3, <1>4 DEF xs

\* Two different ones exchange their segments; one does so with itself.
LEMMA Exchanges ==
  ASSUME Shapes, NEW o \in Names, NEW p \in Names, ExchangeSegments(o, p)
  PROVE  /\ Shapes' /\ obj'[o] = obj[p] /\ obj'[p] = obj[o]
         /\ \A n \in Names \ {o, p} : obj'[n] = obj[n]
  BY DEF Shapes, ExchangeSegments, Exchanged

\* Move assignment, element by element
LEMMA ElementsMoved ==
  ASSUME Divides, Shapes, NEW o \in Names, NEW p \in Names, MoveAssignElements(o, p)
  PROVE  /\ o # p
         /\ \E e : /\ Well(e) /\ Contents(e) = Contents(obj[p])
                  /\ obj' = [obj EXCEPT ![o] = e, ![p] = MovedFrom(obj[p])]
                  /\ source' = [source EXCEPT ![o] = SourceOf(o, e, alloc[o])]
<1> DEFINE xs == Contents(obj[p])
<1>1. o # p /\ Assignable(obj[o])
  BY DEF MoveAssignElements, CanSteal
<1>2. Well(obj[o]) /\ xs \in Seq(Object)
  BY WellContents DEF Shapes
<1>3. PICK e \in Assign(obj[o], xs, FALSE) :
        /\ obj' = [obj EXCEPT ![o] = e, ![p] = MovedFrom(@)]
        /\ source' = [source EXCEPT ![o] = SourceOf(o, e, alloc[o])]
  BY DEF MoveAssignElements
<1>4. obj' = [obj EXCEPT ![o] = e, ![p] = MovedFrom(obj[p])]
  BY <1>1, <1>3
<1> HIDE DEF xs
<1>5. Well(e) /\ Contents(e) = xs
  BY <1>1, <1>2, AssignWell
<1> QED
  BY <1>1, <1>3, <1>4, <1>5 DEF xs

\* Move construction with an allocator that is not equal: o becomes e.
MovedOneByOne(o, p, al, e) ==
  /\ Well(e) /\ Contents(e) = Contents(obj[p])
  /\ obj' = [obj EXCEPT ![o] = e, ![p] = MovedFrom(obj[p])]
  /\ source' = [source EXCEPT ![o] = NewSource(e, al)]

LEMMA UnequalConstructed ==
  ASSUME Divides, Shapes, NEW o \in Names, NEW p \in Names, NEW al,
         MoveConstructUnequal(o, p, al)
  PROVE  \E e : MovedOneByOne(o, p, al, e)
<1> DEFINE xs == Contents(obj[p])
           d == Constructed(<< >>)
<1>1. PICK e \in Assign(d, xs, FALSE) :
        /\ obj' = [obj EXCEPT ![o] = e, ![p] = MovedFrom(@)]
        /\ source' = [source EXCEPT ![o] = NewSource(e, al)]
  BY DEF MoveConstructUnequal, NewSource
<1>2. o # p
  BY DEF MoveConstructUnequal
<1>3. obj' = [obj EXCEPT ![o] = e, ![p] = MovedFrom(obj[p])]
  BY <1>1, <1>2
<1>4. xs \in Seq(Object) /\ Well(d) /\ Assignable(d)
  BY WellContents, EmptyWell DEF Shapes
<1> HIDE DEF xs, d
<1>5. Well(e) /\ Contents(e) = xs
  BY <1>4, AssignWell
<1> QED
  BY <1>1, <1>3, <1>5 DEF xs, MovedOneByOne

-----------------------------------------------------------------------------
\* The invariant and the allocators

\* Each segment is from the allocator of its batch_deque.
Owners == \A o \in Names : \A s \in obj[o].allocated : source[o][s] = alloc[o]

\* What was returned came from where it went.
ReturnedRight == \A r \in returned' : r[1] = r[2]

\* The caller avoids the operations that mix unequal allocators.
SameAllocator == Hazards \subseteq Avoided

\* o becomes d, with an allocator equal to its own or without segments of its own; the other
\* one stays.
LEMMA Became ==
  ASSUME PairInv, NEW o \in Names, NEW d, Well(d), Become(o, d, alloc'[o]),
         alloc' \in [Names -> Allocators], UNCHANGED propagates,
         \A n \in Names \ {o} : alloc'[n] = alloc[n]
  PROVE  /\ PairInv'
         /\ Owners /\ (alloc'[o] = alloc[o] \/ obj[o].allocated = {})
              => Owners' /\ ReturnedRight
<1> DEFINE al == alloc'[o]
           f == SourceOf(o, d, al)
<1>1. /\ obj' = [obj EXCEPT ![o] = d] /\ source' = [source EXCEPT ![o] = f]
      /\ returned' = {<<source[o][s], al>> : s \in obj[o].allocated \ d.allocated}
  BY DEF Become
<1>2. Shapes' /\ obj'[o] = d /\ \A n \in Names \ {o} : obj'[n] = obj[n]
  BY <1>1, OneShape DEF PairInv
<1>3. al \in Allocators /\ d.allocated \subseteq Segments
  BY WellContents
<1> HIDE DEF al, f
<1>4. /\ f \in [Segments -> Allocators \cup {Free}]
      /\ \A s \in Segments \cap d.allocated :
           f[s] = IF s \in obj[o].allocated THEN source[o][s] ELSE al
  BY <1>3, SourceOfTyped DEF PairInv, f
<1>5. source' \in [Names -> [Segments -> Allocators \cup {Free}]]
      /\ source'[o] = f /\ \A n \in Names \ {o} : source'[n] = source[n]
  BY <1>1, <1>4 DEF PairInv, Typed
<1>6. PairInv'
  BY <1>2, <1>5 DEF PairInv, Typed
<1>7. ASSUME Owners, al = alloc[o] \/ obj[o].allocated = {}
      PROVE  Owners' /\ ReturnedRight
  <2>1. \A s \in d.allocated : source'[o][s] = al
    BY <1>3, <1>4, <1>5, <1>7 DEF Owners
  <2>2. Owners'
    BY <1>2, <1>5, <1>7, <2>1 DEF Owners, al
  <2>3. ReturnedRight
    BY <1>1, <1>7 DEF Owners, ReturnedRight
  <2> QED
    BY <2>2, <2>3
<1> QED
  BY <1>6, <1>7 DEF al

\* Two different ones get new shapes, with segments from elsewhere.
BothBecome(o, p, d, e, f, g) ==
  /\ o # p /\ Well(d) /\ Well(e)
  /\ obj' = [obj EXCEPT ![o] = d, ![p] = e]
  /\ source' = [source EXCEPT ![o] = f, ![p] = g]
  /\ {f, g} \subseteq [Segments -> Allocators \cup {Free}]

LEMMA BothBecame ==
  ASSUME PairInv, UNCHANGED propagates, alloc' \in [Names -> Allocators],
         NEW o \in Names, NEW p \in Names, NEW d, NEW e, NEW f, NEW g,
         BothBecome(o, p, d, e, f, g)
  PROVE  /\ PairInv'
         /\ obj'[o] = d /\ obj'[p] = e
         /\ ((\A s \in d.allocated : f[s] = alloc'[o]) /\
             (\A s \in e.allocated : g[s] = alloc'[p])) => Owners'
<1>1. Shapes' /\ obj'[o] = d /\ obj'[p] = e
  BY TwoShapes DEF PairInv, BothBecome
<1>2. source' \in [Names -> [Segments -> Allocators \cup {Free}]]
      /\ source'[o] = f /\ source'[p] = g
  BY DEF PairInv, Typed, BothBecome
<1>3. PairInv'
  BY <1>1, <1>2 DEF PairInv, Typed
<1>4. ASSUME \A s \in d.allocated : f[s] = alloc'[o], \A s \in e.allocated : g[s] = alloc'[p],
             NEW n \in Names, NEW s \in obj'[n].allocated
      PROVE  source'[n][s] = alloc'[n]
  <2>1. CASE n = o
    BY <1>1, <1>2, <1>4, <2>1 DEF BothBecome
  <2>2. CASE n = p
    BY <1>1, <1>2, <1>4, <2>2
  <2> QED
    BY <2>1, <2>2, TheOther DEF BothBecome
<1> QED
  BY <1>1, <1>3, <1>4 DEF Owners

\* Two batch_deques exchange their segments.
LEMMA ExchangeKept ==
  ASSUME PairInv, UNCHANGED propagates, alloc' \in [Names -> Allocators],
         NEW o \in Names, NEW p \in Names, ExchangeSegments(o, p),
         \A n \in Names \ {o, p} : alloc'[n] = alloc[n]
  PROVE  /\ PairInv' /\ ReturnedRight
         /\ Owners /\ (alloc'[o] = alloc[p] \/ obj[p].allocated = {})
                   /\ (alloc'[p] = alloc[o] \/ obj[o].allocated = {}) => Owners'
<1>1. /\ Shapes' /\ obj'[o] = obj[p] /\ obj'[p] = obj[o]
      /\ \A n \in Names \ {o, p} : obj'[n] = obj[n]
  BY Exchanges DEF PairInv
<1>2. /\ source' \in [Names -> [Segments -> Allocators \cup {Free}]]
      /\ source'[o] = source[p] /\ source'[p] = source[o]
      /\ \A n \in Names \ {o, p} : source'[n] = source[n]
  BY DEF PairInv, Typed, ExchangeSegments
<1>3. PairInv'
  BY <1>1, <1>2 DEF PairInv, Typed
<1>4. ReturnedRight
  BY DEF ExchangeSegments, ReturnedRight
<1>5. ASSUME Owners, alloc'[o] = alloc[p] \/ obj[p].allocated = {},
             alloc'[p] = alloc[o] \/ obj[o].allocated = {}
      PROVE  Owners'
  <2> SUFFICES ASSUME NEW n \in Names, NEW s \in obj'[n].allocated
               PROVE  source'[n][s] = alloc'[n]
    BY DEF Owners
  <2>1. CASE n = o
    BY <1>1, <1>2, <1>5, <2>1 DEF Owners
  <2>2. CASE n = p
    BY <1>1, <1>2, <1>5, <2>2 DEF Owners
  <2>3. CASE n \notin {o, p}
    BY <1>1, <1>2, <1>5, <2>3 DEF Owners
  <2> QED
    BY <2>1, <2>2, <2>3
<1> QED
  BY <1>3, <1>4, <1>5

\* What the assignments make of the allocators
LEMMA AdoptedIs ==
  ASSUME Typed, NEW o \in Names, NEW p \in Names, alloc' = Adopted(o, p)
  PROVE  /\ alloc' \in [Names -> Allocators]
         /\ alloc'[o] = IF propagates THEN alloc[p] ELSE alloc[o]
         /\ \A n \in Names \ {o} : alloc'[n] = alloc[n]
  BY DEF Typed, Adopted

\* ~batch_deque() returns its segments to its allocator.
LEMMA DestroyedRight ==
  ASSUME Owners, NEW o \in Names, Destroyed(o)
  PROVE  ReturnedRight
  BY DEF Owners, Destroyed, ReturnedRight

\* An action keeps the invariant, and the owners if the caller avoids the hazards.
Keeps == PairInv' /\ (Owners /\ SameAllocator => Owners' /\ ReturnedRight)

LEMMA EditKeeps ==
  ASSUME Divides, PairInv, UNCHANGED propagates, NEW o \in Names, Edit(o)
  PROVE  Keeps
<1>1. PICK d \in Edits(o) : Become(o, d, alloc[o])
  BY DEF Edit
<1>2. Well(d)
  BY EditWell DEF PairInv, Shapes
<1>3. alloc' = alloc /\ alloc' \in [Names -> Allocators]
  BY DEF Edit, PairInv, Typed
<1>4. Become(o, d, alloc'[o])
  BY <1>1, <1>3
<1> QED
  BY <1>2, <1>3, <1>4, Became DEF Keeps

LEMMA CopySelfKeeps ==
  ASSUME PairInv, UNCHANGED propagates, NEW o \in Names, CopyAssignSelf(o)
  PROVE  Keeps
<1>1. UNCHANGED <<obj, alloc, source>> /\ returned' = {}
  BY DEF CopyAssignSelf
<1> QED
  BY <1>1 DEF Keeps, PairInv, Shapes, Typed, Owners, ReturnedRight

LEMMA CopyKeeps ==
  ASSUME Divides, PairInv, UNCHANGED propagates, NEW o \in Names, NEW p \in Names,
         CopyAssign(o, p)
  PROVE  Keeps
<1>1. PICK e : Well(e) /\ Become(o, e, alloc'[o])
  BY CopyAssigned DEF PairInv
<1>2. /\ alloc' \in [Names -> Allocators]
      /\ alloc'[o] = IF propagates THEN alloc[p] ELSE alloc[o]
      /\ \A n \in Names \ {o} : alloc'[n] = alloc[n]
  BY AdoptedIs DEF CopyAssign, PairInv
<1>3. SameAllocator => alloc'[o] = alloc[o] \/ obj[o].allocated = {}
  BY <1>2 DEF CopyAssign, SameAllocator, Hazards
<1> QED
  BY <1>1, <1>2, <1>3, Became DEF Keeps

LEMMA MoveSwappingKeeps ==
  ASSUME PairInv, UNCHANGED propagates, NEW o \in Names, NEW p \in Names,
         MoveAssignSwapping(o, p)
  PROVE  Keeps
<1>1. ExchangeSegments(o, p) /\ CanSteal(o, p)
  BY DEF MoveAssignSwapping
<1>2. /\ alloc' \in [Names -> Allocators]
      /\ alloc'[o] = IF propagates THEN alloc[p] ELSE alloc[o]
      /\ \A n \in Names \ {o} : alloc'[n] = alloc[n]
  BY AdoptedIs DEF MoveAssignSwapping, PairInv
<1>3. alloc'[o] = alloc[p]
  BY <1>1, <1>2 DEF CanSteal
<1>4. SameAllocator => alloc'[p] = alloc[o] \/ obj[o].allocated = {}
  BY <1>2, <1>3 DEF MoveAssignSwapping, SameAllocator, Hazards
<1> QED
  BY <1>1, <1>2, <1>3, <1>4, ExchangeKept DEF Keeps

LEMMA MoveElementsKeeps ==
  ASSUME Divides, PairInv, UNCHANGED propagates, NEW o \in Names, NEW p \in Names,
         MoveAssignElements(o, p)
  PROVE  Keeps
<1>1. o # p /\ UNCHANGED alloc /\ returned' = {}
  BY ElementsMoved DEF PairInv, MoveAssignElements
<1>2. PICK e : /\ Well(e)
               /\ obj' = [obj EXCEPT ![o] = e, ![p] = MovedFrom(obj[p])]
               /\ source' = [source EXCEPT ![o] = SourceOf(o, e, alloc[o])]
  BY ElementsMoved DEF PairInv
<1> DEFINE d == MovedFrom(obj[p])
           f == SourceOf(o, e, alloc[o])
<1>3. /\ Well(d) /\ d.allocated = obj[p].allocated
      /\ e.allocated \subseteq Segments /\ alloc[o] \in Allocators
  BY <1>2, MovedFromWell, WellContents DEF PairInv, Shapes, Typed
<1>4. /\ f \in [Segments -> Allocators \cup {Free}]
      /\ \A s \in e.allocated :
           f[s] = IF s \in obj[o].allocated THEN source[o][s] ELSE alloc[o]
  BY <1>3, SourceOfTyped DEF PairInv
<1> HIDE DEF d, f
<1>5. source' = [source EXCEPT ![o] = f, ![p] = source[p]]
      /\ source[p] \in [Segments -> Allocators \cup {Free}]
  BY <1>1, <1>2 DEF PairInv, Typed, f
<1>6. obj' = [obj EXCEPT ![o] = e, ![p] = d] /\ alloc' \in [Names -> Allocators]
  BY <1>1, <1>2 DEF d, PairInv, Typed
<1>7. Owners => /\ \A s \in e.allocated : f[s] = alloc'[o]
                /\ \A s \in d.allocated : source[p][s] = alloc'[p]
  BY <1>1, <1>3, <1>4 DEF Owners
<1>8. BothBecome(o, p, e, d, f, source[p])
  BY <1>1, <1>2, <1>3, <1>4, <1>5, <1>6 DEF BothBecome
<1>9. PairInv' /\ (Owners => Owners')
  BY <1>6, <1>7, <1>8, BothBecame
<1> QED
  BY <1>1, <1>9 DEF Keeps, ReturnedRight

LEMMA SwapKeeps ==
  ASSUME PairInv, UNCHANGED propagates, NEW o \in Names, NEW p \in Names, Swap(o, p)
  PROVE  Keeps
<1>1. CASE propagates /\ alloc[o] # alloc[p]
  <2>1. UNCHANGED <<obj, alloc, source>> /\ returned' = {}
    BY <1>1 DEF Swap
  <2> QED
    BY <2>1 DEF Keeps, PairInv, Shapes, Typed, Owners, ReturnedRight
<1>2. CASE ~(propagates /\ alloc[o] # alloc[p])
  <2>1. ExchangeSegments(o, p) /\ UNCHANGED alloc /\ alloc[o] = alloc[p]
    BY <1>2 DEF Swap
  <2> QED
    BY <2>1, ExchangeKept DEF Keeps, PairInv, Typed
<1> QED
  BY <1>1, <1>2

LEMMA CopyConstructKeeps ==
  ASSUME Divides, PairInv, UNCHANGED propagates, NEW o \in Names, NEW p \in Names,
         NEW al \in Allocators, CopyConstruct(o, p, al)
  PROVE  Keeps
<1> DEFINE d == CopyConstructed(obj[p])
           f == NewSource(d, al)
<1>1. /\ obj' = [obj EXCEPT ![o] = d] /\ source' = [source EXCEPT ![o] = f]
      /\ Destroyed(o) /\ alloc' = [alloc EXCEPT ![o] = al]
  BY DEF CopyConstruct, NewSource
<1>2. Well(d)
  BY CopyConstructedWell DEF PairInv, Shapes
<1> HIDE DEF d, f
<1>3. Shapes' /\ obj'[o] = d /\ \A n \in Names \ {o} : obj'[n] = obj[n]
  BY <1>1, <1>2, OneShape DEF PairInv
<1>4. f \in [Segments -> Allocators \cup {Free}] /\ \A s \in d.allocated : f[s] = al
  BY <1>2, WellContents, NewSourceTyped DEF f
<1>5. /\ source' \in [Names -> [Segments -> Allocators \cup {Free}]] /\ source'[o] = f
      /\ \A n \in Names \ {o} : source'[n] = source[n]
  BY <1>1, <1>4 DEF PairInv, Typed
<1>6. /\ alloc' \in [Names -> Allocators] /\ alloc'[o] = al
      /\ \A n \in Names \ {o} : alloc'[n] = alloc[n]
  BY <1>1 DEF PairInv, Typed
<1>7. PairInv'
  BY <1>3, <1>5, <1>6 DEF PairInv, Typed
<1>8. Owners => Owners'
  BY <1>3, <1>4, <1>5, <1>6 DEF Owners
<1> QED
  BY <1>1, <1>7, <1>8, DestroyedRight DEF Keeps

LEMMA MoveConstructKeeps ==
  ASSUME Divides, PairInv, UNCHANGED propagates, NEW o \in Names, NEW p \in Names,
         MoveConstruct(o, p)
  PROVE  Keeps
<1> DEFINE e == Constructed(<< >>)
<1>1. /\ o # p /\ obj' = [obj EXCEPT ![o] = obj[p], ![p] = e]
      /\ source' = [source EXCEPT ![o] = source[p], ![p] = NoSource]
      /\ Destroyed(o) /\ alloc' = [alloc EXCEPT ![o] = alloc[p]]
  BY DEF MoveConstruct
<1>2. Well(e) /\ e.allocated = {} /\ Well(obj[p])
  BY EmptyWell DEF PairInv, Shapes
<1> HIDE DEF e
<1>3. alloc' \in [Names -> Allocators] /\ alloc'[o] = alloc[p] /\ alloc[p] \in Allocators
  BY <1>1 DEF PairInv, Typed
<1>4. /\ source[p] \in [Segments -> Allocators \cup {Free}]
      /\ NoSource \in [Segments -> Allocators \cup {Free}]
  BY <1>3, NewSourceTyped DEF PairInv, Typed
<1>5. PairInv' /\ (Owners => Owners')
  <2>1. Owners => /\ \A s \in obj[p].allocated : source[p][s] = alloc'[o]
                  /\ \A s \in e.allocated : NoSource[s] = alloc'[p]
    BY <1>2, <1>3 DEF Owners
  <2>2. BothBecome(o, p, obj[p], e, source[p], NoSource)
    BY <1>1, <1>2, <1>4 DEF BothBecome
  <2> QED
    BY <1>3, <2>1, <2>2, BothBecame
<1> QED
  BY <1>1, <1>5, DestroyedRight DEF Keeps

LEMMA UnequalKeeps ==
  ASSUME Divides, PairInv, UNCHANGED propagates, NEW o \in Names, NEW p \in Names,
         NEW al \in Allocators, MoveConstructUnequal(o, p, al)
  PROVE  Keeps
<1>1. o # p /\ Destroyed(o) /\ alloc' = [alloc EXCEPT ![o] = al]
  BY DEF MoveConstructUnequal
<1>2. PICK e : /\ Well(e)
               /\ obj' = [obj EXCEPT ![o] = e, ![p] = MovedFrom(obj[p])]
               /\ source' = [source EXCEPT ![o] = NewSource(e, al)]
  <2>1. PICK e : MovedOneByOne(o, p, al, e)
    BY UnequalConstructed DEF PairInv
  <2> QED
    BY <2>1 DEF MovedOneByOne
<1> DEFINE d == MovedFrom(obj[p])
           f == NewSource(e, al)
<1>3. Well(d) /\ d.allocated = obj[p].allocated /\ e.allocated \subseteq Segments
  BY <1>2, MovedFromWell, WellContents DEF PairInv, Shapes
<1>4. f \in [Segments -> Allocators \cup {Free}] /\ \A s \in e.allocated : f[s] = al
  BY <1>3, NewSourceTyped
<1> HIDE DEF d, f
<1>5. source' = [source EXCEPT ![o] = f, ![p] = source[p]]
      /\ source[p] \in [Segments -> Allocators \cup {Free}]
  BY <1>1, <1>2 DEF PairInv, Typed, f
<1>6. /\ obj' = [obj EXCEPT ![o] = e, ![p] = d] /\ alloc' \in [Names -> Allocators]
      /\ alloc'[o] = al /\ alloc'[p] = alloc[p]
  BY <1>1, <1>2 DEF d, PairInv, Typed
<1>7. Owners => /\ \A s \in e.allocated : f[s] = alloc'[o]
                /\ \A s \in d.allocated : source[p][s] = alloc'[p]
  BY <1>3, <1>4, <1>6 DEF Owners
<1>8. BothBecome(o, p, e, d, f, source[p])
  BY <1>1, <1>2, <1>3, <1>4, <1>5, <1>6 DEF BothBecome
<1>9. PairInv' /\ (Owners => Owners')
  BY <1>6, <1>7, <1>8, BothBecame
<1> QED
  BY <1>1, <1>9, DestroyedRight DEF Keeps

-----------------------------------------------------------------------------
\* Every call

\* One of the calls, or none.
LEMMA NextCases ==
  ASSUME [Next]_pairVars
  PROVE  UNCHANGED propagates /\
         (\/ UNCHANGED pairVars
          \/ \E o \in Names : Edit(o) \/ CopyAssignSelf(o)
          \/ \E o, p \in Names :
               \/ CopyAssign(o, p) \/ MoveAssignSwapping(o, p)
               \/ MoveAssignElements(o, p) \/ Swap(o, p) \/ MoveConstruct(o, p)
          \/ \E o, p \in Names, al \in Allocators :
               CopyConstruct(o, p, al) \/ MoveConstructUnequal(o, p, al))
  BY DEF Next, pairVars

\* Each call keeps the invariant and, without the hazards, the owners.
LEMMA PairNext ==
  ASSUME Divides, PairInv, [Next]_pairVars
  PROVE  UNCHANGED pairVars \/ Keeps
<1>1. UNCHANGED propagates
  BY NextCases
<1>2. ASSUME NEW o \in Names, Edit(o) \/ CopyAssignSelf(o) PROVE Keeps
  BY <1>1, <1>2, EditKeeps, CopySelfKeeps
<1>3. ASSUME NEW o \in Names, NEW p \in Names,
             \/ CopyAssign(o, p) \/ MoveAssignSwapping(o, p)
             \/ MoveAssignElements(o, p) \/ Swap(o, p) \/ MoveConstruct(o, p)
      PROVE  Keeps
  BY <1>1, <1>3, CopyKeeps, MoveSwappingKeeps, MoveElementsKeeps, SwapKeeps, MoveConstructKeeps
<1>4. ASSUME NEW o \in Names, NEW p \in Names, NEW al \in Allocators,
             CopyConstruct(o, p, al) \/ MoveConstructUnequal(o, p, al)
      PROVE  Keeps
  BY <1>1, <1>4, CopyConstructKeeps, UnequalKeeps
<1> QED
  BY <1>2, <1>3, <1>4, NextCases

\* Two default constructed batch_deques
LEMMA PairInit == Divides /\ Init => PairInv /\ Owners
<1> SUFFICES ASSUME Divides, Init PROVE PairInv /\ Owners
  OBVIOUS
<1>1. Shapes /\ \A o \in Names : obj[o].allocated = {}
  BY EmptyWell DEF Init, Shapes
<1>2. Typed
  BY DEF Init, Typed, NoSource
<1> QED
  BY <1>1, <1>2 DEF PairInv, Owners

\* Nothing happens.
LEMMA NothingCalled ==
  ASSUME PairInv, UNCHANGED pairVars
  PROVE  PairInv' /\ (Owners => Owners')
  BY DEF PairInv, Shapes, Typed, Owners, pairVars

\* So the invariant always holds.
LEMMA AlwaysPairInv ==
  ASSUME Divides
  PROVE  Spec => []PairInv
<1>1. Init => PairInv
  BY PairInit
<1>2. PairInv /\ [Next]_pairVars => PairInv'
  BY PairNext, NothingCalled DEF Keeps
<1> QED
  BY <1>1, <1>2, PTL DEF Spec

\* After every copy, move, swap and construction both batch_deques satisfy
\* batch_deque::invariants_ok(), each owns the segments its map points to, once, and exactly
\* their elements are objects, in one that was moved from and one whose assignment threw too,
\* whatever their allocators.
THEOREM PairAlwaysWellFormed ==
  ASSUME Divides, ~ShiftMayThrow
  PROVE  Spec => []BothWellFormed
<1>1. PairInv => BothWellFormed
  <2> SUFFICES ASSUME PairInv PROVE BothWellFormed
    OBVIOUS
  <2>1. ASSUME NEW o \in Names
        PROVE  /\ InvariantsOk(obj[o]) /\ SegmentsOwned(obj[o]) /\ LiveExactly(obj[o])
               /\ obj[o] \in DequeType
    <3>1. Good(obj[o], {}, {})
      BY DEF PairInv, Shapes, Well
    <3> QED
      BY <3>1, GoodFits, GoodOwns, GoodLives DEF Good, Shaped
  <2> QED
    BY <2>1 DEF BothWellFormed, PairInv, Shapes, Typed
<1> QED
  BY <1>1, AlwaysPairInv, PTL

\* Each segment was obtained from the allocator of the batch_deque that will free it and is
\* returned to where it came from, by assignments, constructions and destructions, with
\* propagating allocators or without, if the caller avoids the three operations that mix
\* unequal allocators.
THEOREM SegmentsGoHome ==
  ASSUME Divides, Hazards \subseteq Avoided
  PROVE  Spec => RightAllocator
<1>0. SameAllocator
  BY DEF SameAllocator
<1>1. Init => PairInv /\ Owners
  BY PairInit
<1>2. PairInv /\ Owners /\ [Next]_pairVars => PairInv' /\ Owners'
  BY <1>0, PairNext, NothingCalled DEF Keeps
<1>3. PairInv /\ Owners /\ [Next]_pairVars =>
        [/\ \A o \in Names, s \in Segments :
              s \in obj'[o].allocated => source'[o][s] = alloc'[o]
         /\ \A r \in returned' : r[1] = r[2]]_pairVars
  <2> SUFFICES ASSUME PairInv, Owners, [Next]_pairVars, ~UNCHANGED pairVars
               PROVE  /\ \A o \in Names, s \in Segments :
                           s \in obj'[o].allocated => source'[o][s] = alloc'[o]
                      /\ \A r \in returned' : r[1] = r[2]
    OBVIOUS
  <2>1. Owners' /\ ReturnedRight
    BY <1>0, PairNext DEF Keeps
  <2> QED
    BY <2>1 DEF Owners, ReturnedRight
<1> QED
  BY <1>1, <1>2, <1>3, PTL DEF Spec, RightAllocator

-----------------------------------------------------------------------------
\* The contract

\* The two sequences
Seqs == [o \in Names |-> Contents(obj[o])]

\* They hold objects.
LEMMA SeqElements ==
  ASSUME NEW S, NEW xs \in Seq(S)
  PROVE  \A i \in DOMAIN xs : xs[i] \in S
  OBVIOUS

\* Each call does to the two sequences what the contract says, or nothing.
LEMMA PairStepImplements ==
  ASSUME "copy" \in Excepted, Divides, "swap unequal allocators" \in Avoided, PairInv, [Next]_pairVars
  PROVE  [Contract!Next]_<<Seqs, call>>
<1>0. PairInv'
  BY PairNext, NothingCalled DEF Keeps
<1>1. /\ Shapes
      /\ \A o \in Names : Seqs[o] = Contents(obj[o]) /\ Seqs'[o] = Contents(obj'[o])
      /\ \A o \in Names : \A i \in DOMAIN Seqs'[o] : Seqs'[o][i] \in Object
  <2>1. \A o \in Names : Contents(obj'[o]) \in Seq(Object)
    BY <1>0, WellContents DEF PairInv, Shapes
  <2>2. \A o \in Names : Seqs[o] = Contents(obj[o]) /\ Seqs'[o] = Contents(obj'[o])
    BY DEF Seqs
  <2>3. \A o \in Names : \A i \in DOMAIN Seqs'[o] : Seqs'[o][i] \in Object
    BY <2>1, <2>2, SeqElements, Zenon
  <2> QED
    BY <2>2, <2>3 DEF PairInv
<1>2. CASE UNCHANGED pairVars
  BY <1>2 DEF pairVars, Seqs
<1>3. ASSUME NEW o \in Names, Edit(o) PROVE Contract!ToOne
  <2>1. \A n \in Names \ {o} : obj'[n] = obj[n]
    BY <1>1, <1>3 DEF Edit, Become, Shapes
  <2>2. call'.op = "edit" /\ call'.out = "ok" /\ call'.to = o
    BY <1>3 DEF Edit, Is
  <2> QED
    BY <1>1, <2>1, <2>2 DEF Contract!ToOne, Contract!Done, Contract!Others
<1>4. ASSUME NEW o \in Names, CopyAssignSelf(o) PROVE Contract!Copy
  BY <1>1, <1>4 DEF CopyAssignSelf, Is, Contract!Copy, Contract!Done, Contract!Others
<1>5. ASSUME NEW o \in Names, NEW p \in Names, CopyAssign(o, p)
      PROVE  Contract!Copy \/ Contract!Threw
  <2>1. PICK e : /\ Become(o, e, alloc'[o])
                 /\ \/ call'.out = "ok" /\ Contents(e) = Contents(obj[p])
                    \/ call'.out = "threw"
    BY <1>1, <1>5, CopyAssigned
  <2>2. obj'[o] = e /\ \A n \in Names \ {o} : obj'[n] = obj[n]
    BY <1>1, <2>1 DEF Become, Shapes
  <2>3. call'.op = "copy" /\ call'.to = o /\ call'.from = p
    <3>1. Is("copy", o, p, "ok") \/ Is("copy", o, p, "threw")
      BY <1>5, Zenon DEF CopyAssign
    <3>2. CASE Is("copy", o, p, "ok")
      BY <3>2 DEF Is
    <3>3. CASE Is("copy", o, p, "threw")
      BY <3>3 DEF Is
    <3> QED
      BY <3>1, <3>2, <3>3
  <2> QED
    BY <1>1, <2>1, <2>2, <2>3
       DEF Contract!Copy, Contract!Threw, Contract!Done, Contract!Others
<1>6. ASSUME NEW o \in Names, NEW p \in Names, MoveAssignSwapping(o, p) PROVE Contract!Move
  <2>1. obj'[o] = obj[p] /\ \A n \in Names \ {o, p} : obj'[n] = obj[n]
    BY <1>1, <1>6, Exchanges DEF MoveAssignSwapping
  <2>2. call'.op = "move" /\ call'.to = o /\ call'.from = p /\ call'.out = "ok"
    BY <1>6 DEF MoveAssignSwapping, Is
  <2> QED
    BY <1>1, <2>1, <2>2 DEF Contract!Move, Contract!Done, Contract!Others
<1>7. ASSUME NEW o \in Names, NEW p \in Names, MoveAssignElements(o, p) PROVE Contract!Move
  <2>1. PICK e : /\ Well(e) /\ Contents(e) = Contents(obj[p])
                 /\ obj' = [obj EXCEPT ![o] = e, ![p] = MovedFrom(obj[p])]
                 /\ source' = [source EXCEPT ![o] = SourceOf(o, e, alloc[o])]
    BY <1>7, ElementsMoved DEF PairInv
  <2>2. o # p
    BY <1>1, <1>7, ElementsMoved
  <2>3. obj'[o] = e /\ \A n \in Names \ {o, p} : obj'[n] = obj[n]
    BY <1>1, <2>1, <2>2 DEF Shapes
  <2>4. call'.op = "move" /\ call'.to = o /\ call'.from = p /\ call'.out = "ok"
    BY <1>7 DEF MoveAssignElements, Is
  <2> QED
    BY <1>1, <2>1, <2>3, <2>4 DEF Contract!Move, Contract!Done, Contract!Others
<1>8. ASSUME NEW o \in Names, NEW p \in Names, Swap(o, p) PROVE Contract!Swap
  <2>1. ExchangeSegments(o, p) /\ Is("swap", o, p, "ok")
    BY <1>8 DEF Swap
  <2>2. /\ obj'[o] = obj[p] /\ obj'[p] = obj[o]
        /\ \A n \in Names \ {o, p} : obj'[n] = obj[n]
    BY <1>1, <2>1, Exchanges
  <2>3. call'.op = "swap" /\ call'.to = o /\ call'.from = p /\ call'.out = "ok"
    BY <2>1 DEF Is
  <2> QED
    BY <1>1, <2>2, <2>3 DEF Contract!Swap, Contract!Done, Contract!Others
<1>9. ASSUME NEW o \in Names, NEW p \in Names, MoveConstruct(o, p) PROVE Contract!Move
  <2>1. o # p /\ obj' = [obj EXCEPT ![o] = obj[p], ![p] = Constructed(<< >>)]
    BY <1>9 DEF MoveConstruct
  <2>2. obj'[o] = obj[p] /\ \A n \in Names \ {o, p} : obj'[n] = obj[n]
    BY <1>1, <2>1 DEF Shapes
  <2>3. call'.op = "move construct" /\ call'.to = o /\ call'.from = p /\ call'.out = "ok"
    BY <1>9 DEF MoveConstruct, Is
  <2> QED
    BY <1>1, <2>2, <2>3 DEF Contract!Move, Contract!Done, Contract!Others
<1>10. ASSUME NEW o \in Names, NEW p \in Names, NEW al, CopyConstruct(o, p, al)
       PROVE  Contract!Copy
  <2> DEFINE d == CopyConstructed(obj[p])
  <2>1. Contents(d) = Contents(obj[p])
    BY <1>1, CopyConstructedWell DEF Shapes
  <2>2. obj' = [obj EXCEPT ![o] = d]
    BY <1>10 DEF CopyConstruct
  <2> HIDE DEF d
  <2>3. obj'[o] = d /\ \A n \in Names \ {o} : obj'[n] = obj[n]
    BY <1>1, <2>2 DEF Shapes
  <2>4. call'.op = "copy" /\ call'.to = o /\ call'.from = p /\ call'.out = "ok"
    BY <1>10 DEF CopyConstruct, Is
  <2> QED
    BY <1>1, <2>1, <2>3, <2>4 DEF Contract!Copy, Contract!Done, Contract!Others
<1>11. ASSUME NEW o \in Names, NEW p \in Names, NEW al \in Allocators,
             MoveConstructUnequal(o, p, al)
       PROVE  Contract!Move
  <2>0. PICK e : MovedOneByOne(o, p, al, e)
    BY <1>11, UnequalConstructed DEF PairInv
  <2>1. /\ Contents(e) = Contents(obj[p])
        /\ obj' = [obj EXCEPT ![o] = e, ![p] = MovedFrom(obj[p])]
    BY <2>0 DEF MovedOneByOne
  <2>2. o # p /\ Is("move construct", o, p, "ok")
    BY <1>11 DEF MoveConstructUnequal
  <2>3. obj'[o] = e /\ \A n \in Names \ {o, p} : obj'[n] = obj[n]
    BY <1>1, <2>1, <2>2 DEF Shapes
  <2>4. call'.op = "move construct" /\ call'.to = o /\ call'.from = p /\ call'.out = "ok"
    BY <2>2 DEF Is
  <2> QED
    BY <1>1, <2>1, <2>3, <2>4 DEF Contract!Move, Contract!Done, Contract!Others
<1> QED
  BY <1>2, <1>3, <1>4, <1>5, <1>6, <1>7, <1>8, <1>9, <1>10, <1>11, NextCases
     DEF Contract!Next

\* Copying, moving and swapping, if they return, do to the contents what the documentation
\* says, and nothing to another batch_deque, whether the segments, the elements or the
\* allocators are what moves; swap asserts that unequal allocators do not propagate.  A copy
\* assignment that throws leaves some elements in its target and nothing else changed: the
\* documented strong guarantee is not proved, since it is not kept.
THEOREM PairImplementsContract ==
  ASSUME "copy" \in Excepted, Divides, "swap unequal allocators" \in Avoided
  PROVE  Spec => ImplementsPairContract
<1>1. Init => Contract!Init
  <2> SUFFICES ASSUME Init PROVE Seqs \in [Names -> Seq(Object)]
    BY DEF Contract!Init, Seqs
  <2> QED
    BY PairInit, WellContents DEF PairInv, Shapes, Seqs
<1>2. PairInv /\ [Next]_pairVars => [Contract!Next]_<<Seqs, call>>
  BY PairStepImplements
<1> QED
  BY <1>1, <1>2, AlwaysPairInv, PTL DEF Spec, ImplementsPairContract, Contract!Spec, Seqs

-----------------------------------------------------------------------------
\* The constructors of a batch_deque: which cells hold an element, at every step

\* Cell i of segment a comes before the one p points to.
Ahead(a, i, p) == a < p.at \/ (a = p.at /\ i < p.index)

\* It is one of those from p up to q.
Between(a, i, p, q) == ~Ahead(a, i, p) /\ Ahead(a, i, q)

ElementOf(a, i) == request.xs[a * SegmentSize + i - request.index + 1]

Building == pc \in {"segment", "fill", "unwind", "handler"}
Failing  == pc \in {"destroy", "threw"}

\* The element was constructed and not destroyed.
Present(a, i) ==
  \/ /\ Building
     /\ \/ a < full /\ Between(a, i, Start, PastAll)
        \/ a = full /\ guard.at =< i /\ i < guard.at + guard.count
  \/ pc = "done" /\ Between(a, i, Start, PastAll)
  \/ Failing /\ Between(a, i, cursor, last)

\* The cells hold these elements and nothing else.
CellsHold ==
  /\ mem \in [Segments -> Segment]
  /\ \A s \in Segments, i \in Indices :
       mem[s][i] = IF Present(s - 1, i) THEN ElementOf(s - 1, i) ELSE Raw

\* The segments are obtained in order; j of them were returned.
Obtained(j) ==
  /\ Len(segments) \in Nat /\ j + Len(segments) =< MaxSegments
  /\ segments = [n \in 1 .. Len(segments) |-> j + n]
  /\ allocated = j + 1 .. j + Len(segments)

\* The constructor that was called
Asked ==
  /\ request = [form |-> request.form, xs |-> request.xs, index |-> request.index]
  /\ request.xs \in Seq(Values) /\ request.index \in Indices
  /\ request.form # "copy" => request.index = 0
  /\ SegmentCount(request.index + Len(request.xs)) =< MaxSegments

\* Until something throws
Progress ==
  /\ last = PastAll /\ cursor = Start /\ Obtained(0)
  /\ full \in Nat /\ full =< Needed
  /\ guard = [at |-> guard.at, count |-> guard.count]
  /\ guard.at \in Nat /\ guard.count \in Nat /\ guard.at + guard.count =< SegmentSize
  /\ request.form = "count" => guard.at = 0
  /\ pc = "segment" => Len(segments) = full /\ guard.count = 0
  /\ pc # "segment" => full < Needed
  /\ pc \in {"fill", "unwind"} => Len(segments) = full + 1
  /\ pc = "fill" => guard.at = FirstCell /\ guard.count =< CellsToFill
  /\ pc = "unwind" => request.form # "count"
  /\ pc = "handler" =>
       /\ request.form # "count" => Len(segments) = full + 1 /\ guard.count = 0
       /\ request.form = "count" =>
            /\ guard.count < SegmentSize
            /\ Len(segments) = full + 1 \/ (Len(segments) = full /\ guard.count = 0)

\* After it did
Retreat ==
  /\ cursor.at \in Nat /\ last.at \in Nat
  /\ cursor = It(cursor.at, cursor.index) /\ cursor.index \in Indices
  /\ last = It(last.at, last.index) /\ last.index \in Indices
  /\ \E j \in 0 .. MaxSegments : Obtained(j)
  /\ cursor # last =>
       /\ Ahead(cursor.at, cursor.index, last) /\ Obtained(0)
       /\ last.at < Len(segments) \/ (last.at = Len(segments) /\ last.index = 0)
  /\ pc = "threw" => cursor = last /\ segments = << >>

ConstructInv ==
  /\ Asked /\ CellsHold
  /\ Building \/ Failing \/ pc = "done"
  /\ Building => Progress
  /\ Failing => Retreat
  /\ pc = "done" => last = PastAll /\ Obtained(0) /\ Len(segments) = Needed

\* How many segments that is, and which cells
LEMMA PlanFacts ==
  ASSUME Asked
  PROVE  /\ Start = It(0, request.index) /\ request.index \in Indices
         /\ PastAll = It(PastAll.at, PastAll.index)
         /\ PastAll.at \in Nat /\ PastAll.index \in Indices
         /\ PastAll.at = 0 => request.index =< PastAll.index
         /\ Needed = SegmentCount(request.index + Len(request.xs))
         /\ Needed = PastAll.at + (IF PastAll.index > 0 THEN 1 ELSE 0)
         /\ Needed \in Nat /\ Needed =< MaxSegments
         /\ \A a \in Nat, i \in Indices :
              Between(a, i, Start, PastAll) <=>
                /\ request.index =< a * SegmentSize + i
                /\ a * SegmentSize + i < request.index + Len(request.xs)
<1> DEFINE n == Len(request.xs)
           x == request.index
           k == SegmentCount(x + n)
           q == x + n
<1>1. n \in Nat /\ x \in Nat /\ x < SegmentSize /\ x \in Indices /\ q \in Nat
      /\ SegmentSize \in Nat /\ SegmentSize > 1
  BY SegmentAssumption DEF Asked, Indices
<1>2. /\ k \in Nat /\ k =< MaxSegments /\ k * SegmentSize \in Nat
      /\ q =< k * SegmentSize /\ k * SegmentSize < q + SegmentSize
  BY <1>1, SegmentCountIs DEF Asked
<1> HIDE DEF k
<1>3. q < Word
  <2> DEFINE y == k * SegmentSize
             z == SegmentSize * MaxSegments
  <2>1. y =< z /\ z < Word \div 2 /\ Word \in Nat /\ y \in Int /\ z \in Int
    <3>1. \A j \in Nat : j =< MaxSegments => j * SegmentSize =< z
      BY <1>1, BatchAssumption
    <3> QED
      BY <1>1, <1>2, <3>1, SegmentAssumption, BatchAssumption
  <2> HIDE DEF y, z, q
  <2> QED
    BY <1>1, <1>2, <2>1 DEF y
<1>4. Start = It(0, x)
  BY DEF Start
<1>5. PastAll = Locate(q)
  <2>1. q % Word = q
    <3> HIDE DEF q
    <3> QED
      BY <1>1, <1>3, Remainders
  <2>2. /\ PastAll = It(0 + (q % Word) \div SegmentSize, (q % Word) % SegmentSize)
    BY <1>1, <1>4 DEF PastAll, Advance, It, Unsigned
  <2>3. 0 + q \div SegmentSize = q \div SegmentSize
    <3>1. q \div SegmentSize \in Int
      BY <1>1, PartsOf
    <3> QED
      BY <3>1
  <2> HIDE DEF q
  <2> QED
    BY <2>1, <2>2, <2>3 DEF Locate
<1>6. /\ PastAll \in Iterators /\ Position(PastAll) = q
      /\ PastAll = It(PastAll.at, PastAll.index)
  <2> HIDE DEF q
  <2> QED
    BY <1>1, <1>5, LocatePosition DEF Iterators, It
<1> DEFINE a0 == PastAll.at
           i0 == PastAll.index
<1>7. a0 \in Int /\ i0 \in Indices /\ a0 * SegmentSize + i0 = q /\ i0 \in Int
      /\ 0 =< i0 /\ i0 < SegmentSize
  BY <1>6, SegmentAssumption DEF Position, Iterators, Indices
<1> HIDE DEF a0, i0
<1>8. a0 \in Nat
  <2>1. 0 * SegmentSize =< a0 * SegmentSize + i0 <=> 0 =< a0
    BY <1>7, PlaceOrder
  <2>2. 0 * SegmentSize = 0
    BY <1>1
  <2> HIDE DEF q
  <2> QED
    BY <1>1, <1>7, <2>1, <2>2
<1>9. a0 = 0 => x =< i0
  <2>1. a0 = 0 => a0 * SegmentSize = 0
    BY <1>1
  <2> QED
    BY <1>1, <1>7, <2>1
<1>10. k = a0 + (IF i0 > 0 THEN 1 ELSE 0)
  <2> DEFINE y == k * SegmentSize
             w == a0 * SegmentSize
  <2>1. /\ y =< w + i0 <=> k =< a0
        /\ w \in Int /\ y \in Int
    BY <1>2, <1>7, PlaceOrder
  <2>2. (a0 + 1) * SegmentSize = w + SegmentSize /\ a0 + 1 \in Int
    BY <1>7, SegmentBeside
  <2>3. CASE i0 = 0
    <3>1. 0 \in Indices
      BY <1>1 DEF Indices
    <3>2. w =< k * SegmentSize + 0 <=> a0 =< k
      BY <1>2, <1>7, <3>1, PlaceOrder
    <3>3. w + 1 \in Int /\ k =< a0 + 0 <=> y < w + SegmentSize
      <4>1. k * SegmentSize + 0 < (a0 + 1) * SegmentSize <=> k < a0 + 1
        <5> DEFINE b == a0 + 1
        <5>1. b \in Int /\ k \in Int
          BY <1>2, <2>2
        <5> HIDE DEF b
        <5>2. k * SegmentSize + 0 < b * SegmentSize <=> k < b
          BY <3>1, <5>1, PlaceOrder
        <5> QED
          BY <5>2 DEF b
      <4> HIDE DEF y, w
      <4> QED
        BY <1>2, <1>7, <2>1, <2>2, <4>1 DEF y
    <3> HIDE DEF y, w, q
    <3>4. w = q /\ q =< y /\ y < q + SegmentSize
      BY <1>1, <1>2, <1>7, <2>1, <2>3 DEF y, w
    <3>5. w =< y + 0 <=> a0 =< k
      BY <3>2 DEF y
    <3> QED
      BY <1>1, <1>2, <1>7, <2>1, <2>3, <3>3, <3>4, <3>5
  <2>4. CASE i0 > 0
    <3>1. 0 \in Indices
      BY <1>1 DEF Indices
    <3>2. y < w + SegmentSize + SegmentSize <=> k < a0 + 2
      <4> DEFINE b == a0 + 1
      <4>1. b \in Int /\ b + 1 \in Int /\ k \in Int /\ b + 1 = a0 + 2
        BY <1>2, <1>7
      <4>2. b * SegmentSize = w + SegmentSize
        BY <2>2
      <4> HIDE DEF b, w
      <4>3. k * SegmentSize + 0 < (b + 1) * SegmentSize <=> k < b + 1
        BY <3>1, <4>1, PlaceOrder
      <4>4. (b + 1) * SegmentSize = b * SegmentSize + SegmentSize
        BY <4>1, SegmentBeside
      <4>5. y + 0 < w + SegmentSize + SegmentSize <=> k < b + 1
        BY <4>2, <4>3, <4>4
      <4> HIDE DEF y
      <4> QED
        BY <2>1, <4>1, <4>5
    <3> HIDE DEF y, w, q
    <3>3. w + i0 = q /\ q =< y /\ y < q + SegmentSize
      BY <1>1, <1>2, <1>7, <2>1 DEF y, w
    <3> QED
      BY <1>1, <1>2, <1>7, <2>1, <2>4, <3>2, <3>3
  <2> QED
    BY <1>7, <2>3, <2>4
<1>11. Needed = k
  <2>1. CASE request.form = "copy"
    BY <1>4, <1>7, <1>8, <1>10, <2>1 DEF Needed, SegmentEnd, SegmentBegin, It, a0, i0
  <2>2. CASE request.form # "copy"
    <3>1. x + n = n
      BY <1>1, <2>2 DEF Asked
    <3> QED
      BY <2>2, <3>1 DEF Needed, k
  <2> QED
    BY <2>1, <2>2
<1>12. ASSUME NEW a \in Nat, NEW i \in Indices
       PROVE  Between(a, i, Start, PastAll) <=>
                x =< a * SegmentSize + i /\ a * SegmentSize + i < x + n
  <2> DEFINE p == a * SegmentSize + i
  <2>1. p \in Int /\ i \in Int /\ 0 =< i /\ i < SegmentSize
    BY <1>1 DEF Indices
  <2>2. Ahead(a, i, Start) <=> p < x
    <3>1. CASE a = 0
      <4>1. a * SegmentSize = 0
        BY <1>1, <3>1
      <4> QED
        BY <1>1, <1>4, <2>1, <3>1, <4>1 DEF Ahead, It
    <3>2. CASE a > 0
      <4>1. 1 * SegmentSize =< a * SegmentSize + i <=> 1 =< a
        BY PlaceOrder
      <4>2. 1 * SegmentSize = SegmentSize
        BY <1>1
      <4>3. SegmentSize =< p
        BY <3>2, <4>1, <4>2
      <4>4. ~Ahead(a, i, Start)
        BY <1>4, <3>2 DEF Ahead, It
      <4> HIDE DEF p
      <4> QED
        BY <1>1, <2>1, <4>3, <4>4
    <3> QED
      BY <3>1, <3>2
  <2>3. Ahead(a, i, PastAll) <=> p < q
    <3> DEFINE w == a0 * SegmentSize
    <3>1. (p < w <=> a < a0) /\ (w =< p <=> a0 =< a) /\ w \in Int
      <4>1. a \in Int /\ a0 \in Int
        BY <1>7
      <4>2. /\ a * SegmentSize + i < a0 * SegmentSize <=> a < a0
            /\ a0 * SegmentSize =< a * SegmentSize + i <=> a0 =< a
            /\ a0 * SegmentSize \in Int
        BY <4>1, PlaceOrder
      <4> QED
        BY <4>2
    <3>2. (a + 1) * SegmentSize = a * SegmentSize + SegmentSize
          /\ (w + i0 < (a + 1) * SegmentSize <=> a0 < a + 1)
      <4>1. a \in Int /\ a0 \in Int /\ a + 1 \in Int /\ i0 \in Indices
        BY <1>7
      <4>2. a0 * SegmentSize + i0 < (a + 1) * SegmentSize <=> a0 < a + 1
        BY <4>1, PlaceOrder
      <4>3. (a + 1) * SegmentSize = a * SegmentSize + SegmentSize
        BY <4>1, SegmentBeside
      <4> QED
        BY <4>2, <4>3
    <3>3. a = a0 => p = w + i
      OBVIOUS
    <3>4. Ahead(a, i, PastAll) <=> a < a0 \/ (a = a0 /\ i < i0)
      BY DEF Ahead, a0, i0
    <3>5. a > a0 => (a0 + 1) * SegmentSize =< p /\ (a0 + 1) * SegmentSize = w + SegmentSize
      <4>1. (a0 + 1) * SegmentSize =< a * SegmentSize + i <=> a0 + 1 =< a
        BY <1>7, PlaceOrder
      <4> QED
        BY <1>7, <4>1, SegmentBeside
    <3> HIDE DEF p, w, q
    <3>6. q = w + i0
      BY <1>7 DEF w
    <3>7. CASE a < a0
      BY <1>7, <2>1, <3>1, <3>4, <3>6, <3>7
    <3>8. CASE a = a0
      BY <1>7, <2>1, <3>1, <3>3, <3>4, <3>6, <3>8
    <3>9. CASE a > a0
      <4>1. w + SegmentSize =< p
        BY <3>5, <3>9
      <4> QED
        BY <1>1, <1>7, <2>1, <3>1, <3>4, <3>6, <3>9, <4>1
    <3> QED
      BY <1>7, <3>7, <3>8, <3>9
  <2>4. Between(a, i, Start, PastAll) <=> x =< p /\ p < q
    <3> HIDE DEF p, q
    <3> QED
      BY <1>1, <2>1, <2>2, <2>3 DEF Between
  <2> QED
    BY <2>4
<1> QED
  BY <1>1, <1>2, <1>4, <1>6, <1>7, <1>8, <1>9, <1>10, <1>11, <1>12 DEF a0, i0, k


\* The segment at hand: what is to be filled of it, and the earlier ones are full.
LEMMA SegmentAtHand ==
  ASSUME Asked, full \in Nat, full < Needed
  PROVE  /\ FirstCell \in Nat /\ CellsToFill \in Nat
         /\ FirstCell + CellsToFill =< SegmentSize
         /\ request.form # "copy" => FirstCell = 0
         /\ \A i \in Indices : Between(full, i, Start, PastAll) <=>
              FirstCell =< i /\ i < FirstCell + CellsToFill
         /\ \A a \in Nat, i \in Indices : a < full => Ahead(a, i, PastAll)
<1>1. /\ Start = It(0, request.index) /\ request.index \in Indices
      /\ PastAll.at \in Nat /\ PastAll.index \in Indices
      /\ PastAll.at = 0 => request.index =< PastAll.index
      /\ Needed = PastAll.at + (IF PastAll.index > 0 THEN 1 ELSE 0)
  BY PlanFacts
<1>2. /\ full =< PastAll.at /\ (full = PastAll.at => PastAll.index > 0)
      /\ SegmentSize \in Nat /\ SegmentSize > 1
      /\ \A i \in Indices : i \in Nat /\ i < SegmentSize
  BY <1>1, SegmentAssumption DEF Indices
<1>3. FirstCell = IF full = 0 THEN request.index ELSE 0
  BY DEF FirstCell
<1>4. CellsToFill = IF full = PastAll.at THEN PastAll.index - FirstCell
                    ELSE SegmentSize - FirstCell
  BY DEF CellsToFill
<1>5. FirstCell \in Nat /\ FirstCell < SegmentSize
  BY <1>1, <1>2, <1>3
<1>6. CellsToFill \in Nat /\ FirstCell + CellsToFill =< SegmentSize
  BY <1>1, <1>2, <1>3, <1>4, <1>5
<1>7. request.form # "copy" => FirstCell = 0
  BY <1>3 DEF Asked
<1>8. ASSUME NEW i \in Indices
      PROVE  Between(full, i, Start, PastAll) <=>
               FirstCell =< i /\ i < FirstCell + CellsToFill
  <2>1. Ahead(full, i, Start) <=> i < FirstCell
    BY <1>1, <1>2, <1>3 DEF Ahead, It
  <2>2. Ahead(full, i, PastAll) <=> i < FirstCell + CellsToFill
    <3>1. CASE full = PastAll.at
      BY <1>1, <1>2, <1>4, <1>5, <3>1 DEF Ahead
    <3>2. CASE full < PastAll.at
      BY <1>1, <1>2, <1>4, <1>5, <3>2 DEF Ahead
    <3> QED
      BY <1>1, <1>2, <3>1, <3>2
  <2> QED
    BY <1>2, <1>5, <1>6, <2>1, <2>2 DEF Between
<1>9. ASSUME NEW a \in Nat, NEW i \in Indices, a < full
      PROVE  Ahead(a, i, PastAll)
  BY <1>1, <1>2, <1>9 DEF Ahead
<1> QED
  BY <1>5, <1>6, <1>7, <1>8, <1>9

\* The request and what follows from it alone
LEMMA SameRequest ==
  ASSUME request' = request
  PROVE  /\ Start' = Start /\ PastAll' = PastAll /\ Needed' = Needed
         /\ Asked => Asked'
         /\ \A a, i : ElementOf(a, i)' = ElementOf(a, i)
  BY DEF Start, PastAll, Needed, Asked, ElementOf

\* No cell changes.
LEMMA CellsKept ==
  ASSUME CellsHold, request' = request, mem' = mem,
         \A a \in Nat, i \in Indices : Present(a, i)' <=> Present(a, i)
  PROVE  CellsHold'
<1>1. mem' \in [Segments -> Segment]
  BY DEF CellsHold
<1>2. ASSUME NEW s \in Segments, NEW i \in Indices
      PROVE  mem'[s][i] = IF Present(s - 1, i)' THEN ElementOf(s - 1, i)' ELSE Raw
  <2>1. s - 1 \in Nat
    BY DEF Segments
  <2>2. mem[s][i] = IF Present(s - 1, i) THEN ElementOf(s - 1, i) ELSE Raw
    BY DEF CellsHold
  <2>3. Present(s - 1, i)' <=> Present(s - 1, i)
    BY <2>1
  <2> QED
    BY <2>2, <2>3, SameRequest
<1> QED
  BY <1>1, <1>2 DEF CellsHold

\* One cell changes.
LEMMA CellWritten ==
  ASSUME CellsHold, request' = request,
         NEW b \in Nat, b + 1 \in Segments, NEW j \in Indices, NEW v \in Slot,
         mem' = [mem EXCEPT ![b + 1][j] = v],
         v = IF Present(b, j)' THEN ElementOf(b, j) ELSE Raw,
         \A a \in Nat, i \in Indices :
           a # b \/ i # j => (Present(a, i)' <=> Present(a, i))
  PROVE  CellsHold'
<1>1. mem \in [Segments -> [Indices -> Slot]]
  BY DEF CellsHold, Segment
<1>2. mem' \in [Segments -> Segment]
  BY <1>1 DEF Segment
<1>3. ASSUME NEW s \in Segments, NEW i \in Indices
      PROVE  mem'[s][i] = IF Present(s - 1, i)' THEN ElementOf(s - 1, i)' ELSE Raw
  <2>1. s - 1 \in Nat
    BY DEF Segments
  <2>2. mem[s][i] = IF Present(s - 1, i) THEN ElementOf(s - 1, i) ELSE Raw
    BY DEF CellsHold
  <2>3. CASE s = b + 1 /\ i = j
    <3>1. s - 1 = b
      BY <2>3
    <3>2. mem'[s][i] = v
      BY <1>1, <2>3
    <3> QED
      BY <2>3, <3>1, <3>2, SameRequest
  <2>4. CASE s # b + 1 \/ i # j
    <3>1. s - 1 # b \/ i # j
      BY <2>1, <2>4 DEF Segments
    <3>2. Present(s - 1, i)' <=> Present(s - 1, i)
      BY <2>1, <3>1
    <3>3. mem'[s][i] = mem[s][i]
      BY <1>1, <2>4
    <3> QED
      BY <2>2, <3>2, <3>3, SameRequest
  <2> QED
    BY <2>3, <2>4
<1> QED
  BY <1>2, <1>3 DEF CellsHold

\* A segment in which no element is has no object in it.
LEMMA SegmentEmpty ==
  ASSUME CellsHold, NEW s \in Segments, \A i \in Indices : ~Present(s - 1, i)
  PROVE  mem[s] = EmptySegment
<1>1. mem[s] \in [Indices -> Slot]
  BY DEF CellsHold, Segment
<1>2. \A i \in Indices : mem[s][i] = Raw
  BY DEF CellsHold
<1> QED
  BY <1>1, <1>2 DEF EmptySegment


LEMMA NextSegmentHolds == ConstructInv /\ NextSegment => ConstructInv' /\ FreesEmpty
<1> SUFFICES ASSUME ConstructInv, NextSegment PROVE ConstructInv' /\ FreesEmpty
  OBVIOUS
<1> DEFINE s == CHOOSE t \in Segments \ allocated : \A u \in Segments \ allocated : t =< u
<1>1. /\ Asked /\ CellsHold /\ Progress /\ Obtained(0)
      /\ pc = "segment" /\ Len(segments) = full /\ guard.count = 0 /\ full < Needed
      /\ full \in Nat
  BY DEF ConstructInv, Progress, Building, NextSegment
<1>2. /\ segments' = Append(segments, s) /\ allocated' = allocated \cup {s}
      /\ guard' = NewGuard(FirstCell) /\ pc' = "fill"
      /\ request' = request /\ mem' = mem /\ full' = full /\ last' = last /\ cursor' = cursor
  BY DEF NextSegment
<1>3. Needed \in Nat /\ Needed =< MaxSegments /\ MaxSegments \in Nat
  BY <1>1, PlanFacts, BatchAssumption
<1>4. segments = [n \in 1 .. full |-> 0 + n] /\ allocated = 0 + 1 .. 0 + full
  BY <1>1 DEF Obtained
<1>5. s = full + 1
  <2> DEFINE S == Segments \ allocated
  <2>1. full + 1 \in S /\ \A u \in S : full + 1 =< u /\ u \in Nat
    BY <1>1, <1>3, <1>4 DEF Segments
  <2> HIDE DEF S
  <2>2. \E t \in S : \A u \in S : t =< u
    BY <2>1
  <2>3. s \in S /\ \A u \in S : s =< u
    <3>1. s = CHOOSE t \in S : \A u \in S : t =< u
      BY DEF S
    <3> HIDE DEF s
    <3> QED
      BY <2>2, <3>1
  <2> HIDE DEF s
  <2> QED
    BY <1>1, <2>1, <2>3
<1> HIDE DEF s
<1>6. Obtained(0)' /\ Len(segments') = full + 1
  <2>1. segments \in Seq(Nat) /\ Len(segments) = full
    BY <1>1, <1>4
  <2>2. Len(segments') = full + 1
    BY <1>2, <1>5, <2>1
  <2>3. segments' = [n \in 1 .. full + 1 |-> 0 + n]
    BY <1>1, <1>2, <1>4, <1>5, <2>1
  <2>4. allocated' = 0 + 1 .. 0 + (full + 1)
    BY <1>1, <1>2, <1>4, <1>5
  <2> QED
    BY <1>1, <1>3, <2>2, <2>3, <2>4 DEF Obtained
<1>7. guard' = [at |-> FirstCell, count |-> 0]
  BY <1>2 DEF NewGuard
<1>8. FirstCell' = FirstCell /\ CellsToFill' = CellsToFill
  BY <1>2, SameRequest DEF FirstCell, CellsToFill
<1>9. ASSUME NEW a \in Nat, NEW i \in Indices
      PROVE  Present(a, i)' <=> Present(a, i)
  <2>1. i \in Nat /\ FirstCell \in Nat /\ guard.at \in Nat
    BY <1>1, SegmentAtHand DEF Indices, Progress
  <2>2. Between(a, i, Start, PastAll)' <=> Between(a, i, Start, PastAll)
    BY <1>2, SameRequest DEF Between, Ahead
  <2>3. Present(a, i) <=> a < full /\ Between(a, i, Start, PastAll)
    BY <1>1, <2>1 DEF Present, Building, Failing
  <2>4. Present(a, i)' <=> a < full /\ Between(a, i, Start, PastAll)'
    BY <1>1, <1>2, <1>7, <2>1 DEF Present, Building, Failing
  <2> QED
    BY <2>2, <2>3, <2>4
<1>10. CellsHold'
  BY <1>1, <1>2, <1>9, CellsKept
<1>11. Progress'
  BY <1>1, <1>2, <1>6, <1>7, <1>8, SameRequest, SegmentAtHand, SegmentAssumption DEF Progress
<1>12. FreesEmpty
  BY <1>2 DEF FreesEmpty
<1> QED
  BY <1>1, <1>2, <1>10, <1>11, <1>12, SameRequest DEF ConstructInv, Building, Failing

LEMMA NextSegmentThrowsHolds ==
  ASSUME AllocatorThrowsIn \subseteq {"count"}
  PROVE  ConstructInv /\ NextSegmentThrows => ConstructInv' /\ FreesEmpty
<1> SUFFICES ASSUME ConstructInv, NextSegmentThrows PROVE ConstructInv' /\ FreesEmpty
  OBVIOUS
<1>1. /\ Asked /\ CellsHold /\ Progress /\ full < Needed
      /\ pc = "segment" /\ Len(segments) = full /\ guard.count = 0
  BY DEF ConstructInv, Progress, Building, NextSegmentThrows
<1>2. /\ request.form = "count" /\ pc' = "handler"
      /\ UNCHANGED <<request, segments, allocated, mem, full, guard, last, cursor>>
  BY DEF NextSegmentThrows
<1>3. ASSUME NEW a \in Nat, NEW i \in Indices
      PROVE  Present(a, i)' <=> Present(a, i)
  <2>1. Between(a, i, Start, PastAll)' <=> Between(a, i, Start, PastAll)
    BY <1>2, SameRequest DEF Between, Ahead
  <2> QED
    BY <1>1, <1>2, <2>1 DEF Present, Building, Failing
<1>4. CellsHold'
  BY <1>1, <1>2, <1>3, CellsKept
<1>5. Progress'
  <2>1. Obtained(0)' /\ 0 < SegmentSize
    <3>1. Obtained(0)
      BY <1>1 DEF Progress
    <3> QED
      BY <1>2, <3>1, SegmentAssumption DEF Obtained
  <2>2. /\ Start' = Start /\ PastAll' = PastAll /\ Needed' = Needed
        /\ FirstCell' = FirstCell /\ CellsToFill' = CellsToFill
    BY <1>2, SameRequest DEF FirstCell, CellsToFill
  <2> QED
    BY <1>1, <1>2, <2>1, <2>2 DEF Progress
<1> QED
  BY <1>1, <1>2, <1>4, <1>5, SameRequest DEF ConstructInv, Building, Failing, FreesEmpty

LEMMA FillOneHolds == ConstructInv /\ FillOne => ConstructInv' /\ FreesEmpty
<1> SUFFICES ASSUME ConstructInv, FillOne PROVE ConstructInv' /\ FreesEmpty
  OBVIOUS
<1> DEFINE cell == guard.at + guard.count
<1>1. /\ Asked /\ CellsHold /\ Progress /\ Obtained(0) /\ pc = "fill"
      /\ Len(segments) = full + 1 /\ full < Needed /\ full \in Nat
      /\ guard = [at |-> guard.at, count |-> guard.count]
      /\ guard.at = FirstCell /\ guard.count \in Nat /\ guard.count < CellsToFill
      /\ guard.at \in Nat
  BY DEF ConstructInv, Progress, Building, FillOne
<1>2. /\ mem' = [mem EXCEPT ![At(full)][cell] = Elem(cell)]
      /\ guard' = Extend(guard)
      /\ UNCHANGED <<request, pc, segments, allocated, full, last, cursor>>
  BY DEF FillOne
<1>3. /\ FirstCell \in Nat /\ CellsToFill \in Nat
      /\ FirstCell + CellsToFill =< SegmentSize /\ SegmentSize \in Nat
  BY <1>1, SegmentAtHand, SegmentAssumption
<1>4. cell \in Indices /\ cell \in Nat
  BY <1>1, <1>3 DEF Indices
<1>5. At(full) = full + 1 /\ full + 1 \in Segments
  <2>1. segments = [n \in 1 .. full + 1 |-> 0 + n] /\ 0 + (full + 1) =< MaxSegments
    BY <1>1 DEF Obtained
  <2>2. MaxSegments \in Nat
    BY BatchAssumption
  <2> QED
    BY <1>1, <2>1, <2>2 DEF At, Segments
<1>6. guard' = [at |-> guard.at, count |-> guard.count + 1]
  BY <1>1, <1>2 DEF Extend
<1>7. Between(full, cell, Start, PastAll)
  <2>1. FirstCell =< cell /\ cell < FirstCell + CellsToFill
    BY <1>1, <1>3
  <2> HIDE DEF cell
  <2> QED
    BY <1>1, <1>4, <2>1, SegmentAtHand
<1>8. Elem(cell) = ElementOf(full, cell) /\ ElementOf(full, cell) \in Slot
  <2> DEFINE y == full * SegmentSize
             e == y + cell - request.index + 1
  <2> HIDE DEF cell
  <2>1. request.index =< y + cell /\ y + cell < request.index + Len(request.xs)
    BY <1>1, <1>4, <1>7, PlanFacts
  <2>2. y \in Int /\ request.index \in Int /\ request.xs \in Seq(Values)
    BY <1>1, <1>3, <1>4 DEF Asked, Indices
  <2>3. ElementOf(full, cell) = request.xs[e]
    BY DEF ElementOf
  <2>4. Elem(cell) = request.xs[e]
    BY DEF Elem
  <2> HIDE DEF y
  <2>5. e \in 1 .. Len(request.xs)
    BY <1>4, <2>1, <2>2
  <2> HIDE DEF e
  <2> QED
    BY <2>2, <2>3, <2>4, <2>5 DEF Slot, Object
<1>9. ASSUME NEW a \in Nat, NEW i \in Indices
      PROVE  Present(a, i)' <=> Present(a, i) \/ (a = full /\ i = cell)
  <2>1. Between(a, i, Start, PastAll)' <=> Between(a, i, Start, PastAll)
    BY <1>2, SameRequest DEF Between, Ahead
  <2>2. i \in Nat
    BY DEF Indices
  <2>3. Present(a, i) <=> \/ a < full /\ Between(a, i, Start, PastAll)
                          \/ a = full /\ guard.at =< i /\ i < cell
    BY <1>1 DEF Present, Building, Failing
  <2>4. Present(a, i)' <=> \/ a < full /\ Between(a, i, Start, PastAll)'
                           \/ a = full /\ guard.at =< i /\ i < cell + 1
    BY <1>1, <1>2, <1>4, <1>6, <2>2 DEF Present, Building, Failing
  <2>5. guard.at =< cell
    BY <1>1
  <2> HIDE DEF cell
  <2>6. guard.at =< i /\ i < cell + 1 <=> (guard.at =< i /\ i < cell) \/ i = cell
    BY <1>1, <1>4, <2>2, <2>5
  <2> QED
    BY <2>1, <2>3, <2>4, <2>6
<1>10. CellsHold'
  <2> HIDE DEF cell
  <2>1. PICK b \in Nat, j \in Indices, v \in Slot :
               b = full /\ j = cell /\ v = Elem(cell)
    BY <1>1, <1>4, <1>8
  <2>2. mem' = [mem EXCEPT ![b + 1][j] = v] /\ b + 1 \in Segments
    BY <1>2, <1>5, <2>1
  <2>3. v = ElementOf(b, j)
    BY <1>8, <2>1
  <2>4. \A a \in Nat, i \in Indices :
          a # b \/ i # j => (Present(a, i)' <=> Present(a, i))
    BY <1>9, <2>1
  <2>5. Present(b, j)'
    BY <1>9, <2>1
  <2> QED
    BY <1>1, <1>2, <2>2, <2>3, <2>4, <2>5, CellWritten
<1>11. Progress'
  <2>1. FirstCell' = FirstCell /\ CellsToFill' = CellsToFill /\ Obtained(0)'
    BY <1>1, <1>2, SameRequest DEF FirstCell, CellsToFill, Obtained
  <2> QED
    BY <1>1, <1>2, <1>3, <1>6, <2>1, SameRequest DEF Progress
<1> QED
  BY <1>1, <1>2, <1>10, <1>11, SameRequest DEF ConstructInv, Building, Failing, FreesEmpty

LEMMA FillThrowsHolds == ConstructInv /\ FillThrows => ConstructInv' /\ FreesEmpty
<1> SUFFICES ASSUME ConstructInv, FillThrows PROVE ConstructInv' /\ FreesEmpty
  OBVIOUS
<1>1. /\ Asked /\ CellsHold /\ Progress /\ full < Needed /\ full \in Nat
      /\ pc = "fill" /\ Len(segments) = full + 1
      /\ guard.count < CellsToFill /\ guard.count \in Nat
  BY DEF ConstructInv, Progress, Building, FillThrows
<1>2. /\ pc' = IF request.form = "count" THEN "handler" ELSE "unwind"
      /\ UNCHANGED <<request, segments, allocated, mem, full, guard, last, cursor>>
  BY DEF FillThrows
<1>3. guard.count < SegmentSize
  BY <1>1, SegmentAtHand, SegmentAssumption
<1>4. ASSUME NEW a \in Nat, NEW i \in Indices
      PROVE  Present(a, i)' <=> Present(a, i)
  <2>1. Between(a, i, Start, PastAll)' <=> Between(a, i, Start, PastAll)
    BY <1>2, SameRequest DEF Between, Ahead
  <2> QED
    BY <1>1, <1>2, <2>1 DEF Present, Building, Failing
<1>5. CellsHold'
  BY <1>1, <1>2, <1>4, CellsKept
<1>6. Progress'
  BY <1>1, <1>2, <1>3, SameRequest DEF Progress, Obtained
<1> QED
  BY <1>1, <1>2, <1>5, <1>6, SameRequest DEF ConstructInv, Building, Failing, FreesEmpty

LEMMA SegmentFilledHolds == ConstructInv /\ SegmentFilled => ConstructInv' /\ FreesEmpty
<1> SUFFICES ASSUME ConstructInv, SegmentFilled PROVE ConstructInv' /\ FreesEmpty
  OBVIOUS
<1>1. /\ Asked /\ CellsHold /\ Progress /\ full < Needed /\ full \in Nat
      /\ pc = "fill" /\ Len(segments) = full + 1 /\ Needed \in Nat
      /\ guard = [at |-> guard.at, count |-> guard.count]
      /\ guard.count = CellsToFill /\ guard.at = FirstCell /\ guard.at \in Nat
  BY PlanFacts DEF ConstructInv, Progress, Building, SegmentFilled
<1>2. /\ pc' = "segment" /\ full' = full + 1 /\ guard' = Release(guard)
      /\ UNCHANGED <<request, segments, allocated, mem, last, cursor>>
  BY DEF SegmentFilled
<1>3. guard' = [at |-> guard.at, count |-> 0]
  BY <1>1, <1>2 DEF Release
<1>4. /\ FirstCell \in Nat /\ CellsToFill \in Nat
      /\ FirstCell + CellsToFill =< SegmentSize /\ SegmentSize \in Nat
  BY <1>1, SegmentAtHand, SegmentAssumption
<1>5. ASSUME NEW a \in Nat, NEW i \in Indices
      PROVE  Present(a, i)' <=> Present(a, i)
  <2>1. Between(a, i, Start, PastAll)' <=> Between(a, i, Start, PastAll)
    BY <1>2, SameRequest DEF Between, Ahead
  <2>2. Between(full, i, Start, PastAll) <=>
          guard.at =< i /\ i < guard.at + guard.count
    BY <1>1, SegmentAtHand
  <2>3. i \in Nat
    BY DEF Indices
  <2>4. Present(a, i) <=> \/ a < full /\ Between(a, i, Start, PastAll)
                          \/ a = full /\ Between(full, i, Start, PastAll)
    BY <1>1, <2>2 DEF Present, Building, Failing
  <2>5. Present(a, i)' <=> a < full + 1 /\ Between(a, i, Start, PastAll)'
    BY <1>1, <1>2, <1>3, <2>3 DEF Present, Building, Failing
  <2>6. a < full + 1 <=> a < full \/ a = full
    BY <1>1
  <2> QED
    BY <2>1, <2>4, <2>5, <2>6
<1>6. CellsHold'
  BY <1>1, <1>2, <1>5, CellsKept
<1>7. Progress'
  BY <1>1, <1>2, <1>3, <1>4, SameRequest DEF Progress, Obtained
<1> QED
  BY <1>1, <1>2, <1>6, <1>7, SameRequest DEF ConstructInv, Building, Failing, FreesEmpty


LEMMA CompleteHolds == ConstructInv /\ Complete => ConstructInv' /\ FreesEmpty
<1> SUFFICES ASSUME ConstructInv, Complete PROVE ConstructInv' /\ FreesEmpty
  OBVIOUS
<1>1. /\ Asked /\ CellsHold /\ Progress /\ Obtained(0) /\ last = PastAll
      /\ full = Needed /\ full \in Nat /\ pc = "segment" /\ Len(segments) = Needed
      /\ guard.count = 0 /\ guard.at \in Nat
  BY DEF ConstructInv, Progress, Building, Complete
<1>2. /\ pc' = "done"
      /\ UNCHANGED <<request, segments, allocated, mem, full, guard, last, cursor>>
  BY DEF Complete
<1>3. /\ Needed = PastAll.at + (IF PastAll.index > 0 THEN 1 ELSE 0)
      /\ PastAll.at \in Nat /\ PastAll.index \in Indices
  BY <1>1, PlanFacts
<1>4. ASSUME NEW a \in Nat, NEW i \in Indices
      PROVE  Present(a, i)' <=> Present(a, i)
  <2>1. Between(a, i, Start, PastAll)' <=> Between(a, i, Start, PastAll)
    BY <1>2, SameRequest DEF Between, Ahead
  <2>2. i \in Nat
    BY DEF Indices
  <2>3. Present(a, i) <=> a < full /\ Between(a, i, Start, PastAll)
    BY <1>1, <2>2 DEF Present, Building, Failing
  <2>4. Present(a, i)' <=> Between(a, i, Start, PastAll)'
    BY <1>2 DEF Present, Building, Failing
  <2>5. Ahead(a, i, PastAll) => a < full
    <3>1. PastAll.index \in Nat
      BY <1>3 DEF Indices
    <3> QED
      BY <1>1, <1>3, <2>2, <3>1 DEF Ahead
  <2> QED
    BY <2>1, <2>3, <2>4, <2>5 DEF Between
<1>5. CellsHold'
  BY <1>1, <1>2, <1>4, CellsKept
<1>6. Obtained(0)'
  BY <1>1, <1>2 DEF Obtained
<1> QED
  BY <1>1, <1>2, <1>5, <1>6, SameRequest DEF ConstructInv, Building, Failing, FreesEmpty

LEMMA UnwindHolds == ConstructInv /\ Unwind => ConstructInv' /\ FreesEmpty
<1> SUFFICES ASSUME ConstructInv, Unwind PROVE ConstructInv' /\ FreesEmpty
  OBVIOUS
<1>1. /\ Asked /\ CellsHold /\ Progress /\ Obtained(0) /\ pc = "unwind"
      /\ Len(segments) = full + 1 /\ full < Needed /\ full \in Nat
      /\ guard = [at |-> guard.at, count |-> guard.count] /\ request.form # "count"
      /\ guard.at \in Nat /\ guard.count \in Nat /\ guard.at + guard.count =< SegmentSize
  BY DEF ConstructInv, Progress, Building, Unwind
<1>2. UNCHANGED <<request, segments, allocated, full, last, cursor>>
  BY DEF Unwind
<1>3. Obtained(0)' /\ Asked' /\ FreesEmpty
  BY <1>1, <1>2, SameRequest DEF Obtained, FreesEmpty
<1>4. CASE Spent(guard)
  <2>1. pc' = "handler" /\ mem' = mem /\ guard' = guard /\ guard.count = 0
    BY <1>4 DEF Unwind, Spent
  <2>2. ASSUME NEW a \in Nat, NEW i \in Indices
        PROVE  Present(a, i)' <=> Present(a, i)
    <3>1. Between(a, i, Start, PastAll)' <=> Between(a, i, Start, PastAll)
      BY <1>2, SameRequest DEF Between, Ahead
    <3> QED
      BY <1>1, <1>2, <2>1, <3>1 DEF Present, Building, Failing
  <2>3. CellsHold'
    BY <1>1, <1>2, <2>1, <2>2, CellsKept
  <2>4. Progress'
    BY <1>1, <1>2, <1>3, <2>1, SameRequest DEF Progress
  <2> QED
    BY <1>3, <2>1, <2>3, <2>4 DEF ConstructInv, Building, Failing
<1>5. CASE ~Spent(guard)
  <2>1. /\ mem' = [mem EXCEPT ![At(full)][guard.at] = Raw]
        /\ guard' = AfterOne(guard) /\ pc' = "unwind" /\ guard.count > 0
    BY <1>1, <1>5 DEF Unwind, Spent
  <2>2. guard' = [at |-> guard.at + 1, count |-> guard.count - 1]
    BY <2>1 DEF AfterOne
  <2>3. At(full) = full + 1 /\ full + 1 \in Segments
    <3>1. segments = [n \in 1 .. full + 1 |-> 0 + n] /\ 0 + (full + 1) =< MaxSegments
      BY <1>1 DEF Obtained
    <3>2. MaxSegments \in Nat
      BY BatchAssumption
    <3> QED
      BY <1>1, <3>1, <3>2 DEF At, Segments
  <2>4. guard.at \in Indices
    BY <1>1, <2>1, SegmentAssumption DEF Indices
  <2>5. PICK b \in Nat, j \in Indices : b = full /\ j = guard.at
    BY <1>1, <2>4
  <2>6. ASSUME NEW a \in Nat, NEW i \in Indices
        PROVE  Present(a, i)' <=> Present(a, i) /\ ~(a = b /\ i = j)
    <3>1. Between(a, i, Start, PastAll)' <=> Between(a, i, Start, PastAll)
      BY <1>2, SameRequest DEF Between, Ahead
    <3>2. i \in Nat /\ j \in Nat
      BY DEF Indices
    <3>3. Present(a, i) <=> \/ a < b /\ Between(a, i, Start, PastAll)
                            \/ a = b /\ j =< i /\ i < j + guard.count
      BY <1>1, <2>5 DEF Present, Building, Failing
    <3>4. Present(a, i)' <=> \/ a < b /\ Between(a, i, Start, PastAll)'
                             \/ a = b /\ j + 1 =< i /\ i < j + 1 + (guard.count - 1)
      BY <1>1, <1>2, <2>1, <2>2, <2>5 DEF Present, Building, Failing
    <3>5. /\ j + 1 + (guard.count - 1) = j + guard.count
          /\ j + 1 =< i <=> j =< i /\ i # j
      BY <1>1, <3>2
    <3>6. a < b => a # b
      OBVIOUS
    <3> QED
      BY <3>1, <3>3, <3>4, <3>5, <3>6
  <2>7. CellsHold'
    <3>1. PICK v \in Slot : v = Raw
      BY DEF Slot
    <3>2. mem' = [mem EXCEPT ![b + 1][j] = v] /\ b + 1 \in Segments
      BY <2>1, <2>3, <2>5, <3>1
    <3>3. ~Present(b, j)'
      BY <2>6
    <3>4. \A a \in Nat, i \in Indices :
            a # b \/ i # j => (Present(a, i)' <=> Present(a, i))
      BY <2>6
    <3> QED
      BY <1>1, <1>2, <3>1, <3>2, <3>3, <3>4, CellWritten
  <2>8. /\ guard'.at = guard.at + 1 /\ guard'.count = guard.count - 1
        /\ guard' = [at |-> guard'.at, count |-> guard'.count]
        /\ guard'.at \in Nat /\ guard'.count \in Nat
        /\ guard'.at + guard'.count =< SegmentSize
    BY <1>1, <2>1, <2>2
  <2>9. Progress'
    BY <1>1, <1>2, <1>3, <2>1, <2>8, SameRequest DEF Progress
  <2> QED
    BY <1>3, <2>1, <2>7, <2>9 DEF ConstructInv, Building, Failing
<1> QED
  BY <1>4, <1>5

\* How far the constructor came is a place of the deque.
LEMMA CameTo ==
  ASSUME NEW a \in Nat, a =< MaxSegments, NEW i \in Indices, a < MaxSegments \/ i = 0
  PROVE  /\ Advance(It(0, 0), a * SegmentSize + i) = It(a, i)
<1> DEFINE p == a * SegmentSize + i
<1>1. p \in Nat /\ p < Word
  <2> DEFINE z == SegmentSize * MaxSegments
             y == a * SegmentSize
  <2>1. /\ z < Word \div 2 /\ Word \in Nat /\ Word >= 2 * SegmentSize /\ z \in Int
        /\ SegmentSize \in Nat /\ SegmentSize > 1
    BY SegmentAssumption, BatchAssumption
  <2>2. y =< z /\ y \in Nat
    BY <2>1, BatchAssumption
  <2>3. i \in Nat /\ i < SegmentSize
    BY <2>1 DEF Indices
  <2> HIDE DEF y, z
  <2>4. 2 * SegmentSize =< Word => SegmentSize =< Word \div 2
    BY <2>1
  <2>5. (Word \div 2) + (Word \div 2) =< Word
    BY <2>1
  <2>6. y + i < Word /\ y + i \in Nat
    BY <2>1, <2>2, <2>3, <2>4, <2>5
  <2> QED
    BY <2>6 DEF y
<1>2. a \in Int
  OBVIOUS
<1>3. p \div SegmentSize = a /\ p % SegmentSize = i
  BY <1>2, PlaceOf
<1> HIDE DEF p
<1>4. p % Word = p
  BY <1>1, Remainders
<1>5. Advance(It(0, 0), p) = It(0 + (p % Word) \div SegmentSize, (p % Word) % SegmentSize)
  BY <1>1 DEF Advance, It, Unsigned
<1> QED
  BY <1>3, <1>4, <1>5 DEF p


LEMMA CountHandlerHolds == ConstructInv /\ CountHandler => ConstructInv' /\ FreesEmpty
<1> SUFFICES ASSUME ConstructInv, CountHandler PROVE ConstructInv' /\ FreesEmpty
  OBVIOUS
<1>1. /\ Asked /\ CellsHold /\ Progress /\ Obtained(0) /\ pc = "handler"
      /\ full < Needed /\ full \in Nat /\ guard.at = 0 /\ request.index = 0
      /\ guard.count \in Nat /\ guard.count < SegmentSize /\ cursor = Start
      /\ Len(segments) = full + 1 \/ (Len(segments) = full /\ guard.count = 0)
  BY DEF ConstructInv, Progress, Building, CountHandler, Asked
<1>2. /\ last' = Advance(Start, ElementsSoFar) /\ pc' = "destroy"
      /\ UNCHANGED <<request, segments, allocated, mem, full, guard, cursor>>
  BY DEF CountHandler
<1>3. Start = It(0, 0) /\ Needed =< MaxSegments /\ Needed \in Nat /\ MaxSegments \in Nat
  BY <1>1, PlanFacts, BatchAssumption
<1>4. guard.count \in Indices /\ 0 \in Indices
  BY <1>1, SegmentAssumption DEF Indices
<1>5. last' = It(full, guard.count)
  BY <1>1, <1>2, <1>3, <1>4, CameTo DEF ElementsSoFar
<1>6. ASSUME NEW a \in Nat, NEW i \in Indices
      PROVE  Present(a, i)' <=> Present(a, i)
  <2>1. i \in Nat
    BY DEF Indices
  <2>2. ~Ahead(a, i, Start)
    BY <1>3, <2>1 DEF Ahead, It
  <2>3. a < full => Ahead(a, i, PastAll)
    BY <1>1, SegmentAtHand
  <2>4. Present(a, i) <=> a < full \/ (a = full /\ i < guard.count)
    BY <1>1, <2>1, <2>2, <2>3 DEF Present, Building, Failing, Between
  <2>5. Present(a, i)' <=> Between(a, i, cursor, last)'
    BY <1>2 DEF Present, Building, Failing
  <2>6. Between(a, i, cursor, last)' <=> ~Ahead(a, i, Start) /\ Ahead(a, i, last')
    BY <1>1, <1>2 DEF Between, Ahead
  <2>7. Ahead(a, i, last') <=> a < full \/ (a = full /\ i < guard.count)
    BY <1>5 DEF Ahead, It
  <2> QED
    BY <2>2, <2>4, <2>5, <2>6, <2>7
<1>7. CellsHold'
  BY <1>1, <1>2, <1>6, CellsKept
<1>8. Obtained(0)' /\ 0 \in 0 .. MaxSegments
  <2>1. Obtained(0)'
    BY <1>1, <1>2 DEF Obtained
  <2> QED
    BY <1>3, <2>1
<1>9. Retreat'
  <2>1. cursor' = It(0, 0) /\ last' = It(full, guard.count)
    BY <1>1, <1>2, <1>3, <1>5
  <2>2. cursor'.at = 0 /\ cursor'.index = 0 /\ last'.at = full /\ last'.index = guard.count
    BY <2>1 DEF It
  <2>3. cursor' # last' => Ahead(0, 0, last')
    BY <1>1, <2>1, <2>2 DEF Ahead
  <2>4. last'.at < Len(segments') \/ (last'.at = Len(segments') /\ last'.index = 0)
    BY <1>1, <1>2, <2>2
  <2>5. Ahead(cursor.at, cursor.index, last)' <=> Ahead(0, 0, last')
    BY <2>2 DEF Ahead
  <2> QED
    BY <1>1, <1>2, <1>4, <1>8, <2>1, <2>2, <2>3, <2>4, <2>5 DEF Retreat
<1> QED
  BY <1>1, <1>2, <1>7, <1>9, SameRequest DEF ConstructInv, Building, Failing, FreesEmpty

LEMMA RangeHandlerHolds == ConstructInv /\ RangeHandler => ConstructInv' /\ FreesEmpty
<1> SUFFICES ASSUME ConstructInv, RangeHandler PROVE ConstructInv' /\ FreesEmpty
  OBVIOUS
<1> DEFINE rest == SubSeq(segments, 1, Len(segments) - 1)
<1>1. /\ Asked /\ CellsHold /\ Progress /\ Obtained(0) /\ pc = "handler"
      /\ full < Needed /\ full \in Nat /\ guard.at \in Nat /\ guard.count = 0
      /\ cursor = Start /\ Len(segments) = full + 1 /\ request.form # "count"
  BY DEF ConstructInv, Progress, Building, RangeHandler
<1>2. /\ Start = It(0, request.index) /\ request.index \in Indices
      /\ Needed =< MaxSegments /\ Needed \in Nat /\ MaxSegments \in Nat
  BY <1>1, PlanFacts, BatchAssumption
<1>3. segments = [n \in 1 .. full + 1 |-> 0 + n] /\ allocated = 0 + 1 .. 0 + (full + 1)
  BY <1>1 DEF Obtained
<1>4. segments # << >>
  BY <1>1
<1>5. /\ allocated' = allocated \ {segments[Len(segments)]} /\ segments' = rest
      /\ last' = EndAfterFailure(Len(rest)) /\ pc' = "destroy"
      /\ UNCHANGED <<request, mem, full, guard, cursor>>
  BY <1>4 DEF RangeHandler
<1>6. /\ rest = [n \in 1 .. full |-> 0 + n] /\ Len(rest) = full
      /\ segments[Len(segments)] = full + 1
  <2>1. Len(segments) - 1 = full
    BY <1>1
  <2>2. rest = [n \in 1 .. full |-> segments[n + 0]]
    BY <1>1, <2>1
  <2> QED
    BY <1>1, <1>3, <2>1, <2>2
<1> HIDE DEF rest
<1>7. Obtained(0)' /\ 0 \in 0 .. MaxSegments
  <2>1. allocated' = 0 + 1 .. 0 + full
    <3>1. allocated' = (0 + 1 .. 0 + (full + 1)) \ {full + 1}
      BY <1>3, <1>5, <1>6
    <3> QED
      BY <1>1, <3>1
  <2>2. Len(segments') = full /\ segments' = [n \in 1 .. full |-> 0 + n]
    BY <1>5, <1>6
  <2>3. full \in Nat /\ 0 + full =< MaxSegments
    BY <1>1, <1>2
  <2> QED
    BY <1>2, <2>1, <2>2, <2>3 DEF Obtained
<1>8. last' = IF request.form = "copy" /\ full = 0 THEN Start ELSE It(full, 0)
  BY <1>5, <1>6 DEF EndAfterFailure
<1>9. 0 \in Indices /\ \A i \in Indices : i \in Nat
  BY SegmentAssumption DEF Indices
<1>10. \A a \in Nat, i \in Indices : Present(a, i) <=> a < full /\ ~Ahead(a, i, Start)
  <2> SUFFICES ASSUME NEW a \in Nat, NEW i \in Indices
               PROVE  Present(a, i) <=> a < full /\ ~Ahead(a, i, Start)
    OBVIOUS
  <2>1. a < full => Ahead(a, i, PastAll)
    BY <1>1, SegmentAtHand
  <2> QED
    BY <1>1, <1>9, <2>1 DEF Present, Building, Failing, Between
<1>11. ASSUME NEW a \in Nat, NEW i \in Indices
       PROVE  Present(a, i)' <=> Present(a, i)
  <2>1. Present(a, i)' <=> ~Ahead(a, i, Start) /\ Ahead(a, i, last')
    BY <1>1, <1>5 DEF Present, Building, Failing, Between, Ahead
  <2>2. CASE request.form = "copy" /\ full = 0
    BY <1>8, <1>10, <2>1, <2>2
  <2>3. CASE ~(request.form = "copy" /\ full = 0)
    <3>1. Ahead(a, i, last') <=> a < full
      BY <1>8, <1>9, <2>3 DEF Ahead, It
    <3> QED
      BY <1>10, <2>1, <3>1
  <2> QED
    BY <2>2, <2>3
<1>12. CellsHold'
  BY <1>1, <1>5, <1>11, CellsKept
<1>13. Retreat'
  <2>1. /\ cursor' = It(0, request.index) /\ cursor'.at = 0 /\ cursor'.index = request.index
    BY <1>1, <1>2, <1>5 DEF It
  <2>2. CASE cursor' = last'
    BY <1>2, <1>5, <1>7, <1>9, <2>1, <2>2 DEF Retreat
  <2>3. CASE cursor' # last'
    <3>1. last' = It(full, 0) /\ last'.at = full /\ last'.index = 0
      BY <1>1, <1>5, <1>8, <2>3 DEF It
    <3>2. full > 0
      BY <1>1, <1>2, <2>1, <2>3, <3>1, <1>8 DEF Asked
    <3>3. Ahead(cursor.at, cursor.index, last)'
      BY <2>1, <3>1, <3>2 DEF Ahead
    <3>4. Len(segments') = full
      BY <1>5, <1>6
    <3> QED
      BY <1>1, <1>2, <1>5, <1>7, <1>9, <2>1, <3>1, <3>3, <3>4 DEF Retreat
  <2> QED
    BY <2>2, <2>3
<1>14. FreesEmpty
  <2>1. allocated \ allocated' \subseteq {full + 1} /\ full + 1 \in Segments
    BY <1>1, <1>2, <1>5, <1>6 DEF Segments
  <2>2. \A i \in Indices : ~Present((full + 1) - 1, i)
    BY <1>1, <1>10
  <2>3. mem[full + 1] = EmptySegment
    BY <1>1, <2>1, <2>2, SegmentEmpty
  <2> QED
    BY <2>1, <2>3 DEF FreesEmpty
<1> QED
  BY <1>1, <1>5, <1>12, <1>13, <1>14, SameRequest DEF ConstructInv, Building, Failing


\* The next cell comes right after.
LEMMA AfterCursor ==
  ASSUME NEW c \in [at : Nat, index : Indices], NEW a \in Nat, NEW i \in Indices
  PROVE  /\ Increment(c) \in [at : Nat, index : Indices]
         /\ Ahead(a, i, Increment(c)) <=> Ahead(a, i, c) \/ (a = c.at /\ i = c.index)
<1>1. /\ c.at \in Nat /\ c.index \in Indices /\ c.index \in Nat /\ i \in Nat
      /\ SegmentSize \in Nat /\ SegmentSize > 1 /\ i < SegmentSize /\ c.index < SegmentSize
  BY SegmentAssumption DEF Indices
<1>2. CASE c.index + 1 = SegmentSize
  <2>1. Increment(c) = [at |-> c.at + 1, index |-> 0]
    BY <1>2 DEF Increment, It
  <2>2. 0 \in Indices
    BY <1>1 DEF Indices
  <2> QED
    BY <1>1, <1>2, <2>1, <2>2 DEF Ahead
<1>3. CASE c.index + 1 # SegmentSize
  <2>1. Increment(c) = [at |-> c.at, index |-> c.index + 1]
    BY <1>3 DEF Increment, It
  <2>2. c.index + 1 \in Indices
    BY <1>1, <1>3 DEF Indices
  <2> QED
    BY <1>1, <1>3, <2>1, <2>2 DEF Ahead
<1> QED
  BY <1>2, <1>3

LEMMA DestroyOneHolds == ConstructInv /\ DestroyOne => ConstructInv' /\ FreesEmpty
<1> SUFFICES ASSUME ConstructInv, DestroyOne PROVE ConstructInv' /\ FreesEmpty
  OBVIOUS
<1>1. /\ Asked /\ CellsHold /\ Retreat /\ pc = "destroy" /\ cursor # last
  BY DEF ConstructInv, Building, Failing, DestroyOne
<1>2. /\ cursor.at \in Nat /\ last.at \in Nat
      /\ cursor = It(cursor.at, cursor.index) /\ cursor.index \in Indices
      /\ last = It(last.at, last.index) /\ last.index \in Indices
      /\ Ahead(cursor.at, cursor.index, last) /\ Obtained(0)
      /\ last.at < Len(segments) \/ (last.at = Len(segments) /\ last.index = 0)
  BY <1>1 DEF Retreat
<1>3. Len(segments) \in Nat /\ Len(segments) =< MaxSegments /\ MaxSegments \in Nat
      /\ \A i \in Indices : i \in Nat
  BY <1>2, BatchAssumption, SegmentAssumption DEF Obtained, Indices
<1>4. cursor.at < Len(segments)
  <2>1. cursor.index \in Nat /\ last.index \in Nat
    BY <1>2, <1>3
  <2> QED
    BY <1>2, <1>3, <2>1 DEF Ahead
<1>5. /\ mem' = [mem EXCEPT ![At(cursor.at)][cursor.index] = Raw]
      /\ cursor' = Increment(cursor) /\ pc' = pc
      /\ UNCHANGED <<request, segments, allocated, full, guard, last>>
  BY <1>2, <1>3, <1>4 DEF DestroyOne
<1>6. At(cursor.at) = cursor.at + 1 /\ cursor.at + 1 \in Segments
  <2>1. segments = [n \in 1 .. Len(segments) |-> 0 + n]
    BY <1>2 DEF Obtained
  <2> QED
    BY <1>2, <1>3, <1>4, <2>1 DEF At, Segments
<1>7. PICK b \in Nat, j \in Indices : b = cursor.at /\ j = cursor.index
  BY <1>2
<1>8. cursor \in [at : Nat, index : Indices] /\ last \in [at : Nat, index : Indices]
  BY <1>2 DEF It
<1>9. /\ cursor' \in [at : Nat, index : Indices]
      /\ \A a \in Nat, i \in Indices :
           Ahead(a, i, cursor') <=> Ahead(a, i, cursor) \/ (a = b /\ i = j)
  BY <1>5, <1>7, <1>8, AfterCursor
<1>10. Ahead(b, j, last) /\ ~Ahead(b, j, cursor)
  BY <1>2, <1>3, <1>7 DEF Ahead
<1>11. ASSUME NEW a \in Nat, NEW i \in Indices
       PROVE  Present(a, i)' <=> Present(a, i) /\ ~(a = b /\ i = j)
  <2>1. Present(a, i) <=> ~Ahead(a, i, cursor) /\ Ahead(a, i, last)
    BY <1>1 DEF Present, Building, Failing, Between
  <2>2. Present(a, i)' <=> ~Ahead(a, i, cursor') /\ Ahead(a, i, last)
    BY <1>1, <1>5 DEF Present, Building, Failing, Between, Ahead
  <2> QED
    BY <1>9, <2>1, <2>2
<1>12. CellsHold'
  <2>1. PICK v \in Slot : v = Raw
    BY DEF Slot
  <2>2. mem' = [mem EXCEPT ![b + 1][j] = v] /\ b + 1 \in Segments
    BY <1>5, <1>6, <1>7, <2>1
  <2>3. ~Present(b, j)'
    BY <1>11
  <2>4. \A a \in Nat, i \in Indices :
          a # b \/ i # j => (Present(a, i)' <=> Present(a, i))
    BY <1>11
  <2> QED
    BY <1>1, <1>5, <2>1, <2>2, <2>3, <2>4, CellWritten
<1>13. Obtained(0)' /\ 0 \in 0 .. MaxSegments
  BY <1>2, <1>3, <1>5 DEF Obtained
<1>14. cursor' # last => Ahead(cursor'.at, cursor'.index, last)
  <2> DEFINE c == cursor'
  <2>1. c \in [at : Nat, index : Indices]
    BY <1>9
  <2>2. /\ ~Ahead(last.at, last.index, last)
        /\ ~(last.at = b /\ last.index = j)
    <3>1. last.index \in Nat
      BY <1>2, <1>3
    <3> QED
      BY <1>2, <1>3, <1>7, <3>1 DEF Ahead
  <2>3. ~Ahead(last.at, last.index, cursor)
    <3>1. cursor.index \in Nat /\ last.index \in Nat
      BY <1>2, <1>3
    <3> QED
      BY <1>2, <3>1 DEF Ahead
  <2>4. ~Ahead(last.at, last.index, c)
    BY <1>2, <1>9, <2>2, <2>3
  <2> HIDE DEF c
  <2>5. c.at \in Nat /\ c.index \in Nat /\ last.index \in Nat
    BY <1>2, <1>3, <2>1
  <2>6. c # last => c.at # last.at \/ c.index # last.index
    BY <1>8, <2>1
  <2>7. c # last => Ahead(c.at, c.index, last)
    BY <1>2, <2>4, <2>5, <2>6 DEF Ahead
  <2> QED
    BY <2>7 DEF c
<1>15. Retreat'
  <2>1. /\ cursor'.at \in Nat /\ cursor'.index \in Indices
        /\ cursor' = It(cursor'.at, cursor'.index)
    BY <1>9 DEF It
  <2>2. Ahead(cursor.at, cursor.index, last)' <=> Ahead(cursor'.at, cursor'.index, last)
    BY <1>5 DEF Ahead
  <2> QED
    BY <1>1, <1>2, <1>5, <1>13, <1>14, <2>1, <2>2 DEF Retreat
<1> QED
  BY <1>1, <1>5, <1>12, <1>15, SameRequest DEF ConstructInv, Building, Failing, FreesEmpty

LEMMA FreeOneHolds == ConstructInv /\ FreeOne => ConstructInv' /\ FreesEmpty
<1> SUFFICES ASSUME ConstructInv, FreeOne PROVE ConstructInv' /\ FreesEmpty
  OBVIOUS
<1>1. /\ Asked /\ CellsHold /\ Retreat /\ pc = "destroy" /\ cursor = last /\ segments # << >>
  BY DEF ConstructInv, Building, Failing, FreeOne
<1>2. /\ allocated' = allocated \ {At(0)} /\ segments' = SubSeq(segments, 2, Len(segments))
      /\ UNCHANGED <<request, pc, mem, full, guard, last, cursor>>
  BY DEF FreeOne
<1>3. PICK j \in 0 .. MaxSegments : Obtained(j)
  BY <1>1 DEF Retreat
<1> DEFINE m == Len(segments)
<1>4. /\ m \in Nat \ {0} /\ j + m =< MaxSegments /\ MaxSegments \in Nat /\ j \in Nat
      /\ segments = [n \in 1 .. m |-> j + n] /\ allocated = j + 1 .. j + m
  <2>1. /\ m \in Nat /\ j + m =< MaxSegments /\ MaxSegments \in Nat /\ j \in Nat
        /\ segments = [n \in 1 .. m |-> j + n] /\ allocated = j + 1 .. j + m
    BY <1>3, BatchAssumption DEF Obtained
  <2>2. m # 0
    <3>1. segments \in Seq(Nat)
      BY <2>1
    <3> QED
      BY <1>1, <3>1
  <2> QED
    BY <2>1, <2>2
<1>5. At(0) = j + 1
  BY <1>4 DEF At
<1>6. ASSUME NEW a \in Nat, NEW i \in Indices
      PROVE  ~Present(a, i) /\ ~Present(a, i)'
  <2>1. ~Between(a, i, cursor, last) /\ ~Between(a, i, cursor, last)'
    BY <1>1, <1>2 DEF Between, Ahead
  <2> QED
    BY <1>1, <1>2, <2>1 DEF Present, Building, Failing
<1>7. CellsHold'
  BY <1>1, <1>2, <1>6, CellsKept
<1>8. Obtained(j + 1)' /\ j + 1 \in 0 .. MaxSegments
  <2>1. segments \in Seq(Nat)
    BY <1>4
  <2>2. /\ Len(segments') = m - 1
        /\ segments' = [n \in 1 .. m - 1 |-> (j + 1) + n]
    <3>1. Len(segments') = m - 1 /\ segments' \in Seq(Nat)
      <4>1. segments' = SubSeq(segments, 2, m)
        BY <1>2
      <4> QED
        BY <1>4, <2>1, <4>1
    <3>2. \A n \in 1 .. m - 1 : segments'[n] = segments[n + 1]
      BY <1>2, <1>4, <2>1
    <3> HIDE DEF m
    <3>3. \A n \in 1 .. m - 1 : segments'[n] = (j + 1) + n
      BY <1>4, <3>2
    <3> QED
      BY <1>4, <3>1, <3>3
  <2>3. allocated' = (j + 1) + 1 .. (j + 1) + (m - 1)
    <3> HIDE DEF m
    <3>1. allocated' = (j + 1 .. j + m) \ {j + 1}
      BY <1>2, <1>4, <1>5
    <3> QED
      BY <1>4, <3>1
  <2> HIDE DEF m
  <2>4. m - 1 \in Nat /\ (j + 1) + (m - 1) =< MaxSegments /\ j + 1 \in 0 .. MaxSegments
    BY <1>4
  <2> QED
    BY <2>2, <2>3, <2>4 DEF Obtained
<1>9. Retreat'
  <2>1. \E k \in 0 .. MaxSegments : Obtained(k)'
    BY <1>8
  <2> QED
    BY <1>1, <1>2, <2>1 DEF Retreat
<1>10. FreesEmpty
  <2>1. allocated \ allocated' \subseteq {j + 1} /\ j + 1 \in Segments
    BY <1>2, <1>4, <1>5 DEF Segments
  <2>2. (j + 1) - 1 = j /\ j \in Nat
    BY <1>4
  <2>3. mem[j + 1] = EmptySegment
    BY <1>1, <1>6, <2>1, <2>2, SegmentEmpty
  <2> QED
    BY <2>1, <2>3 DEF FreesEmpty
<1> QED
  BY <1>1, <1>2, <1>7, <1>9, <1>10, SameRequest DEF ConstructInv, Building, Failing

LEMMA RethrowHolds == ConstructInv /\ Rethrow => ConstructInv' /\ FreesEmpty
<1> SUFFICES ASSUME ConstructInv, Rethrow PROVE ConstructInv' /\ FreesEmpty
  OBVIOUS
<1>1. /\ Asked /\ CellsHold /\ Retreat /\ pc = "destroy" /\ cursor = last /\ segments = << >>
  BY DEF ConstructInv, Building, Failing, Rethrow
<1>2. /\ pc' = "threw"
      /\ UNCHANGED <<request, segments, allocated, mem, full, guard, last, cursor>>
  BY DEF Rethrow
<1>3. \A a \in Nat, i \in Indices : Present(a, i)' <=> Present(a, i)
  BY <1>1, <1>2 DEF Present, Building, Failing, Between, Ahead
<1>4. CellsHold'
  BY <1>1, <1>2, <1>3, CellsKept
<1>5. Retreat'
  <2>1. PICK j \in 0 .. MaxSegments : Obtained(j)
    BY <1>1 DEF Retreat
  <2>2. Obtained(j)'
    BY <1>2, <2>1 DEF Obtained
  <2> QED
    BY <1>1, <1>2, <2>2 DEF Retreat
<1> QED
  BY <1>1, <1>2, <1>4, <1>5, SameRequest DEF ConstructInv, Building, Failing, FreesEmpty


\* The segments suffice for what is asked.
EnoughSegments ==
  \A n \in 0 .. MaxElements, index \in Indices : SegmentCount(index + n) =< MaxSegments

LEMMA ConstructBegins ==
  ASSUME MaxElements \in Nat, EnoughSegments
  PROVE  ConstructInit => ConstructInv
<1> SUFFICES ASSUME ConstructInit PROVE ConstructInv
  OBVIOUS
<1>1. PICK form \in Forms, n \in 0 .. MaxElements, index \in Indices :
        /\ form # "copy" => index = 0
        /\ \E xs \in [1 .. n -> Values] :
             request = [form |-> form, xs |-> xs, index |-> index]
  BY DEF ConstructInit
<1>2. PICK xs \in [1 .. n -> Values] :
        /\ form # "copy" => index = 0
        /\ request = [form |-> form, xs |-> xs, index |-> index]
  BY <1>1
<1>3. /\ pc = "segment" /\ segments = << >> /\ allocated = {}
      /\ mem = [s \in Segments |-> EmptySegment] /\ full = 0 /\ guard = NewGuard(0)
      /\ last = PastAll /\ cursor = Start
  BY DEF ConstructInit
<1>4. Asked
  <2>1. xs \in Seq(Values) /\ Len(xs) = n
    BY <1>2
  <2>2. SegmentCount(index + n) =< MaxSegments
    BY DEF EnoughSegments
  <2> QED
    BY <1>2, <2>1, <2>2 DEF Asked
<1>5. guard = [at |-> 0, count |-> 0]
  BY <1>3 DEF NewGuard
<1>6. \A a \in Nat, i \in Indices : ~Present(a, i)
  BY <1>3, <1>5, SegmentAssumption DEF Present, Building, Failing, Indices
<1>7. CellsHold
  <2>1. \A s \in Segments : s - 1 \in Nat
    BY DEF Segments
  <2>2. EmptySegment \in Segment
    BY DEF EmptySegment, Segment, Slot
  <2> QED
    BY <1>3, <1>6, <2>1, <2>2 DEF CellsHold, EmptySegment
<1>8. Obtained(0)
  <2>1. Len(segments) = 0 /\ 0 + 0 =< MaxSegments
    BY <1>3, BatchAssumption
  <2>2. segments = [k \in 1 .. 0 |-> 0 + k] /\ allocated = 0 + 1 .. 0 + 0
    BY <1>3
  <2> QED
    BY <2>1, <2>2 DEF Obtained
<1>9. Needed \in Nat /\ Len(segments) = 0
  BY <1>3, <1>4, PlanFacts
<1>10. Progress
  BY <1>3, <1>5, <1>8, <1>9, SegmentAssumption DEF Progress
<1> QED
  BY <1>3, <1>4, <1>7, <1>10 DEF ConstructInv, Building, Failing

LEMMA ConstructNext ==
  ASSUME AllocatorThrowsIn \subseteq {"count"}
  PROVE  ConstructInv /\ [ConstructStep]_constructVars => ConstructInv' /\ FreesEmpty
<1>1. ConstructInv /\ UNCHANGED constructVars => ConstructInv' /\ FreesEmpty
  <2> SUFFICES ASSUME ConstructInv, UNCHANGED constructVars PROVE ConstructInv' /\ FreesEmpty
    OBVIOUS
  <2>1. UNCHANGED <<request, pc, segments, allocated, mem, full, guard, last, cursor>>
    BY DEF constructVars
  <2>2. \A a \in Nat, i \in Indices : Present(a, i)' <=> Present(a, i)
    BY <2>1, SameRequest DEF Present, Building, Failing, Between, Ahead
  <2>3. CellsHold' /\ (Asked => Asked')
    BY <2>1, <2>2, CellsKept, SameRequest DEF ConstructInv
  <2>4. \A j : Obtained(j)' <=> Obtained(j)
    BY <2>1 DEF Obtained
  <2>5. Progress => Progress'
    BY <2>1, <2>4, SameRequest DEF Progress, FirstCell, CellsToFill
  <2>6. Retreat => Retreat'
    BY <2>1, <2>4 DEF Retreat, Ahead
  <2>7. PastAll' = PastAll /\ Needed' = Needed
    BY <2>1, SameRequest
  <2> QED
    BY <2>1, <2>3, <2>4, <2>5, <2>6, <2>7 DEF ConstructInv, Building, Failing, FreesEmpty
<1> QED
  BY <1>1, NextSegmentHolds, NextSegmentThrowsHolds, FillOneHolds, FillThrowsHolds,
     SegmentFilledHolds, CompleteHolds, UnwindHolds, CountHandlerHolds, RangeHandlerHolds,
     DestroyOneHolds, FreeOneHolds, RethrowHolds DEF ConstructStep

LEMMA AlwaysConstructInv ==
  ASSUME MaxElements \in Nat, EnoughSegments, AllocatorThrowsIn \subseteq {"count"}
  PROVE  ConstructSpec => []ConstructInv
<1>1. ConstructInit => ConstructInv
  BY ConstructBegins
<1>2. ConstructInv /\ [ConstructStep]_constructVars => ConstructInv'
  BY ConstructNext
<1> QED
  BY <1>1, <1>2, PTL DEF ConstructSpec

\* Each segment that a constructor returns to the allocator has no object in it,
\* whichever constructor of an element threw: the handlers of batch_deque.hpp:404,
\* 491 and 563 find every element that was constructed.
THEOREM SegmentsFreedEmpty ==
  ASSUME MaxElements \in Nat, EnoughSegments, AllocatorThrowsIn \subseteq {"count"}
  PROVE  ConstructSpec => [][FreesEmpty]_constructVars
<1>1. ConstructInv /\ [ConstructStep]_constructVars => [FreesEmpty]_constructVars
  BY ConstructNext
<1> QED
  BY <1>1, AlwaysConstructInv, PTL DEF ConstructSpec


\* What a constructor leaves is what BatchDequeOps says, or nothing.
LEMMA LeavesAllOrNothing ==
  ASSUME ConstructInv
  PROVE  (pc = "done" => Seen = Wanted) /\ (pc = "threw" => Seen = Nothing)
<1>1. CASE pc = "done"
  <2> DEFINE k == SegmentCount(request.index + Len(request.xs))
             m == [Map!Reserved(0, Needed) EXCEPT
                     !.slots = Map!Put(@, 0, [s \in 1 .. k |-> s]), !.back = k]
             d == Built(Needed, request.index, request.xs)
             at(s, i) == (s - 1) * SegmentSize + i - request.index + 1
  <2>1. /\ Asked /\ CellsHold /\ last = PastAll /\ Obtained(0) /\ Len(segments) = Needed
    BY <1>1 DEF ConstructInv, Building, Failing
  <2>2. /\ Start = It(0, request.index) /\ Needed = k /\ k \in Nat
        /\ k =< MaxSegments /\ k =< MapMax /\ MapMax \in Nat /\ MaxSegments \in Nat
    <3>1. /\ Start = It(0, request.index) /\ Needed = k /\ Needed \in Nat
          /\ Needed =< MaxSegments
      BY <2>1, PlanFacts
    <3> HIDE DEF k
    <3> QED
      BY <3>1, BatchAssumption
  <2>3. /\ d.map = m /\ d.allocated = 1 .. k
        /\ d.mem = [s \in Segments |-> [i \in Indices |->
                      IF at(s, i) \in 1 .. Len(request.xs) THEN request.xs[at(s, i)] ELSE Raw]]
        /\ d.end = Advance(It(0, request.index), Len(request.xs))
    BY DEF Built
  <2>4. m.back = k /\ \A a \in 0 .. k - 1 : m.slots[a] = a + 1
    <3> HIDE DEF k
    <3> DEFINE g(n, j) == [Map!Reserved(0, n) EXCEPT
                             !.slots = Map!Put(@, 0, [s \in 1 .. j |-> s]), !.back = j]
    <3>1. PICK n \in Nat, j \in Nat : n = Needed /\ j = k
      BY <2>2
    <3>2. n =< MapMax /\ j =< n /\ j =< MaxSegments
      BY <2>2, <3>1
    <3>3. g(n, j).back = j /\ \A a \in 0 .. j - 1 : g(n, j).slots[a] = a + 1
      BY <3>2, BuiltMap
    <3>4. m = g(n, j)
      BY <3>1
    <3> HIDE DEF g, m
    <3> QED
      BY <3>1, <3>3, <3>4
  <2> HIDE DEF m
  <2>5. segments = [n \in 1 .. k |-> 0 + n] /\ allocated = 0 + 1 .. 0 + k
    <3> HIDE DEF k
    <3> QED
      BY <2>1, <2>2 DEF Obtained
  <2>6. d.end = last
    BY <2>1, <2>2, <2>3 DEF PastAll
  <2>7. mem = d.mem
    <3>1. ASSUME NEW s \in Segments, NEW i \in Indices
          PROVE  mem[s][i] = IF at(s, i) \in 1 .. Len(request.xs)
                             THEN request.xs[at(s, i)] ELSE Raw
      <4> DEFINE y == (s - 1) * SegmentSize
                 e == at(s, i)
      <4>1. s - 1 \in Nat /\ y \in Int /\ i \in Int
            /\ request.index \in Int /\ Len(request.xs) \in Nat
        BY <2>1, SegmentAssumption DEF Segments, Indices, Asked
      <4>2. Present(s - 1, i) <=> Between(s - 1, i, Start, PastAll)
        BY <1>1 DEF Present, Building, Failing
      <4>3. Between(s - 1, i, Start, PastAll) <=>
              request.index =< y + i /\ y + i < request.index + Len(request.xs)
        BY <2>1, <4>1, PlanFacts
      <4>4. ElementOf(s - 1, i) = request.xs[e]
        BY DEF ElementOf
      <4>5. mem[s][i] = IF Present(s - 1, i) THEN ElementOf(s - 1, i) ELSE Raw
        BY <2>1 DEF CellsHold
      <4>6. e \in 1 .. Len(request.xs) <=>
              request.index =< y + i /\ y + i < request.index + Len(request.xs)
        <5> DEFINE x == request.index
                   n == Len(request.xs)
        <5>1. e = y + i - x + 1 /\ y \in Int /\ i \in Int /\ x \in Int /\ n \in Nat
          BY <4>1
        <5> HIDE DEF y, e, x, n
        <5>2. e \in 1 .. n <=> x =< y + i /\ y + i < x + n
          BY <5>1
        <5> QED
          BY <5>2 DEF x, n
      <4> HIDE DEF e
      <4>7. mem[s][i] = IF e \in 1 .. Len(request.xs) THEN request.xs[e] ELSE Raw
        BY <4>2, <4>3, <4>4, <4>5, <4>6
      <4> QED
        BY <4>7 DEF e
    <3>2. mem \in [Segments -> [Indices -> Slot]]
      BY <2>1 DEF CellsHold, Segment
    <3> HIDE DEF at, d
    <3> QED
      BY <2>3, <3>1, <3>2
  <2>8. segments = [i \in 1 .. d.map.back |-> d.map.slots[i - 1]]
    <3> HIDE DEF k, d
    <3>1. \A i \in 1 .. k : m.slots[i - 1] = i
      <4> SUFFICES ASSUME NEW i \in 1 .. k PROVE m.slots[i - 1] = i
        OBVIOUS
      <4>1. i - 1 \in 0 .. k - 1 /\ (i - 1) + 1 = i
        BY <2>2
      <4> QED
        BY <2>4, <4>1
    <3> QED
      BY <2>2, <2>3, <2>4, <2>5, <3>1
  <2>9. allocated = d.allocated
    <3> HIDE DEF k, d
    <3> QED
      BY <2>2, <2>3, <2>5
  <2> QED
    BY <1>1, <2>6, <2>7, <2>8, <2>9 DEF Seen, Wanted
<1>2. CASE pc = "threw"
  <2>1. /\ CellsHold /\ cursor = last /\ segments = << >>
        /\ \E j \in 0 .. MaxSegments : Obtained(j)
    BY <1>2 DEF ConstructInv, Building, Failing, Retreat
  <2>2. allocated = {}
    <3>1. PICK j \in 0 .. MaxSegments : Obtained(j)
      BY <2>1
    <3>2. Len(segments) = 0 /\ j \in Int
      BY <2>1
    <3> QED
      BY <3>1, <3>2 DEF Obtained
  <2>3. ASSUME NEW s \in Segments PROVE mem[s] = EmptySegment
    <3>1. \A i \in Indices : ~Present(s - 1, i)
      BY <1>2, <2>1 DEF Present, Building, Failing, Between
    <3> QED
      BY <2>1, <3>1, SegmentEmpty
  <2>4. mem = [s \in Segments |-> EmptySegment]
    BY <2>1, <2>3 DEF CellsHold
  <2> QED
    BY <1>2, <2>1, <2>2, <2>4 DEF Seen, Nothing
<1> QED
  BY <1>1, <1>2

Promise == INSTANCE StrongCall WITH
             object <- Seen, wanted <- Wanted,
             outcome <- IF pc \in {"done", "threw", "undefined"} THEN pc ELSE "running"

\* A constructor of a batch_deque that returns has built what BatchDequeOps says it
\* builds, segment by segment; one in which something throws has left no object and no
\* segment behind, and its handlers do not read outside of the map.
THEOREM ConstructsAllOrNothing ==
  ASSUME MaxElements \in Nat, EnoughSegments, AllocatorThrowsIn \subseteq {"count"}
  PROVE  ConstructSpec => Promise!Init /\ [][Promise!Next]_Promise!callVars
<1>1. ConstructInit => Promise!Init
  BY DEF ConstructInit, Promise!Init
<1>2. ConstructInv => (pc = "done" => Seen = Wanted) /\ (pc = "threw" => Seen = Nothing)
  BY LeavesAllOrNothing
<1>3. ConstructInv' =>
        ((pc = "done" => Seen = Wanted) /\ (pc = "threw" => Seen = Nothing))'
  BY <1>2, PTL
<1>4. ASSUME ConstructInv, ConstructInv', [ConstructStep]_constructVars
      PROVE  [Promise!Next]_Promise!callVars
  <2>1. request' = request /\ Wanted' = Wanted /\ Nothing' = Nothing
    <3>1. request' = request
      BY <1>4 DEF ConstructStep, constructVars, NextSegment, NextSegmentThrows, FillOne,
         FillThrows, SegmentFilled, Complete, Unwind, CountHandler, RangeHandler,
         DestroyOne, FreeOne, Rethrow
    <3> QED
      BY <3>1, SameRequest DEF Wanted, Nothing
  <2>2. pc' # "undefined"
    BY <1>4 DEF ConstructInv, Building, Failing
  <2>3. CASE UNCHANGED constructVars
    <3>1. pc' = pc /\ Seen' = Seen
      BY <2>1, <2>3 DEF constructVars, Seen
    <3> QED
      BY <2>1, <3>1 DEF Promise!callVars
  <2>4. CASE Complete
    <3>1. pc = "segment" /\ pc' = "done"
      BY <2>4 DEF Complete
    <3>2. Seen' = Wanted
      BY <1>3, <1>4, <2>1, <3>1
    <3> QED
      BY <2>1, <3>1, <3>2 DEF Promise!Next, Promise!Return
  <2>5. CASE Rethrow
    <3>1. pc = "destroy" /\ pc' = "threw"
      BY <2>5 DEF Rethrow
    <3>2. Seen' = Nothing /\ Seen = Nothing
      BY <1>3, <1>4, <2>1, <3>1 DEF Seen
    <3> QED
      BY <2>1, <3>1, <3>2 DEF Promise!Next, Promise!Throw
  <2>6. CASE \/ NextSegment \/ NextSegmentThrows \/ FillOne \/ FillThrows \/ SegmentFilled
             \/ Unwind \/ CountHandler \/ RangeHandler \/ DestroyOne \/ FreeOne
    <3>1. /\ pc \notin {"done", "threw", "undefined"}
          /\ pc' \notin {"done", "threw", "undefined"}
      BY <2>2, <2>6 DEF NextSegment, NextSegmentThrows, FillOne, FillThrows, SegmentFilled,
         Unwind, CountHandler, RangeHandler, DestroyOne, FreeOne
    <3>2. Seen' = Seen
      BY <2>1, <3>1 DEF Seen
    <3> QED
      BY <2>1, <3>1, <3>2 DEF Promise!callVars
  <2> QED
    BY <1>4, <2>3, <2>4, <2>5, <2>6 DEF ConstructStep
<1> QED
  BY <1>1, <1>4, AlwaysConstructInv, PTL DEF ConstructSpec

-----------------------------------------------------------------------------
\* An archive: what calls wrote, one after the other

\* What calls wrote is one after the other, up to ends[k] after the k-th.
Split(xs, parts, n, ends) ==
  /\ n \in Nat /\ parts \in [1 .. n -> Seq(Object)]
  /\ ends \in [0 .. n -> 0 .. Len(xs)] /\ ends[0] = 0 /\ ends[n] = Len(xs)
  /\ \A k \in 1 .. n :
       /\ ends[k] = ends[k - 1] + Len(parts[k])
       /\ \A i \in 1 .. Len(parts[k]) : parts[k][i] = xs[ends[k - 1] + i]

\* The elements up to the end of a part are those up to the one before, and the part.
LEMMA PartAppended ==
  ASSUME NEW xs \in Seq(Object), NEW m \in 0 .. Len(xs), NEW part \in Seq(Object),
         m + Len(part) \in 0 .. Len(xs),
         \A i \in 1 .. Len(part) : part[i] = xs[m + i]
  PROVE  /\ FirstPart(xs, m + Len(part)) = FirstPart(xs, m) \o part
         /\ m = 0 => FirstPart(xs, m + Len(part)) = part
<1> DEFINE n == m + Len(part)
           u == FirstPart(xs, n)
           v == FirstPart(xs, m) \o part
<1>0. Len(part) \in Nat /\ m \in Nat /\ n \in Nat
  OBVIOUS
<1>1. /\ u \in Seq(Object) /\ Len(u) = n /\ \A i \in 1 .. n : u[i] = xs[i]
  BY PartsAre
<1>2. /\ FirstPart(xs, m) \in Seq(Object) /\ Len(FirstPart(xs, m)) = m
      /\ \A i \in 1 .. m : FirstPart(xs, m)[i] = xs[i]
  BY PartsAre
<1> HIDE DEF n, u
<1>3. v \in Seq(Object) /\ Len(v) = n
  <2> DEFINE w == FirstPart(xs, m)
  <2> HIDE DEF w
  <2>1. w \in Seq(Object) /\ part \in Seq(Object) /\ Len(w) = m
    BY <1>2 DEF w
  <2>2. w \o part \in Seq(Object) /\ Len(w \o part) = Len(w) + Len(part)
    BY <2>1, ConcatProperties
  <2> QED
    BY <2>1, <2>2 DEF n, w
<1>4. ASSUME NEW i \in 1 .. n PROVE v[i] = xs[i]
  <2>1. CASE i =< m
    <3>1. i \in 1 .. m
      BY <1>0, <1>4, <2>1
    <3>2. v[i] = FirstPart(xs, m)[i]
      BY <1>0, <1>2, <3>1
    <3> QED
      BY <1>2, <3>1, <3>2
  <2>2. CASE ~(i =< m)
    <3>1. i - m \in 1 .. Len(part) /\ m + (i - m) = i
      BY <1>0, <2>2 DEF n
    <3>2. v[i] = part[i - m]
      BY <1>0, <1>2, <2>2, <3>1 DEF n
    <3> QED
      BY <3>1, <3>2
  <2> QED
    BY <2>1, <2>2
<1> HIDE DEF v
<1>5. u = v
  BY <1>0, <1>1, <1>3, <1>4
<1>6. ASSUME m = 0 PROVE u = part
  <2>1. Len(part) = n
    BY <1>0, <1>6 DEF n
  <2>2. \A i \in 1 .. n : part[i] = xs[i]
    <3>1. \A i \in 1 .. Len(part) : part[i] = xs[i]
      BY <1>6
    <3> QED
      BY <2>1, <3>1
  <2>3. u \in Seq(Object) /\ part \in Seq(Object) /\ \A i \in 1 .. n : u[i] = part[i]
    BY <1>1, <2>2
  <2> QED
    BY <1>1, <2>1, <2>3
<1> QED
  BY <1>5, <1>6 DEF u, v, n

LEMMA Flattened ==
  ASSUME NEW xs \in Seq(Object), NEW parts, NEW n, NEW ends, Split(xs, parts, n, ends)
  PROVE  Ext!FlattenSeq(parts) = xs
<1> DEFINE R(f) == [i \in 1 .. n |-> IF i = 1 THEN parts[i] ELSE f[i - 1] \o parts[i]]
           g == [i \in 1 .. n |-> FirstPart(xs, ends[i])]
<1>1. /\ n \in Nat /\ parts \in [1 .. n -> Seq(Object)] /\ Len(xs) \in Nat
      /\ ends \in [0 .. n -> 0 .. Len(xs)] /\ ends[0] = 0 /\ ends[n] = Len(xs)
  BY DEF Split
<1>2. parts \in Seq(Seq(Object)) /\ Len(parts) = n
  BY <1>1
<1>3. ASSUME NEW i \in 1 .. n
      PROVE  g[i] = IF i = 1 THEN parts[i] ELSE g[i - 1] \o parts[i]
  <2>1. i - 1 \in 0 .. n /\ i \in 0 .. n
    BY <1>1
  <2>2. /\ ends[i] = ends[i - 1] + Len(parts[i]) /\ parts[i] \in Seq(Object)
        /\ ends[i - 1] \in 0 .. Len(xs) /\ ends[i] \in 0 .. Len(xs)
        /\ \A j \in 1 .. Len(parts[i]) : parts[i][j] = xs[ends[i - 1] + j]
    BY <1>1, <2>1 DEF Split
  <2>3. /\ g[i] = FirstPart(xs, ends[i - 1]) \o parts[i]
        /\ ends[i - 1] = 0 => g[i] = parts[i]
    <3> DEFINE m == ends[i - 1]
               part == parts[i]
    <3>1. /\ m \in 0 .. Len(xs) /\ part \in Seq(Object) /\ m + Len(part) = ends[i]
          /\ m + Len(part) \in 0 .. Len(xs)
          /\ \A j \in 1 .. Len(part) : part[j] = xs[m + j]
      BY <2>2
    <3> HIDE DEF m, part
    <3>2. /\ FirstPart(xs, m + Len(part)) = FirstPart(xs, m) \o part
          /\ m = 0 => FirstPart(xs, m + Len(part)) = part
      BY <3>1, PartAppended
    <3> QED
      BY <3>1, <3>2 DEF m, part
  <2>4. CASE i = 1
    <3>1. ends[i - 1] = 0
      BY <1>1, <2>4
    <3> QED
      BY <2>3, <2>4, <3>1
  <2>5. CASE i # 1
    <3>1. i - 1 \in 1 .. n
      BY <1>1, <2>1, <2>5
    <3>2. g[i - 1] = FirstPart(xs, ends[i - 1])
      BY <3>1
    <3> QED
      BY <2>3, <2>5, <3>2
  <2> QED
    BY <2>4, <2>5
<1>4. g = R(g)
  <2>1. g = [i \in 1 .. n |-> g[i]]
    OBVIOUS
  <2> HIDE DEF g
  <2> QED
    BY <1>3, <2>1
<1> HIDE DEF g
<1> DEFINE F == CHOOSE f : f = R(f)
<1>5. F = R(F)
  <2> HIDE DEF R
  <2> QED
    BY <1>4
<1>6. \A k \in Nat : k + 1 =< n => F[k + 1] = g[k + 1]
  <2> DEFINE P == {k \in Nat : k + 1 =< n => F[k + 1] = g[k + 1]}
  <2> HIDE DEF F
  <2>1. 0 \in P
    <3> SUFFICES ASSUME 1 =< n PROVE F[1] = g[1]
      OBVIOUS
    <3>1. 1 \in 1 .. n
      BY <1>1
    <3> QED
      BY <1>4, <1>5, <3>1
  <2>2. ASSUME NEW k \in P PROVE k + 1 \in P
    <3> SUFFICES ASSUME k + 1 + 1 =< n PROVE F[k + 1 + 1] = g[k + 1 + 1]
      OBVIOUS
    <3> DEFINE j == k + 1 + 1
    <3>1. /\ j \in 1 .. n /\ j # 1 /\ j - 1 = k + 1 /\ F[k + 1] = g[k + 1]
      BY <1>1, <2>2
    <3> HIDE DEF j
    <3>2. F[j] = F[j - 1] \o parts[j] /\ g[j] = g[j - 1] \o parts[j]
      BY <1>4, <1>5, <3>1
    <3> QED
      BY <3>1, <3>2 DEF j
  <2>3. P \in SUBSET Nat
    OBVIOUS
  <2>4. P = Nat
    <3> HIDE DEF P
    <3> QED
      BY <2>1, <2>2, <2>3, Induction
  <2> QED
    BY <2>4
<1>7. Ext!FlattenSeq(parts) = IF n = 0 THEN parts ELSE F[n]
  BY <1>2 DEF Ext!FlattenSeq
<1> HIDE DEF F
<1>8. CASE n = 0
  <2>1. Len(parts) = 0 /\ Len(xs) = 0 /\ parts \in Seq(Seq(Object))
    BY <1>1, <1>2, <1>8
  <2>2. parts = << >> /\ xs = << >>
    BY <2>1
  <2> QED
    BY <1>7, <1>8, <2>2
<1>9. CASE n # 0
  <2>1. n - 1 \in Nat /\ n - 1 + 1 = n /\ n \in 1 .. n
    BY <1>1, <1>9
  <2>2. F[n] = g[n]
    BY <1>6, <2>1
  <2>3. g[n] = FirstPart(xs, Len(xs))
    BY <1>1, <2>1 DEF g
  <2> QED
    BY <1>7, <1>9, <2>2, <2>3, WholeParts
<1> QED
  BY <1>8, <1>9

-----------------------------------------------------------------------------
\* The pieces, one for each call, are the elements up to ends[k] after the k-th.
PiecesEnd(d, n, ends) ==
  /\ n \in Nat /\ ends \in [0 .. n -> 0 .. SizeOf(d)] /\ ends[0] = 0 /\ ends[n] = SizeOf(d)
  /\ Pieces(d) = [k \in 1 .. n |-> First(d) + ends[k - 1] .. First(d) + ends[k] - 1]
  /\ \A k \in 1 .. n : ends[k - 1] =< ends[k]
  /\ ~Trivial => n = SizeOf(d) /\ \A k \in 1 .. n : ends[k] = ends[k - 1] + 1

LEMMA PiecesAre ==
  ASSUME NEW d, NEW kept, NEW m0, Good(d, kept, m0)
  PROVE  \E n, ends : PiecesEnd(d, n, ends)
<1>0. /\ Shaped(d) /\ First(d) \in Int /\ Past(d) \in Int
      /\ SizeOf(d) = Past(d) - First(d) /\ SizeOf(d) \in Nat
  BY GoodNumbers
<1>1. CASE ~Trivial
  <2> DEFINE n == SizeOf(d)
             ends == [k \in 0 .. n |-> k]
  <2>1. n \in Nat /\ ends \in [0 .. n -> 0 .. n] /\ ends[0] = 0 /\ ends[n] = n
    BY <1>0
  <2>2. \A k \in 1 .. n : ends[k - 1] = k - 1 /\ ends[k] = k
    BY <1>0
  <2>3. \A k \in 1 .. n : {First(d) + k - 1} = First(d) + (k - 1) .. First(d) + k - 1
    BY <1>0
  <2>4. Pieces(d) = [k \in 1 .. n |-> {First(d) + k - 1}]
    BY <1>1 DEF Pieces
  <2> HIDE DEF ends
  <2>5. Pieces(d) = [k \in 1 .. n |-> First(d) + ends[k - 1] .. First(d) + ends[k] - 1]
    BY <2>2, <2>3, <2>4
  <2>6. \A k \in 1 .. n : ends[k - 1] =< ends[k] /\ ends[k] = ends[k - 1] + 1
    BY <2>1, <2>2
  <2>7. PiecesEnd(d, n, ends)
    BY <2>1, <2>5, <2>6 DEF PiecesEnd
  <2> QED
    BY <2>7
<1>2. CASE Trivial
  <2> DEFINE ba == d.begin.at
             bi == d.begin.index
             ea == d.end.at
             ei == d.end.index
             n  == SegmentEnd(d.end).at - d.begin.at
             lo == First(d)
             hi == Past(d)
             From(k) == IF k = 0 THEN lo ELSE IF k = n THEN hi ELSE (ba + k) * SegmentSize
             ends == [k \in 0 .. n |-> From(k) - lo]
  <2>1. /\ n \in Nat /\ ba \in Int /\ bi \in Indices /\ ea \in Int /\ ei \in Indices
        /\ ba =< ea /\ (n = 0 => bi = 0)
        /\ \A k \in Nat : k < n => ba + k < ea \/ (ba + k = ea /\ ei > 0)
    BY <1>0, SegmentNumbers
  <2>2. ba + n = ea + (IF ei > 0 THEN 1 ELSE 0)
    BY <2>1 DEF SegmentEnd, It
  <2>3. /\ lo = ba * SegmentSize + bi /\ hi = ea * SegmentSize + ei
        /\ lo \in Int /\ hi \in Int /\ lo =< hi
        /\ bi \in Nat /\ ei \in Nat /\ bi < SegmentSize /\ ei < SegmentSize
        /\ SegmentSize \in Nat /\ SegmentSize > 1
    BY <1>0, <2>1, SegmentAssumption DEF First, Past, Position, Indices
  <2>4. d.begin = It(ba, bi)
    BY <1>0, ShapedNumbers DEF Iterators, It
  <2> HIDE DEF n, lo, hi
\* Where a segment starts
  <2>5. ASSUME NEW k \in Nat, k < n
        PROVE  /\ k > 0 => lo < (ba + k) * SegmentSize /\ (ba + k) * SegmentSize =< hi
               /\ (ba + k) * SegmentSize \in Int
    <3>1. ba + k \in Int /\ ba + k =< ea
      BY <2>1, <2>5
    <3>2. (ba + k) * SegmentSize =< ea * SegmentSize + ei
      BY <2>1, <3>1, PlaceOrder
    <3>3. ba * SegmentSize + bi < (ba + k) * SegmentSize <=> ba < ba + k
      BY <2>1, <3>1, PlaceOrder
    <3>4. (ba + k) * SegmentSize \in Int
      BY <3>1, Distribute
    <3>5. k > 0 => ba < ba + k
      BY <2>1
    <3> QED
      BY <2>3, <3>2, <3>3, <3>4, <3>5
  <2>6. ASSUME NEW k \in 0 .. n PROVE From(k) \in Int /\ lo =< From(k) /\ From(k) =< hi
    <3>1. CASE k = 0
      BY <2>3, <3>1
    <3>2. CASE k # 0 /\ k = n
      BY <2>3, <3>2
    <3>3. CASE k # 0 /\ k # n
      <4>1. k \in Nat /\ k < n /\ k > 0
        BY <2>1, <3>3
      <4> DEFINE z == (ba + k) * SegmentSize
      <4>2. z \in Int /\ lo < z /\ z =< hi
        BY <2>5, <4>1
      <4>3. From(k) = z
        BY <3>3
      <4> HIDE DEF z, From
      <4> QED
        BY <2>3, <4>2, <4>3
    <3> QED
      BY <3>1, <3>2, <3>3
  <2>7. From(0) = lo /\ From(n) = hi
    <3>1. ASSUME n = 0 PROVE lo = hi
      <4>1. ba = ea + (IF ei > 0 THEN 1 ELSE 0) /\ bi = 0
        BY <2>1, <2>2, <3>1
      <4>2. ba = ea /\ ei = 0
        BY <2>1, <2>3, <4>1
      <4> QED
        BY <2>3, <4>1, <4>2
    <3> QED
      BY <3>1
\* What one segment iterator points to
  <2>8. ASSUME NEW k \in 1 .. n
        PROVE  /\ SegmentData(SegmentAt(d, k), d.end) = From(k - 1) .. From(k) - 1
               /\ From(k - 1) =< From(k)
    <3> DEFINE a == ba + (k - 1)
               j == IF k = 1 THEN bi ELSE 0
               A == a * SegmentSize
               size == IF a # ea THEN SegmentSize - j ELSE ei - j
    <3>0. k \in Nat /\ k - 1 \in Nat /\ k - 1 < n /\ k >= 1
      BY <2>1
    <3>1. a \in Int /\ j \in Nat /\ A \in Int /\ (a < ea \/ (a = ea /\ ei > 0))
      <4>1. a \in Int /\ j \in Nat /\ (a < ea \/ (a = ea /\ ei > 0))
        BY <2>1, <2>3, <3>0
      <4> HIDE DEF a
      <4> QED
        BY <4>1, Distribute
    <3>2. SegmentAt(d, k) = It(a, j)
      <4>1. CASE k = 1
        <5>1. a = ba /\ j = bi
          BY <2>1, <4>1
        <5> QED
          BY <2>4, <4>1, <5>1 DEF SegmentAt, SegmentBegin
      <4>2. CASE k # 1
        BY <4>2 DEF SegmentAt, SegmentBegin, SegmentAdvance, It
      <4> QED
        BY <4>1, <4>2
    <3>3. SegmentData(It(a, j), d.end) = A + j .. A + j + size - 1
      BY DEF SegmentData, Position, DataSize, It
    <3>4. A + j = From(k - 1)
      <4>1. CASE k = 1
        BY <2>1, <2>3, <4>1
      <4>2. CASE k # 1
        <5>1. k - 1 # 0 /\ k - 1 # n
          BY <2>1, <3>0, <4>2
        <5> QED
          BY <3>1, <4>2, <5>1
      <4> QED
        BY <4>1, <4>2
    <3>5. A + j + size = From(k) /\ 0 =< size /\ size \in Int
      <4>1. CASE a < ea
        <5>1. size = SegmentSize - j /\ size \in Int /\ 0 =< size
          BY <2>1, <2>3, <3>1, <4>1
        <5>2. (ba + k) * SegmentSize = A + SegmentSize
          <6>1. a + 1 = ba + k
            BY <2>1, <3>0
          <6>2. a \in Int
            BY <3>1
          <6> HIDE DEF a
          <6>3. (a + 1) * SegmentSize = a * SegmentSize + SegmentSize
            BY <6>2, SegmentBeside
          <6> QED
            BY <6>1, <6>3
        <5>3. CASE k # n
          BY <2>3, <3>0, <3>1, <5>1, <5>2, <5>3
        <5>4. CASE k = n
          <6>1. ea = ba + k /\ ei = 0
            BY <2>1, <2>2, <2>3, <3>0, <4>1, <5>4
          <6>2. hi = A + SegmentSize
            BY <2>3, <3>1, <5>2, <6>1
          <6>3. From(k) = hi
            BY <3>0, <5>4
          <6> HIDE DEF From, A, j, size
          <6> QED
            BY <2>3, <3>1, <5>1, <6>2, <6>3
        <5> QED
          BY <5>3, <5>4
      <4>2. CASE a = ea /\ ei > 0
        <5>1. k = n
          BY <2>1, <2>2, <3>0, <4>2
        <5>2. From(k) = hi
          BY <3>0, <5>1
        <5>3. hi = A + ei /\ size = ei - j
          BY <2>3, <4>2
        <5>4. j =< ei
          <6>1. CASE k = 1
            <7>1. A = ba * SegmentSize /\ j = bi
              BY <2>1, <6>1
            <7> HIDE DEF A, j
            <7> QED
              BY <2>3, <3>1, <5>3, <7>1
          <6>2. CASE k # 1
            BY <2>3, <6>2
          <6> QED
            BY <6>1, <6>2
        <5> HIDE DEF From, A, j, size
        <5> QED
          BY <2>3, <3>1, <5>2, <5>3, <5>4
      <4> QED
        BY <3>1, <4>1, <4>2
    <3> HIDE DEF A, j, size, From
    <3> QED
      BY <3>1, <3>2, <3>3, <3>4, <3>5
  <2>9. ends \in [0 .. n -> 0 .. SizeOf(d)] /\ ends[0] = 0 /\ ends[n] = SizeOf(d)
    <3>1. SizeOf(d) = hi - lo
      BY <1>0 DEF hi, lo
    <3>2. \A k \in 0 .. n : From(k) - lo \in 0 .. hi - lo
      <4> HIDE DEF From
      <4> QED
        BY <2>3, <2>6
    <3>3. 0 \in 0 .. n /\ n \in 0 .. n
      BY <2>1
    <3> HIDE DEF From
    <3> QED
      BY <2>3, <2>7, <3>1, <3>2, <3>3
  <2>10. ASSUME NEW k \in 1 .. n
         PROVE  /\ lo + ends[k - 1] = From(k - 1) /\ lo + ends[k] = From(k)
                /\ ends[k - 1] =< ends[k]
    <3>1. k \in 0 .. n /\ k - 1 \in 0 .. n
      BY <2>1
    <3>2. From(k) \in Int /\ From(k - 1) \in Int /\ From(k - 1) =< From(k)
      BY <2>6, <2>8, <3>1
    <3>3. ends[k] = From(k) - lo /\ ends[k - 1] = From(k - 1) - lo
      BY <3>1
    <3> HIDE DEF From, ends
    <3> QED
      BY <2>3, <3>2, <3>3
  <2>11. Pieces(d) = [k \in 1 .. n |-> lo + ends[k - 1] .. lo + ends[k] - 1]
    <3>1. Pieces(d) = [k \in 1 .. n |-> SegmentData(SegmentAt(d, k), d.end)]
      BY <1>2 DEF Pieces, SegmentsOf, SegmentBegin, n
    <3> HIDE DEF From, ends
    <3>2. ASSUME NEW k \in 1 .. n
          PROVE  SegmentData(SegmentAt(d, k), d.end) = lo + ends[k - 1] .. lo + ends[k] - 1
      <4>1. lo + ends[k - 1] = From(k - 1) /\ lo + ends[k] = From(k)
        BY <2>10
      <4>2. k \in 0 .. n /\ SizeOf(d) \in Nat
        BY <1>0, <2>1
      <4>3. ends[k] \in Int
        BY <2>9, <4>2
      <4>4. lo + ends[k] - 1 = From(k) - 1
        BY <2>3, <4>1, <4>3
      <4> QED
        BY <2>8, <4>1, <4>4
    <3> QED
      BY <3>1, <3>2
  <2> HIDE DEF ends, From
  <2>12. PiecesEnd(d, n, ends)
    BY <1>2, <2>1, <2>9, <2>10, <2>11 DEF PiecesEnd, lo
  <2> QED
    BY <2>12
<1> QED
  BY <1>1, <1>2

\* The lengths and the starts of pieces
LEMMA PieceIs ==
  ASSUME NEW d, NEW kept, NEW m0, Good(d, kept, m0), NEW n, NEW ends, PiecesEnd(d, n, ends),
         NEW k \in 1 .. n
  PROVE  /\ k - 1 \in 0 .. n /\ k \in 0 .. n
         /\ ends[k - 1] \in 0 .. SizeOf(d) /\ ends[k] \in 0 .. SizeOf(d)
         /\ ends[k - 1] =< ends[k]
         /\ Lengths(d)[k] = ends[k] - ends[k - 1]
         /\ Pieces(d)[k] = First(d) + ends[k - 1] .. First(d) + ends[k] - 1
         /\ ends[k - 1] < ends[k] => Ext!Min(Pieces(d)[k]) = First(d) + ends[k - 1]
<1> DEFINE a == First(d) + ends[k - 1]
           b == First(d) + ends[k] - 1
           P == Pieces(d)[k]
<1>1. First(d) \in Int /\ SizeOf(d) \in Nat /\ n \in Nat
  BY GoodNumbers DEF PiecesEnd
<1>2. k - 1 \in 0 .. n /\ k \in 0 .. n
  BY <1>1
<1>3. /\ ends[k - 1] \in 0 .. SizeOf(d) /\ ends[k] \in 0 .. SizeOf(d)
      /\ ends[k - 1] =< ends[k]
  BY <1>2 DEF PiecesEnd
<1>4. a \in Int /\ b \in Int /\ b - a + 1 = ends[k] - ends[k - 1] /\ a =< b + 1
  BY <1>1, <1>3
<1>5. P = a .. b /\ k \in DOMAIN Pieces(d)
  BY DEF PiecesEnd
<1>6. ends[k - 1] < ends[k] => a =< b
  BY <1>1, <1>3
<1>7. ends[k] - ends[k - 1] \in Int
  BY <1>3
<1> HIDE DEF a, b, P
<1>8. Cardinality(P) = IF a > b THEN 0 ELSE b - a + 1
  BY <1>4, <1>5, FS_Interval
<1>9. Lengths(d)[k] = ends[k] - ends[k - 1]
  <2>1. Cardinality(P) = b - a + 1
    BY <1>4, <1>8
  <2> QED
    BY <1>4, <1>5, <2>1 DEF Lengths, P
<1>10. ASSUME a =< b PROVE Ext!Min(P) = a
  <2>1. a \in P /\ \A y \in P : a =< y /\ y \in Int
    BY <1>4, <1>5, <1>10
  <2>2. \A x \in P : (\A y \in P : x =< y) => x = a
    BY <1>4, <2>1
  <2> DEFINE z == CHOOSE x \in P : \A y \in P : x =< y
  <2>3. z \in P /\ \A y \in P : z =< y
    BY <2>1
  <2> HIDE DEF z
  <2>4. z = a
    BY <2>2, <2>3
  <2> QED
    BY <2>4 DEF Ext!Min, z
<1> QED
  BY <1>2, <1>3, <1>5, <1>6, <1>9, <1>10 DEF a, b, P

\* Well as it is, and what was saved is objects; without segments, each on its own.
SerialInv ==
  /\ Good(deque, {}, {})
  /\ archive \in Seq(Seq(Object)) /\ Saved \in Seq(Object)
  /\ ~Trivial => Len(archive) = Len(Saved) /\ \A j \in 1 .. Len(archive) : Len(archive[j]) = 1

\* What is saved are the contents, whatever the segments they are in.
LEMMA SaveWrites ==
  ASSUME SerialInv, Save
  PROVE  SerialInv' /\ Saved' = Contents(deque)
<1> DEFINE xs == Contents(deque)
           s  == archive'
           lo == First(deque)
<1>1. Good(deque, {}, {}) /\ deque' = deque
  BY DEF SerialInv, Save
<1>2. PICK n, ends : PiecesEnd(deque, n, ends)
  BY <1>1, PiecesAre
<1>3. /\ n \in Nat /\ lo \in Int /\ SizeOf(deque) \in Nat
      /\ ends \in [0 .. n -> 0 .. SizeOf(deque)] /\ ends[0] = 0 /\ ends[n] = SizeOf(deque)
      /\ DOMAIN Pieces(deque) = 1 .. n
  BY <1>1, <1>2, GoodNumbers DEF PiecesEnd
<1>4. /\ xs \in Seq(Object) /\ Len(xs) = SizeOf(deque)
      /\ \A i \in 1 .. SizeOf(deque) : xs[i] = Cell(deque, lo + i - 1) /\ xs[i] \in Object
  <2>1. /\ Contents(deque) \in Seq(Object) /\ Len(Contents(deque)) = SizeOf(deque)
        /\ \A i \in 1 .. SizeOf(deque) :
             /\ Contents(deque)[i] = Cell(deque, First(deque) + i - 1)
             /\ Cell(deque, First(deque) + i - 1) \in Object
    BY <1>1, ContentsAre
  <2> QED
    BY <2>1
<1>5. s = [k \in 1 .. n |->
             [i \in 1 .. Lengths(deque)[k] |->
                Cell(deque, Ext!Min(Pieces(deque)[k]) + i - 1)]]
  BY <1>3 DEF Save
<1> HIDE DEF xs, s, lo
<1>6. ASSUME NEW k \in 1 .. n
      PROVE  /\ s[k] \in Seq(Object) /\ ends[k] = ends[k - 1] + Len(s[k])
             /\ ends[k] \in Nat /\ ends[k - 1] \in Nat
             /\ \A i \in 1 .. Len(s[k]) : s[k][i] = xs[ends[k - 1] + i]
  <2> DEFINE u == ends[k - 1]
             v == ends[k]
             c == Ext!Min(Pieces(deque)[k])
  <2>1. /\ u \in 0 .. SizeOf(deque) /\ v \in 0 .. SizeOf(deque) /\ u =< v
        /\ Lengths(deque)[k] = v - u
        /\ u < v => c = lo + u
    BY <1>1, <1>2, PieceIs DEF lo
  <2>2. s[k] = [i \in 1 .. v - u |-> Cell(deque, c + i - 1)]
    BY <1>5, <2>1
  <2> HIDE DEF u, v, c
  <2>3. v - u \in Nat /\ u \in Nat /\ v \in Nat /\ v = u + (v - u)
    BY <1>3, <2>1
  <2>4. ASSUME NEW i \in 1 .. v - u
        PROVE  Cell(deque, c + i - 1) = xs[u + i] /\ xs[u + i] \in Object
    <3>1. u + i \in 1 .. SizeOf(deque) /\ u < v
      BY <1>3, <2>1, <2>3
    <3>2. c + i - 1 = lo + (u + i) - 1
      BY <1>3, <2>1, <2>3, <3>1
    <3> QED
      BY <1>4, <3>1, <3>2
  <2>5. s[k] \in [1 .. v - u -> Object] /\ \A i \in 1 .. v - u : s[k][i] = xs[u + i]
    BY <2>2, <2>4
  <2>6. s[k] \in Seq(Object) /\ Len(s[k]) = v - u
    <3> DEFINE y == s[k]
               m == v - u
    <3>1. m \in Nat /\ y \in [1 .. m -> Object]
      BY <2>3, <2>5
    <3> HIDE DEF y, m
    <3>2. y \in Seq(Object) /\ Len(y) = m
      BY <3>1
    <3> QED
      BY <3>2 DEF y, m
  <2> QED
    BY <2>3, <2>5, <2>6 DEF u, v
<1>7. Split(xs, s, n, ends)
  <2>1. s \in [1 .. n -> Seq(Object)]
    <3>1. s = [k \in 1 .. n |-> s[k]]
      BY <1>5
    <3> QED
      BY <1>6, <3>1
  <2> QED
    BY <1>3, <1>4, <1>6, <2>1 DEF Split
<1>8. Ext!FlattenSeq(s) = xs
  BY <1>4, <1>7, Flattened
<1>9. Saved' = xs
  BY <1>8 DEF Saved, s
<1>10. ASSUME ~Trivial
       PROVE  Len(s) = Len(xs) /\ \A j \in 1 .. Len(s) : Len(s[j]) = 1
  <2>1. n = SizeOf(deque) /\ \A k \in 1 .. n : ends[k] = ends[k - 1] + 1
    BY <1>2, <1>10 DEF PiecesEnd
  <2>2. s \in [1 .. n -> Seq(Object)]
    BY <1>7 DEF Split
  <2>3. Len(s) = n
    BY <1>3, <2>2
  <2>4. ASSUME NEW j \in 1 .. n PROVE Len(s[j]) = 1
    <3> DEFINE y == s[j]
               u == ends[j - 1]
    <3>1. y \in Seq(Object) /\ ends[j] = u + Len(y) /\ u \in Nat
      BY <1>6
    <3>2. ends[j] = u + 1
      BY <2>1
    <3> HIDE DEF y, u
    <3>3. Len(y) \in Nat
      BY <3>1
    <3>4. u + Len(y) = u + 1
      BY <3>1, <3>2
    <3>5. Len(y) = 1
      <4> DEFINE l == Len(y)
      <4>1. l \in Nat /\ u \in Nat /\ u + l = u + 1
        BY <3>1, <3>3, <3>4
      <4> HIDE DEF l
      <4>2. l = 1
        BY <4>1
      <4> QED
        BY <4>2 DEF l
    <3> QED
      BY <3>5 DEF y
  <2> QED
    BY <1>4, <2>1, <2>3, <2>4
<1>11. SerialInv'
  <2>1. Good(deque, {}, {})' /\ Saved' \in Seq(Object)
    BY <1>1, <1>4, <1>9
  <2>2. s \in Seq(Seq(Object))
    <3>1. s \in [1 .. n -> Seq(Object)]
      BY <1>7 DEF Split
    <3> QED
      BY <1>3, <3>1
  <2> QED
    BY <1>9, <1>10, <2>1, <2>2 DEF SerialInv, s
<1> QED
  BY <1>9, <1>11 DEF xs

-----------------------------------------------------------------------------
\* Making room

\* Pushes into free cells of the map get no segment.
LEMMA PushedIntoFront ==
  ASSUME NEW d, NEW kept, NEW m0, Good(d, kept, m0), Divides, NEW xs \in Seq(Object),
         NEW k \in 0 .. Len(xs), k =< FreeInFront(d), NEW e \in PushFront(d, xs)[k]
  PROVE  /\ Good(e, kept, m0) /\ e.allocated = d.allocated
         /\ FreeInFront(e) >= FreeInFront(d) - k /\ CellsBehind(e) = CellsBehind(d)
<1> DEFINE g == PushFront(d, xs)
           P == {j \in Nat : j =< k => \A h \in g[j] : h.allocated = d.allocated}
<1>0. Len(xs) \in Nat /\ k \in Nat /\ k =< Len(xs) /\ FreeInFront(d) \in Nat
  BY GoodNumbers
<1>1. /\ g[0] = {d}
      /\ \A j \in 1 .. Len(xs) : \A u \in g[j] : \E h \in g[j - 1] :
           EmplaceFrontOk(h) /\ u = EmplaceFront(h, xs[Len(xs) - j + 1])
  BY PushFrontSteps
<1>2. \A j \in 0 .. Len(xs) : \A h \in g[j] :
        /\ Good(h, kept, m0) /\ FreeInFront(h) + j >= FreeInFront(d)
        /\ CellsBehind(h) = CellsBehind(d)
  BY PushFrontGood
<1> HIDE DEF g
<1>3. 0 \in P
  BY <1>1
<1>4. ASSUME NEW j \in P PROVE j + 1 \in P
  <2> SUFFICES ASSUME j + 1 =< k, NEW u \in g[j + 1] PROVE u.allocated = d.allocated
    OBVIOUS
  <2>1. j + 1 \in 1 .. Len(xs) /\ j + 1 - 1 = j /\ j \in 0 .. Len(xs) /\ j =< k /\ j \in Nat
    BY <1>0
  <2>2. PICK h \in g[j] : u = EmplaceFront(h, xs[Len(xs) - (j + 1) + 1])
    BY <1>1, <2>1
  <2>3. /\ Good(h, kept, m0) /\ FreeInFront(h) + j >= FreeInFront(d)
        /\ h.allocated = d.allocated
    BY <1>2, <2>1
  <2>4. Shaped(h) /\ FreeInFront(h) \in Nat /\ FrontFreeCapacity(h) = FreeInFront(h)
    BY <2>3, GoodNumbers, FreeCells
  <2>5. FrontFreeCapacity(h) > 0
    BY <1>0, <2>1, <2>3, <2>4
  <2> DEFINE at == Advance(h.begin, -1)
             y  == xs[Len(xs) - (j + 1) + 1]
             s  == Construct(h, at, y)
  <2>6. u = [s EXCEPT !.begin = at]
    BY <2>2, <2>5 DEF EmplaceFront
  <2>7. y \in Slot
    <3>1. Len(xs) - (j + 1) + 1 \in 1 .. Len(xs)
      BY <1>0, <2>1
    <3> QED
      BY <3>1 DEF Slot
  <2>8. IsDeque(s) /\ s.allocated = h.allocated
    <3> DEFINE f == [p \in {Position(at)} |-> y]
    <3>1. \A p \in DOMAIN f : f[p] \in Slot
      BY <2>7
    <3>2. s = Store(h, f)
      BY DEF Construct
    <3> HIDE DEF f, s
    <3> QED
      BY <2>3, <3>1, <3>2, StoreIs DEF Good
  <2> HIDE DEF s, at
  <2> QED
    BY <2>3, <2>6, <2>8, WithBegin
<1>5. P \in SUBSET Nat
  OBVIOUS
<1>6. P = Nat
  <2> HIDE DEF P
  <2> QED
    BY <1>3, <1>4, <1>5, Induction
<1>7. e \in g[k]
  BY DEF g
<1>8. e.allocated = d.allocated
  BY <1>0, <1>6, <1>7
<1>9. /\ Good(e, kept, m0) /\ FreeInFront(e) + k >= FreeInFront(d)
      /\ CellsBehind(e) = CellsBehind(d)
  BY <1>2, <1>7
<1>10. FreeInFront(e) \in Nat
  BY <1>9, GoodNumbers
<1> QED
  BY <1>0, <1>8, <1>9, <1>10

LEMMA PushedIntoBack ==
  ASSUME NEW d, NEW kept, NEW m0, Good(d, kept, m0), NEW xs \in Seq(Object),
         NEW k \in 0 .. Len(xs), k =< CellsBehind(d), NEW e \in PushBack(d, xs)[k]
  PROVE  /\ Good(e, kept, m0) /\ e.allocated = d.allocated
         /\ CellsBehind(e) = CellsBehind(d) - k
<1> DEFINE g == PushBack(d, xs)
           P == {j \in Nat : j =< k =>
                   \A h \in g[j] : /\ h.allocated = d.allocated
                                   /\ CellsBehind(h) = CellsBehind(d) - j}
<1>0. Len(xs) \in Nat /\ k \in Nat /\ k =< Len(xs) /\ CellsBehind(d) \in Nat
  BY GoodNumbers, FreeCells
<1>1. /\ g[0] = {d}
      /\ \A j \in 1 .. Len(xs) : \A u \in g[j] : \E h \in g[j - 1] :
           EmplaceBackOk(h) /\ u = EmplaceBack(h, xs[j])
  BY PushBackSteps
<1>2. \A j \in 0 .. Len(xs) : \A h \in g[j] : Good(h, kept, m0)
  BY PushBackGood
<1> HIDE DEF g
<1>3. 0 \in P
  BY <1>0, <1>1
<1>4. ASSUME NEW j \in P PROVE j + 1 \in P
  <2> SUFFICES ASSUME j + 1 =< k, NEW u \in g[j + 1]
               PROVE  u.allocated = d.allocated /\ CellsBehind(u) = CellsBehind(d) - (j + 1)
    OBVIOUS
  <2>1. j + 1 \in 1 .. Len(xs) /\ j + 1 - 1 = j /\ j \in 0 .. Len(xs) /\ j =< k /\ j \in Nat
    BY <1>0
  <2>2. PICK h \in g[j] : EmplaceBackOk(h) /\ u = EmplaceBack(h, xs[j + 1])
    BY <1>1, <2>1
  <2>3. /\ Good(h, kept, m0) /\ CellsBehind(h) = CellsBehind(d) - j
        /\ h.allocated = d.allocated
    BY <1>2, <2>1
  <2>4. Shaped(h) /\ (BackFreeCapacity(h) > 0 <=> CellsBehind(h) > 0)
    BY <2>3, GoodNumbers, FreeCells
  <2>5. CellsBehind(h) > 0 /\ BackFreeCapacity(h) > 0
    BY <1>0, <2>1, <2>3, <2>4
  <2> DEFINE y == xs[j + 1]
             s == Construct(h, h.end, y)
             i == s.end
  <2>6. y \in Object /\ y \in Slot
    BY <2>1 DEF Slot
  <2>7. CellsBehind(u) = CellsBehind(h) - 1
    BY <2>2, <2>3, <2>5, <2>6, EmplaceBackGood DEF PushedBack
  <2>8. u = [s EXCEPT !.end = Increment(i)]
    BY <2>2, <2>5 DEF EmplaceBack
  <2>9. IsDeque(s) /\ s.allocated = h.allocated
    <3> DEFINE f == [p \in {Position(h.end)} |-> y]
    <3>1. \A p \in DOMAIN f : f[p] \in Slot
      BY <2>6
    <3>2. s = Store(h, f)
      BY DEF Construct
    <3> HIDE DEF f, s
    <3> QED
      BY <2>3, <3>1, <3>2, StoreIs DEF Good
  <2> HIDE DEF s, i
  <2>10. u.allocated = d.allocated
    BY <2>3, <2>8, <2>9, WithEnd
  <2> QED
    BY <1>0, <2>1, <2>3, <2>7, <2>10
<1>5. P \in SUBSET Nat
  OBVIOUS
<1>6. P = Nat
  <2> HIDE DEF P
  <2> QED
    BY <1>3, <1>4, <1>5, Induction
<1>7. e \in g[k]
  BY DEF g
<1> QED
  BY <1>0, <1>2, <1>6, <1>7

\* How many elements there will be in front
LEMMA FrontTaken ==
  ASSUME NEW d, NEW kept, NEW m0, Good(d, kept, m0), NEW n \in Nat
  PROVE  /\ ToFront(d, n) \in Nat /\ ToFront(d, n) =< n
         /\ ToFront(d, n) =< FreeInFront(d) + SizeOf(d)
         /\ ToFront(d, n) < n => ToFront(d, n) = FreeInFront(d) + SizeOf(d)
         /\ FreeInFront(d) \in Nat /\ SizeOf(d) \in Nat
<1>1. FreeInFront(d) \in Nat /\ SizeOf(d) \in Nat /\ FrontFreeCapacity(d) = FreeInFront(d)
  BY GoodNumbers, FreeCells
<1> QED
  BY <1>1 DEF ToFront, Smaller

\* Elements removed at an end leave the segments.
LEMMA ErasedKeepsSegments ==
  ASSUME NEW d, NEW kept, NEW m0, Good(d, kept, m0), NEW n
  PROVE  /\ EraseAtBegin(d, n).allocated = d.allocated
         /\ EraseAtEnd(d, n).allocated = d.allocated
<1>1. ASSUME NEW lo, NEW hi
      PROVE  IsDeque(Destroy(d, lo, hi)) /\ Destroy(d, lo, hi).allocated = d.allocated
  BY DestroyIs
<1>2. EraseAtBegin(d, n).allocated = d.allocated
  <2> DEFINE s == Destroy(d, First(d), First(d) + n)
             i == s.begin
  <2>1. EraseAtBegin(d, n) = [s EXCEPT !.begin = Advance(i, n)]
    BY DEF EraseAtBegin
  <2>2. IsDeque(s) /\ s.allocated = d.allocated
    BY <1>1
  <2> HIDE DEF s, i
  <2> QED
    BY <2>1, <2>2, WithBegin
<1>3. EraseAtEnd(d, n).allocated = d.allocated
  <2> DEFINE s == Destroy(d, First(d) + n, Past(d))
  <2>1. EraseAtEnd(d, n) = [s EXCEPT !.end = Advance(d.begin, n)]
    BY DEF EraseAtEnd
  <2>2. IsDeque(s) /\ s.allocated = d.allocated
    BY <1>1
  <2> HIDE DEF s
  <2> QED
    BY <2>1, <2>2, WithEnd
<1> QED
  BY <1>2, <1>3

\* The first resize, in front
LEMMA FrontIs ==
  ASSUME NEW d, NEW kept, NEW m0, Good(d, kept, m0), Divides, NEW n \in Nat,
         NEW e \in FrontResized(d, n)
  PROVE  /\ Good(e, kept, m0) /\ SizeOf(e) = ToFront(d, n) /\ e.allocated = d.allocated
         /\ SizeToReach(d, e, n) = n
         /\ ToFront(d, n) < n => CellsBehind(e) = CellsBehind(d)
<1> DEFINE t == ToFront(d, n)
           m == t - SizeOf(d)
<1>1. /\ t \in Nat /\ t =< n /\ t =< FreeInFront(d) + SizeOf(d)
      /\ t < n => t = FreeInFront(d) + SizeOf(d)
      /\ FreeInFront(d) \in Nat /\ SizeOf(d) \in Nat
  BY FrontTaken
<1>2. e \in ResizeFront(d, t, Default) /\ Default \in Object
  BY BatchAssumption DEF FrontResized, Object
<1> HIDE DEF t
<1>3. CASE t >= SizeOf(d)
  <2>1. m \in Nat /\ m =< FreeInFront(d) /\ t = SizeOf(d) + m
    BY <1>1, <1>3
  <2>2. e \in PushFront(d, Copies(m, Default))[m]
    BY <1>2, <1>3 DEF ResizeFront
  <2> HIDE DEF m
  <2> DEFINE xs == Copies(m, Default)
  <2>3. xs \in Seq(Object) /\ Len(xs) = m /\ m \in 0 .. Len(xs)
    <3>1. xs \in Seq(Object) /\ Len(xs) = m
      BY <1>2, <2>1, CopiesAre
    <3> QED
      BY <2>1, <3>1
  <2> HIDE DEF xs
  <2>4. e \in PushFront(d, xs)[m]
    BY <2>2 DEF xs
  <2>5. /\ Good(e, kept, m0) /\ e.allocated = d.allocated
        /\ CellsBehind(e) = CellsBehind(d)
    BY <2>1, <2>3, <2>4, PushedIntoFront
  <2>6. Grown(d, e, m, 0)
    BY <2>3, <2>4, PushFrontGood
  <2>7. SizeOf(e) = SizeOf(d) + m + 0
    BY <2>1, <2>5, <2>6, GrownSizeOf
  <2>8. SizeOf(e) = t
    BY <1>1, <2>1, <2>7
  <2> QED
    BY <1>1, <2>5, <2>8 DEF SizeToReach, t
<1>4. CASE ~(t >= SizeOf(d))
  <2>1. e = EraseAtBegin(d, SizeOf(d) - t)
    BY <1>2, <1>4 DEF ResizeFront
  <2>2. SizeOf(d) - t \in Nat /\ SizeOf(d) - t =< SizeOf(d) /\ t = n
    BY <1>1, <1>4
  <2>3. Good(e, kept, m0) /\ e.allocated = d.allocated
    BY <2>1, <2>2, EraseAtBeginGood, ErasedKeepsSegments DEF MovedTo
  <2>4. SizeOf(e) = t
    BY <1>1, <1>2, <1>4, ResizeFrontElements
  <2> QED
    BY <1>1, <2>2, <2>3, <2>4 DEF SizeToReach, t
<1> QED
  BY <1>1, <1>3, <1>4

\* Load finds room for n elements without a new segment.
HasRoom(d, n) == n =< FrontFreeCapacity(d) + SizeOf(d) + CellsBehind(d)

LEMMA RoomToRead ==
  ASSUME NEW d, NEW kept, NEW m0, Good(d, kept, m0), Divides, NEW n \in Nat,
         NEW e \in Resized(d, n)
  PROVE  /\ Good(e, kept, m0) /\ SizeOf(e) = n
         /\ HasRoom(d, n) => e.allocated = d.allocated
<1>1. PICK h \in FrontResized(d, n) : e \in ResizeBack(h, SizeToReach(d, h, n), Default)
  BY DEF Resized
<1>2. /\ Good(h, kept, m0) /\ SizeOf(h) = ToFront(d, n) /\ h.allocated = d.allocated
      /\ SizeToReach(d, h, n) = n
      /\ ToFront(d, n) < n => CellsBehind(h) = CellsBehind(d)
  BY FrontIs
<1> DEFINE t == ToFront(d, n)
           m == n - t
<1>3. /\ t \in Nat /\ t =< n
      /\ t < n => t = FreeInFront(d) + SizeOf(d)
      /\ FreeInFront(d) \in Nat /\ SizeOf(d) \in Nat
  BY FrontTaken
<1>4. /\ CellsBehind(h) \in Nat /\ CellsBehind(d) \in Nat
      /\ FrontFreeCapacity(d) = FreeInFront(d)
  BY <1>2, GoodNumbers, FreeCells
<1> HIDE DEF t
<1>5. m \in Nat /\ n >= SizeOf(h) /\ n - SizeOf(h) = m /\ n = t + m
  BY <1>2, <1>3 DEF t
<1>6. e \in PushBack(h, Copies(m, Default))[m]
  BY <1>1, <1>2, <1>5 DEF ResizeBack
<1> HIDE DEF m
<1> DEFINE xs == Copies(m, Default)
<1>7. xs \in Seq(Object) /\ Len(xs) = m /\ m \in 0 .. Len(xs)
  <2>1. Default \in Object
    BY BatchAssumption DEF Object
  <2>2. xs \in Seq(Object) /\ Len(xs) = m
    BY <1>5, <2>1, CopiesAre
  <2> QED
    BY <1>5, <2>2
<1> HIDE DEF xs
<1>8. e \in PushBack(h, xs)[m]
  BY <1>6 DEF xs
<1>9. Good(e, kept, m0) /\ Grown(h, e, 0, m)
  BY <1>2, <1>7, <1>8, PushBackGood
<1>10. SizeOf(e) = SizeOf(h) + 0 + m
  BY <1>2, <1>5, <1>9, GrownSizeOf
<1>11. SizeOf(e) = n
  BY <1>2, <1>3, <1>5, <1>10 DEF t
<1>12. ASSUME HasRoom(d, n) PROVE e.allocated = d.allocated
  <2>1. m =< CellsBehind(h)
    <3>1. CASE t < n
      <4>1. t = FreeInFront(d) + SizeOf(d) /\ CellsBehind(h) = CellsBehind(d)
        BY <1>2, <1>3, <3>1 DEF t
      <4>2. n =< FreeInFront(d) + SizeOf(d) + CellsBehind(d)
        BY <1>4, <1>12 DEF HasRoom
      <4> QED
        BY <1>3, <1>4, <1>5, <4>1, <4>2
    <3>2. CASE ~(t < n)
      BY <1>3, <1>4, <1>5, <3>2
    <3> QED
      BY <3>1, <3>2
  <2>2. e.allocated = h.allocated
    BY <1>2, <1>7, <1>8, <2>1, PushedIntoBack
  <2> QED
    BY <1>2, <2>2
<1> QED
  BY <1>9, <1>11, <1>12

\* The same when an allocation throws, or a constructor
LEMMA NoRoomToRead ==
  ASSUME NEW d, NEW kept, NEW m0, Good(d, kept, m0), Divides, NEW n \in Nat,
         NEW e \in ResizeThrew(d, n)
  PROVE  /\ Good(e, kept, m0)
         /\ HasRoom(d, n) => e.allocated = d.allocated
<1> DEFINE t == ToFront(d, n)
<1>0. Default \in Object
  BY BatchAssumption DEF Object
<1>1. /\ t \in Nat /\ t =< n /\ t =< FreeInFront(d) + SizeOf(d)
      /\ t < n => t = FreeInFront(d) + SizeOf(d)
      /\ FreeInFront(d) \in Nat /\ SizeOf(d) \in Nat
  BY FrontTaken
<1>2. /\ CellsBehind(d) \in Nat /\ FrontFreeCapacity(d) = FreeInFront(d)
  BY GoodNumbers, FreeCells
<1>3. \/ t > SizeOf(d) /\ e \in ResizeFrontThrew(d, t, Default)
      \/ \E h \in FrontResized(d, n) :
           /\ SizeToReach(d, h, n) > SizeOf(h)
           /\ e \in ResizeBackThrew(h, SizeToReach(d, h, n), Default)
  BY DEF ResizeThrew
<1> HIDE DEF t
<1>4. CASE t > SizeOf(d) /\ e \in ResizeFrontThrew(d, t, Default)
  <2>1. Good(e, kept, m0)
    BY <1>0, <1>1, <1>4, ResizeFrontThrewGood
  <2> DEFINE m == t - SizeOf(d)
             xs == Copies(m, Default)
  <2>2. m \in Nat /\ m =< FreeInFront(d)
    BY <1>1, <1>4
  <2>3. xs \in Seq(Object) /\ Len(xs) = m
    BY <1>0, <2>2, CopiesAre
  <2>4. PICK u \in PushFrontThrew(d, xs) : e = EraseAtBegin(u, SizeOf(u) - SizeOf(d))
    BY <1>4 DEF ResizeFrontThrew
  <2> HIDE DEF m, xs
  <2>5. PICK k \in 0 .. Len(xs) - 1 : \E h \in PushFront(d, xs)[k] : u \in EmplaceFrontThrew(h)
    BY <2>4 DEF PushFrontThrew
  <2>12. PICK h \in PushFront(d, xs)[k] : u \in EmplaceFrontThrew(h)
    BY <2>5
  <2>6. k \in 0 .. Len(xs) /\ k =< FreeInFront(d) /\ k < FreeInFront(d) /\ k \in Nat
    BY <1>1, <2>2, <2>3
  <2>7. /\ Good(h, kept, m0) /\ h.allocated = d.allocated
        /\ FreeInFront(h) >= FreeInFront(d) - k
    BY <2>3, <2>6, <2>12, PushedIntoFront
  <2>8. FrontFreeCapacity(h) = FreeInFront(h) /\ FreeInFront(h) \in Nat
    BY <2>7, GoodNumbers, FreeCells
  <2>9. FrontFreeCapacity(h) > 0
    BY <1>1, <2>6, <2>7, <2>8
  <2>10. u = h
    BY <2>9, <2>12 DEF EmplaceFrontThrew
  <2>11. e.allocated = d.allocated
    BY <2>4, <2>7, <2>10, ErasedKeepsSegments
  <2> QED
    BY <2>1, <2>11
<1>5. ASSUME NEW h \in FrontResized(d, n), SizeToReach(d, h, n) > SizeOf(h),
             e \in ResizeBackThrew(h, SizeToReach(d, h, n), Default)
      PROVE  Good(e, kept, m0) /\ (HasRoom(d, n) => e.allocated = d.allocated)
  <2>1. /\ Good(h, kept, m0) /\ SizeOf(h) = t /\ h.allocated = d.allocated
        /\ SizeToReach(d, h, n) = n
        /\ t < n => CellsBehind(h) = CellsBehind(d)
    BY FrontIs DEF t
  <2>2. n > SizeOf(h) /\ e \in ResizeBackThrew(h, n, Default) /\ t < n
    BY <1>5, <2>1
  <2>3. Good(e, kept, m0)
    BY <1>0, <2>1, <2>2, ResizeBackThrewGood
  <2> DEFINE m == n - t
             xs == Copies(m, Default)
  <2>4. m \in Nat
    BY <1>1, <2>2
  <2>5. xs \in Seq(Object) /\ Len(xs) = m
    BY <1>0, <2>4, CopiesAre
  <2>6. PICK u \in PushBackThrew(h, xs) : e = EraseAtEnd(u, SizeOf(h))
    BY <2>1, <2>2 DEF ResizeBackThrew
  <2> SUFFICES ASSUME HasRoom(d, n) PROVE e.allocated = d.allocated
    BY <2>3
  <2>7. m =< CellsBehind(h) /\ CellsBehind(h) \in Nat
    <3>1. t = FreeInFront(d) + SizeOf(d) /\ CellsBehind(h) = CellsBehind(d)
      BY <1>1, <2>1, <2>2
    <3>2. n =< FreeInFront(d) + SizeOf(d) + CellsBehind(d)
      BY <1>2 DEF HasRoom
    <3> QED
      BY <1>1, <1>2, <3>1, <3>2
  <2> HIDE DEF m, xs
  <2>8. PICK k \in 0 .. Len(xs) - 1 : \E v \in PushBack(h, xs)[k] : u \in EmplaceBackThrew(v)
    BY <2>6 DEF PushBackThrew
  <2>14. PICK v \in PushBack(h, xs)[k] : u \in EmplaceBackThrew(v)
    BY <2>8
  <2>9. k \in 0 .. Len(xs) /\ k =< CellsBehind(h) /\ k < CellsBehind(h) /\ k \in Nat
    BY <2>4, <2>5, <2>7
  <2>10. /\ Good(v, kept, m0) /\ v.allocated = h.allocated
         /\ CellsBehind(v) = CellsBehind(h) - k
    BY <2>1, <2>5, <2>9, <2>14, PushedIntoBack
  <2>11. BackFreeCapacity(v) > 0 <=> CellsBehind(v) > 0
    BY <2>10, GoodNumbers, FreeCells
  <2>12. BackFreeCapacity(v) > 0
    BY <2>7, <2>9, <2>10, <2>11
  <2>13. u = v
    BY <2>12, <2>14 DEF EmplaceBackThrew
  <2> QED
    BY <2>1, <2>6, <2>10, <2>13, ErasedKeepsSegments
<1> QED
  BY <1>3, <1>4, <1>5

-----------------------------------------------------------------------------
\* Reading

LEMMA MaxIs ==
  ASSUME NEW n \in Nat, NEW K \in SUBSET (0 .. n), K # {}
  PROVE  Ext!Max(K) \in K /\ \A y \in K : y =< Ext!Max(K)
<1> DEFINE T == {n - y : y \in K}
<1>1. T \in SUBSET Nat /\ T # {}
  <2>1. \A y \in K : n - y \in Nat
    OBVIOUS
  <2> QED
    BY <2>1
<1>2. PICK t \in T : \A m \in T : ~(m < t)
  BY <1>1, Least
<1>3. PICK x \in K : t = n - x
  BY <1>2
<1>4. ASSUME NEW y \in K PROVE x >= y
  <2>1. n - y \in T /\ ~(n - y < n - x)
    BY <1>2, <1>3
  <2> QED
    BY <2>1
<1> DEFINE z == CHOOSE x1 \in K : \A y \in K : x1 >= y
<1>5. z \in K /\ \A y \in K : z >= y
  BY <1>4
<1> HIDE DEF z
<1>6. z \in K /\ \A y \in K : y =< z
  BY <1>5
<1> QED
  BY <1>6 DEF Ext!Max, z

\* The calls of a load
LEMMA ReadableIs ==
  ASSUME SerialInv, NEW d, NEW kept, NEW m0, Good(d, kept, m0), SizeOf(d) = Len(Saved)
  PROVE  /\ Len(Pieces(d)) \in Nat /\ Readable(d) \in 0 .. Len(Pieces(d))
         /\ Seamless \/ ~Trivial => Readable(d) = Len(Pieces(d))
<1>1. PICK n, ends : PiecesEnd(d, n, ends)
  BY PiecesAre
<1>2. n \in Nat /\ DOMAIN Pieces(d) = 1 .. n /\ Len(Pieces(d)) = n
  <2> DEFINE P == Pieces(d)
  <2>1. n \in Nat /\ P = [k \in 1 .. n |-> First(d) + ends[k - 1] .. First(d) + ends[k] - 1]
    BY <1>1 DEF PiecesEnd
  <2> HIDE DEF P
  <2>2. P \in Seq(SUBSET Int) /\ Len(P) = n /\ DOMAIN P = 1 .. n
    <3>1. \A k \in 1 .. n : First(d) + ends[k - 1] .. First(d) + ends[k] - 1 \in SUBSET Int
      OBVIOUS
    <3>2. P \in [1 .. n -> SUBSET Int]
      BY <2>1, <3>1
    <3> QED
      BY <2>1, <3>2
  <2> QED
    BY <2>1, <2>2 DEF P
<1>3. Len(archive) \in Nat
  BY DEF SerialInv
<1> DEFINE m == Smaller(Len(archive), n)
           K == {k \in 0 .. m : \A j \in 1 .. k : Lengths(d)[j] = Len(archive[j])}
<1>4. CASE Seamless
  BY <1>2, <1>4 DEF Readable
<1>5. CASE ~Seamless
  <2>1. m \in Nat /\ m =< n
    BY <1>2, <1>3 DEF Smaller
  <2>2. Readable(d) = Ext!Max(K)
    BY <1>2, <1>5 DEF Readable
  <2>3. K \in SUBSET (0 .. m) /\ 0 \in K
    BY <2>1
  <2>4. ASSUME ~Trivial PROVE n \in K
    <3>1. /\ Len(archive) = Len(Saved) /\ \A j \in 1 .. Len(archive) : Len(archive[j]) = 1
          /\ n = SizeOf(d) /\ \A k \in 1 .. n : ends[k] = ends[k - 1] + 1
      BY <1>1, <2>4 DEF SerialInv, PiecesEnd
    <3>2. Len(archive) = n /\ m = n
      BY <3>1 DEF Smaller
    <3>3. ASSUME NEW j \in 1 .. n PROVE Lengths(d)[j] = 1
      <4>1. /\ Lengths(d)[j] = ends[j] - ends[j - 1]
            /\ ends[j - 1] \in 0 .. SizeOf(d) /\ ends[j] \in 0 .. SizeOf(d)
        BY <1>1, PieceIs
      <4>2. ends[j] = ends[j - 1] + 1 /\ SizeOf(d) \in Nat
        BY <1>2, <3>1
      <4> QED
        BY <4>1, <4>2
    <3>4. \A j \in 1 .. n : Lengths(d)[j] = Len(archive[j])
      BY <3>1, <3>2, <3>3
    <3> QED
      BY <1>2, <3>2, <3>4
  <2> HIDE DEF K, m
  <2>5. Ext!Max(K) \in K /\ \A y \in K : y =< Ext!Max(K)
    BY <2>1, <2>3, MaxIs
  <2>8. Ext!Max(K) \in 0 .. m
    BY <2>3, <2>5
  <2>6. Readable(d) \in 0 .. n
    BY <1>2, <2>1, <2>2, <2>8
  <2>7. ~Trivial => Readable(d) = n
    BY <1>2, <2>1, <2>2, <2>4, <2>5, <2>8
  <2> QED
    BY <1>2, <1>5, <2>6, <2>7
<1> QED
  BY <1>4, <1>5

\* The positions that k calls read
Consumed(d, k) == IF k = 0 THEN {} ELSE UNION {Pieces(d)[j] : j \in 1 .. k}

LEMMA ConsumedIs ==
  ASSUME NEW d, NEW kept, NEW m0, Good(d, kept, m0), NEW k \in 0 .. Len(Pieces(d))
  PROVE  /\ Consumed(d, k) \subseteq First(d) .. Past(d) - 1
         /\ k = Len(Pieces(d)) => Consumed(d, k) = First(d) .. Past(d) - 1
<1> DEFINE lo == First(d)
           hi == Past(d)
           P == Pieces(d)
<1>0. /\ lo \in Int /\ hi \in Int /\ SizeOf(d) = hi - lo /\ SizeOf(d) \in Nat
  BY GoodNumbers
<1>1. PICK n, ends : PiecesEnd(d, n, ends)
  BY PiecesAre
<1>2. /\ n \in Nat /\ ends \in [0 .. n -> 0 .. SizeOf(d)]
      /\ ends[0] = 0 /\ ends[n] = SizeOf(d)
      /\ P = [j \in 1 .. n |-> lo + ends[j - 1] .. lo + ends[j] - 1]
  BY <1>1 DEF PiecesEnd
<1> HIDE DEF lo, hi, P
<1>3. Len(P) = n
  <2>1. \A j \in 1 .. n : lo + ends[j - 1] .. lo + ends[j] - 1 \in SUBSET Int
    OBVIOUS
  <2>2. P \in [1 .. n -> SUBSET Int]
    BY <1>2, <2>1
  <2>3. P \in Seq(SUBSET Int)
    BY <1>2, <2>2
  <2> QED
    BY <1>2, <2>2, <2>3
<1>4. k \in Nat /\ k =< n
  BY <1>2, <1>3 DEF P
<1>5. ASSUME NEW j \in 1 .. k PROVE P[j] \subseteq lo .. hi - 1
  <2>1. j \in 1 .. n /\ j - 1 \in 0 .. n /\ j \in 0 .. n
    BY <1>2, <1>4
  <2>2. ends[j - 1] \in 0 .. SizeOf(d) /\ ends[j] \in 0 .. SizeOf(d)
    BY <1>2, <2>1
  <2>3. P[j] = lo + ends[j - 1] .. lo + ends[j] - 1
    BY <1>2, <2>1
  <2> QED
    BY <1>0, <2>2, <2>3
<1>6. Consumed(d, k) \subseteq lo .. hi - 1
  BY <1>5 DEF Consumed, P
<1>7. ASSUME k = n, NEW p \in lo .. hi - 1 PROVE p \in Consumed(d, k)
  <2> DEFINE q == p - lo
             T == {j \in 0 .. n : q < ends[j]}
  <2>1. q \in Nat /\ q < SizeOf(d) /\ p = lo + q
    BY <1>0
  <2> HIDE DEF q
  <2>2. n \in T /\ T \in SUBSET Nat
    BY <1>2, <2>1
  <2>3. PICK j \in T : \A i \in T : ~(i < j)
    BY <2>2, Least
  <2>4. j \in 0 .. n /\ q < ends[j] /\ j # 0
    BY <1>2, <2>1, <2>3
  <2>5. j \in 1 .. n /\ j - 1 \in 0 .. n /\ j - 1 < j
    BY <1>2, <2>4
  <2>6. j - 1 \notin T
    BY <2>3, <2>5
  <2>7. ends[j - 1] \in 0 .. SizeOf(d) /\ ends[j] \in 0 .. SizeOf(d) /\ ends[j - 1] =< q
    BY <1>0, <1>2, <2>1, <2>4, <2>5, <2>6
  <2>8. P[j] = lo + ends[j - 1] .. lo + ends[j] - 1
    BY <1>2, <2>5
  <2>9. p \in P[j]
    BY <1>0, <2>1, <2>4, <2>7, <2>8
  <2>10. k # 0 /\ j \in 1 .. k
    BY <1>2, <1>7, <2>5
  <2> QED
    BY <2>9, <2>10 DEF Consumed, P
<1> QED
  BY <1>3, <1>6, <1>7 DEF lo, hi, P

\* Elements are written over.
LEMMA ReadOver ==
  ASSUME NEW d, NEW kept, NEW m0, Good(d, kept, m0), NEW f,
         \A p \in DOMAIN f : f[p] \in Slot /\ f[p] # Raw /\ p \in First(d) .. Past(d) - 1,
         NEW e, IsDeque(e), e.map = d.map, e.allocated = d.allocated,
         e.begin = d.begin, e.end = d.end, e.mem = Store(d, f).mem
  PROVE  Good(e, kept, m0) /\ First(e) = First(d) /\ Past(e) = Past(d)
<1> DEFINE lo == First(d)
           hi == Past(d)
<1>1. /\ lo \in Int /\ hi \in Int
      /\ d.map.front * SegmentSize =< lo /\ lo =< hi /\ hi =< d.map.back * SegmentSize
      /\ e.begin = Locate(lo) /\ e.end = Locate(hi)
  <2>1. Shaped(d)
    BY DEF Good
  <2> QED
    BY <2>1, GoodNumbers, ShapedNumbers DEF Shaped, Bounded
<1>2. \A p \in DOMAIN f : f[p] \in Slot
  OBVIOUS
<1> HIDE DEF lo, hi
<1>3. \A p \in DOMAIN f : f[p] # Raw /\ p \in lo .. hi - 1
  BY DEF lo, hi
<1>4. \A p \in lo .. hi - 1 : IF p \in DOMAIN f THEN f[p] # Raw ELSE lo =< p /\ p < hi
  BY <1>1, <1>3
<1>5. \A p \in Int : IF p \in DOMAIN f THEN f[p] # Raw => lo =< p /\ p < hi
                     ELSE lo =< p /\ p < hi => lo =< p /\ p < hi
  BY <1>1, <1>3
<1>6. \A p \in lo .. hi - 1 :
        IF p \in DOMAIN f THEN f[p] # Raw ELSE First(d) =< p /\ p < Past(d)
  BY <1>4 DEF lo, hi
<1>7. \A p \in Int : IF p \in DOMAIN f THEN f[p] # Raw => lo =< p /\ p < hi
                     ELSE First(d) =< p /\ p < Past(d) => lo =< p /\ p < hi
  BY <1>5 DEF lo, hi
<1>8. Good(e, kept, m0) /\ First(e) = lo /\ Past(e) = hi
  BY <1>1, <1>2, <1>6, <1>7, StoredGood
<1> QED
  BY <1>8 DEF lo, hi

\* What a load has read, up to its k-th call
LEMMA ReadIs ==
  ASSUME NEW d, NEW kept, NEW m0, Good(d, kept, m0), Saved \in Seq(Object),
         SizeOf(d) = Len(Saved), NEW k \in 0 .. Len(Pieces(d))
  PROVE  LET e == Read(d, k)
         IN  /\ Good(e, kept, m0) /\ e.allocated = d.allocated
             /\ k = Len(Pieces(d)) => Contents(e) = Saved
<1> DEFINE lo == First(d)
           hi == Past(d)
           a == d.map.front * SegmentSize
           c == d.map.back * SegmentSize
           xs == Saved
           f == [p \in Consumed(d, k) |-> xs[p - lo + 1]]
           e == Store(d, f)
<1>0. /\ lo \in Int /\ hi \in Int /\ SizeOf(d) = hi - lo /\ SizeOf(d) \in Nat
      /\ Shaped(d) /\ Owned(d, kept) /\ a \in Int /\ c \in Int
      /\ a =< lo /\ lo =< hi /\ hi =< c
      /\ d.begin = Locate(lo) /\ d.end = Locate(hi)
  <2>1. Shaped(d) /\ Owned(d, kept)
    BY DEF Good
  <2> QED
    BY <2>1, GoodNumbers, ShapedNumbers DEF Shaped, Bounded
<1>1. /\ Consumed(d, k) \subseteq lo .. hi - 1
      /\ k = Len(Pieces(d)) => Consumed(d, k) = lo .. hi - 1
  BY ConsumedIs
<1>2. Read(d, k) = e
  BY DEF Read, Consumed
<1> HIDE DEF lo, hi, a, c, xs
<1>3. \A p \in lo .. hi - 1 : p - lo + 1 \in 1 .. Len(xs) /\ p \in Int
  <2>1. Len(xs) = hi - lo
    BY <1>0 DEF xs
  <2> QED
    BY <1>0, <2>1
<1>4. DOMAIN f = Consumed(d, k)
  OBVIOUS
<1>5. ASSUME NEW p \in DOMAIN f
      PROVE  f[p] = xs[p - lo + 1] /\ f[p] \in Slot /\ f[p] # Raw /\ p \in lo .. hi - 1
  <2>1. p \in lo .. hi - 1 /\ xs[p - lo + 1] \in Object
    <3>1. xs \in Seq(Object)
      BY DEF xs
    <3> QED
      BY <1>1, <1>3, <1>4, <3>1
  <2>2. Raw \notin Object
    BY BatchAssumption DEF Object
  <2> QED
    BY <2>1, <2>2 DEF Slot
<1> HIDE DEF f
<1>6. /\ IsDeque(e) /\ e.map = d.map /\ e.allocated = d.allocated
      /\ e.begin = d.begin /\ e.end = d.end
  BY <1>0, <1>5, StoreIs
<1> HIDE DEF e
<1>7. e.mem = Store(d, f).mem
  BY DEF e
<1>8. Good(e, kept, m0) /\ First(e) = lo /\ Past(e) = hi
  <2>1. \A p \in DOMAIN f : f[p] \in Slot /\ f[p] # Raw /\ p \in First(d) .. Past(d) - 1
    BY <1>5 DEF lo, hi
  <2> QED
    BY <1>6, <1>7, <2>1, ReadOver DEF lo, hi
<1>9. ASSUME k = Len(Pieces(d)) PROVE Contents(e) = xs
  <2> DEFINE u == Contents(e)
             n == Len(xs)
  <2>1. n = SizeOf(d) /\ n \in Nat /\ xs \in Seq(Object)
    BY <1>0 DEF xs
  <2>2. SizeOf(e) = n
    BY <1>0, <1>8, <2>1, GoodNumbers
  <2>3. /\ u \in Seq(Object) /\ Len(u) = n
        /\ \A i \in 1 .. n : u[i] = Cell(e, lo + i - 1)
    BY <1>8, <2>2, ContentsAre
  <2> HIDE DEF u, n
  <2>4. ASSUME NEW i \in 1 .. n PROVE u[i] = xs[i]
    <3> DEFINE p == lo + i - 1
    <3>1. p \in lo .. hi - 1 /\ p \in Int /\ p - lo + 1 = i /\ a =< p /\ p < c
      BY <1>0, <2>1
    <3> HIDE DEF p
    <3>2. p \in DOMAIN f
      BY <1>1, <1>4, <1>9, <3>1
    <3>3. f[p] = xs[i]
      BY <1>5, <3>1, <3>2
    <3>4. \A q \in DOMAIN f : f[q] \in Slot
      BY <1>5
    <3>5. d.map.front * SegmentSize =< p /\ p < d.map.back * SegmentSize
      BY <3>1 DEF a, c
    <3>6. Cell(e, p) = f[p]
      BY <1>0, <1>6, <1>7, <3>1, <3>2, <3>4, <3>5, CellsStored
    <3> QED
      BY <2>3, <3>3, <3>6 DEF p
  <2>5. xs \in Seq(Object) /\ Len(xs) = n
    BY <2>1 DEF n
  <2>6. u = xs
    BY <2>1, <2>3, <2>4, <2>5
  <2> QED
    BY <2>6 DEF u
<1> QED
  BY <1>2, <1>6, <1>8, <1>9 DEF xs

-----------------------------------------------------------------------------
\* Every call keeps the invariant.

\* Nothing is owed to the batch_deque when it is empty and nothing was saved.
LEMMA SerialBegins == Divides /\ SerialInit => SerialInv
<1> SUFFICES ASSUME Divides, SerialInit PROVE SerialInv
  OBVIOUS
<1>1. Good(deque, {}, {})
  BY EmptyWell DEF SerialInit, Well
<1> DEFINE ends == [k \in 0 .. 0 |-> 0]
<1>2. /\ << >> \in Seq(Object) /\ Len(<< >>) = 0 /\ << >> \in [1 .. 0 -> Seq(Object)]
      /\ << >> \in Seq(Seq(Object))
  OBVIOUS
<1>3. Split(<< >>, << >>, 0, ends)
  <2>1. ends \in [0 .. 0 -> 0 .. 0] /\ ends[0] = 0 /\ \A k \in 1 .. 0 : FALSE
    OBVIOUS
  <2> HIDE DEF ends
  <2> QED
    BY <1>2, <2>1 DEF Split
<1> HIDE DEF ends
<1>4. Saved = << >> /\ archive = << >>
  BY <1>2, <1>3, Flattened DEF Saved, SerialInit
<1> QED
  BY <1>1, <1>2, <1>4 DEF SerialInv

\* What is in the archive stays there.
LEMMA ArchiveKept ==
  ASSUME SerialInv, UNCHANGED archive, Good(deque', {}, {})
  PROVE  SerialInv' /\ Saved' = Saved
  BY DEF SerialInv, Saved

LEMMA ReshapeKeeps ==
  ASSUME Divides, SerialInv, Reshape
  PROVE  SerialInv'
<1> DEFINE d == deque
           e == deque'
<1>1. Good(d, {}, {})
  BY DEF SerialInv
<1>2. \/ \E x \in Values : EmplaceFrontOk(d) /\ e = EmplaceFront(d, x)
      \/ \E x \in Values : EmplaceBackOk(d) /\ e = EmplaceBack(d, x)
      \/ d.begin # d.end /\ e \in {PopFront(d), PopBack(d)}
      \/ e \in {ShrinkToFit(d), Clear(d)}
  BY DEF Reshape, Reshaped
<1> HIDE DEF d, e
<1>3. ASSUME NEW x \in Values, EmplaceFrontOk(d), e = EmplaceFront(d, x)
      PROVE  Good(e, {}, {})
  BY <1>1, <1>3, EmplaceFrontGood DEF Object, PushedFront
<1>4. ASSUME NEW x \in Values, EmplaceBackOk(d), e = EmplaceBack(d, x)
      PROVE  Good(e, {}, {})
  BY <1>1, <1>4, EmplaceBackGood DEF Object, PushedBack
<1>5. ASSUME d.begin # d.end, e \in {PopFront(d), PopBack(d)} PROVE Good(e, {}, {})
  BY <1>1, <1>5, PopFrontGood, PopBackGood DEF MovedTo
<1>6. ASSUME e \in {ShrinkToFit(d), Clear(d)} PROVE Good(e, {}, {})
  BY <1>1, <1>6, ShrinkToFitGood, ClearGood DEF MovedTo
<1>7. Good(e, {}, {})
  BY <1>2, <1>3, <1>4, <1>5, <1>6
<1> QED
  BY <1>7, ArchiveKept DEF Reshape, e

\* Load restores what was saved if every call can read what one call wrote.
LEMMA LoadKeeps ==
  ASSUME Divides, SerialInv, Load
  PROVE  SerialInv' /\ ReusesMemory /\ (Seamless \/ ~Trivial => Restores)
<1>1. Good(deque, {}, {}) /\ Saved \in Seq(Object) /\ Len(Saved) \in Nat
  BY DEF SerialInv
<1>2. PICK d \in Resized(deque, Len(Saved)) :
        /\ deque' = Read(d, Readable(d))
        /\ Recorded("load", IF Readable(d) = Len(Pieces(d)) THEN "ok" ELSE "unreadable")
  BY DEF Load
<1>3. /\ Good(d, {}, {}) /\ SizeOf(d) = Len(Saved)
      /\ HasRoom(deque, Len(Saved)) => d.allocated = deque.allocated
  BY <1>1, <1>2, RoomToRead
<1>4. /\ Readable(d) \in 0 .. Len(Pieces(d))
      /\ Seamless \/ ~Trivial => Readable(d) = Len(Pieces(d))
  BY <1>3, ReadableIs
<1>5. /\ Good(deque', {}, {}) /\ deque'.allocated = d.allocated
      /\ Readable(d) = Len(Pieces(d)) => Contents(deque') = Saved
  BY <1>1, <1>2, <1>3, <1>4, ReadIs
<1>6. SerialInv' /\ Saved' = Saved
  BY <1>5, ArchiveKept DEF Load
<1>7. ReusesMemory
  BY <1>3, <1>5 DEF ReusesMemory, HasRoom
<1>8. Seamless \/ ~Trivial => Restores
  BY <1>2, <1>4, <1>5 DEF Restores, Recorded
<1> QED
  BY <1>6, <1>7, <1>8

LEMMA LoadThrowsKeeps ==
  ASSUME Divides, SerialInv, LoadThrows
  PROVE  SerialInv' /\ ReusesMemory /\ Restores
<1>1. Good(deque, {}, {}) /\ Saved \in Seq(Object) /\ Len(Saved) \in Nat
  BY DEF SerialInv
<1>2. \/ deque' \in ResizeThrew(deque, Len(Saved))
      \/ \E d \in Resized(deque, Len(Saved)) :
           \E k \in 0 .. Readable(d) - 1 : deque' = Read(d, k)
  BY DEF LoadThrows
<1>3. ASSUME deque' \in ResizeThrew(deque, Len(Saved))
      PROVE  /\ Good(deque', {}, {})
             /\ HasRoom(deque, Len(Saved)) => deque'.allocated = deque.allocated
  BY <1>1, <1>3, NoRoomToRead
<1>4. ASSUME NEW d \in Resized(deque, Len(Saved)), NEW k \in 0 .. Readable(d) - 1,
             deque' = Read(d, k)
      PROVE  /\ Good(deque', {}, {})
             /\ HasRoom(deque, Len(Saved)) => deque'.allocated = deque.allocated
  <2>1. /\ Good(d, {}, {}) /\ SizeOf(d) = Len(Saved)
        /\ HasRoom(deque, Len(Saved)) => d.allocated = deque.allocated
    BY <1>1, RoomToRead
  <2>2. k \in 0 .. Len(Pieces(d))
    <3>1. Len(Pieces(d)) \in Nat /\ Readable(d) \in 0 .. Len(Pieces(d))
      BY <2>1, ReadableIs
    <3> QED
      BY <3>1
  <2> QED
    BY <1>1, <1>4, <2>1, <2>2, ReadIs
<1>5. /\ Good(deque', {}, {})
      /\ HasRoom(deque, Len(Saved)) => deque'.allocated = deque.allocated
  BY <1>2, <1>3, <1>4
<1>6. SerialInv'
  BY <1>5, ArchiveKept DEF LoadThrows
<1>7. ReusesMemory
  BY <1>5 DEF ReusesMemory, HasRoom
<1>8. Restores
  BY DEF LoadThrows, Recorded, Restores
<1> QED
  BY <1>6, <1>7, <1>8

LEMMA SerialSteps ==
  ASSUME Divides, SerialInv, SerialNext
  PROVE  /\ SerialInv'
         /\ latest'.op = "save" => Saved' = Contents(deque)
         /\ latest'.op = "load" => ReusesMemory /\ (Seamless \/ ~Trivial => Restores)
<1>1. CASE Reshape
  BY <1>1, ReshapeKeeps DEF Reshape, Recorded
<1>2. CASE Save
  BY <1>2, SaveWrites DEF Save, Recorded
<1>3. CASE Load
  <2>1. \E out : Recorded("load", out)
    BY <1>3 DEF Load
  <2> QED
    BY <1>3, <2>1, LoadKeeps DEF Recorded
<1>4. CASE LoadThrows
  BY <1>4, LoadThrowsKeeps DEF LoadThrows, Recorded
<1> QED
  BY <1>1, <1>2, <1>3, <1>4 DEF SerialNext

LEMMA AlwaysSerialInv ==
  ASSUME Divides
  PROVE  SerialSpec => []SerialInv
<1>1. SerialInit => SerialInv
  BY SerialBegins
<1>2. ASSUME SerialInv, UNCHANGED serialVars PROVE SerialInv'
  <2>1. deque' = deque /\ UNCHANGED archive /\ Good(deque, {}, {})
    BY <1>2 DEF serialVars, SerialInv
  <2>2. Good(deque', {}, {})
    BY <2>1
  <2> QED
    BY <1>2, <2>1, <2>2, ArchiveKept
<1>3. SerialInv /\ [SerialNext]_serialVars => SerialInv'
  BY <1>2, SerialSteps
<1> QED
  BY <1>1, <1>3, PTL DEF SerialSpec

-----------------------------------------------------------------------------
\* What serialization promises

\* The batch_deque is well formed after every call, a load that threw included: the map
\* points to its segments, all of them, and the objects in them are the elements.  Before
\* it throws for elements that are read, load has made objects of all of them.
THEOREM LoadsLeaveObjects ==
  ASSUME Divides, ~ShiftMayThrow
  PROVE  SerialSpec => []LeavesObjects
<1>1. SerialInv => LeavesObjects
  <2> SUFFICES ASSUME SerialInv PROVE LeavesObjects
    OBVIOUS
  <2>1. Good(deque, {}, {})
    BY DEF SerialInv
  <2> QED
    BY <2>1, GoodFits, GoodOwns, GoodLives DEF LeavesObjects, Good, Shaped
<1> QED
  BY <1>1, AlwaysSerialInv, PTL

\* What is saved, segment by segment or element by element, are the contents.
THEOREM SavesContents ==
  ASSUME Divides
  PROVE  SerialSpec => [][latest'.op = "save" => Saved' = Contents(deque)]_serialVars
<1>1. SerialInv /\ [SerialNext]_serialVars
        => [latest'.op = "save" => Saved' = Contents(deque)]_serialVars
  BY SerialSteps
<1> QED
  BY <1>1, AlwaysSerialInv, PTL DEF SerialSpec

\* If the archive is a binary one, or each element is read on its own, a load that does not
\* throw leaves the contents that were saved, wherever the segments began and begin.
\* (For trivial elements in an archive that keeps calls apart this is not so: the segments
\* loaded into may begin and end elsewhere than those saved.)
THEOREM LoadsRestore ==
  ASSUME Divides, Seamless \/ ~Trivial
  PROVE  SerialSpec => [][latest'.op = "load" => Restores]_serialVars
<1>1. SerialInv /\ [SerialNext]_serialVars => [latest'.op = "load" => Restores]_serialVars
  BY SerialSteps
<1> QED
  BY <1>1, AlwaysSerialInv, PTL DEF SerialSpec

\* If the cells in front of the elements, those of the elements and those behind them are
\* enough for what was saved, load allocates no segment and frees none.
THEOREM LoadsReuseMemory ==
  ASSUME Divides
  PROVE  SerialSpec => [][latest'.op = "load" => ReusesMemory]_serialVars
<1>1. SerialInv /\ [SerialNext]_serialVars
        => [latest'.op = "load" => ReusesMemory]_serialVars
  BY SerialSteps
<1> QED
  BY <1>1, AlwaysSerialInv, PTL DEF SerialSpec

=============================================================================
