-------------------------- MODULE BatchDequeOpsProofs --------------------------
(***************************************************************************)
(* Each member function of BatchDequeOps takes a batch_deque whose map,    *)
(* iterators and segments fit together to one where they do, whether it    *)
(* returns or throws.  The proofs about BatchDeque start from here.        *)
(*                                                                         *)
(* The arithmetic of iterators comes first, then what the functions of the *)
(* map do to its slots, from the lemmas about devectors, and what Store    *)
(* does to the cells.  After that there is a lemma for each function:      *)
(* first for those at the ends, then for those that touch a range of       *)
(* elements (resize, shrink_to_fit, emplace, insert, stable_insert, erase, *)
(* assign and the constructors), which are made of the first and of steps  *)
(* that write cells or move begin and end only.                            *)
(***************************************************************************)
EXTENDS BatchDequeOps, FiniteSetTheorems, TLAPS

\* The lemmas about the operations of a devector, for the map
MapP == INSTANCE DevectorOpsProofs WITH
          Values <- Segments, SBuf <- 0, SizeMax <- Word - 1, MaxSize <- MapMax,
          SelfMoveKeeps <- TRUE, ShiftMayThrow <- FALSE

-----------------------------------------------------------------------------
\* Induction

LEMMA Least ==
  ASSUME NEW T \in SUBSET Nat, T # {}
  PROVE  \E n \in T : \A m \in T : ~(m < n)
<1> DEFINE R == {ss \in Nat \X Nat : ss[1] < ss[2]}
<1>1. IsWellFoundedOn(R, Nat)
  BY Zenon, NatLessThanWellFounded DEF OpToRel
<1>2. \A m, n \in Nat : <<m, n>> \in R <=> m < n
  OBVIOUS
<1> HIDE DEF R
<1>3. \E n \in T : \A m \in T : ~(<<m, n>> \in R)
  BY <1>1, WFMin, Zenon
<1> QED
  BY <1>2, <1>3

\* Induction, for a set of numbers.
LEMMA Induction ==
  ASSUME NEW P \in SUBSET Nat, 0 \in P, \A n \in P : n + 1 \in P
  PROVE  P = Nat
<1> SUFFICES ASSUME Nat \ P # {} PROVE FALSE
  OBVIOUS
<1>1. PICK n \in Nat \ P : \A m \in Nat \ P : ~(m < n)
  BY Least
<1>2. n - 1 \in Nat /\ n - 1 < n
  BY <1>1
<1> QED
  BY <1>1, <1>2

-----------------------------------------------------------------------------
\* Positions

\* The iterator at a position
Locate(p) == It(p \div SegmentSize, p % SegmentSize)

\* Iterators that a deque may have
Iterators == [at : Int, index : Indices]

\* The size of a segment divides the number of values of size_type.
Divides == Word % SegmentSize = 0

LEMMA PlaceOf ==
  ASSUME NEW a \in Int, NEW i \in Indices
  PROVE  /\ (a * SegmentSize + i) \div SegmentSize = a
         /\ (a * SegmentSize + i) % SegmentSize = i
         /\ a * SegmentSize + i \in Int
  BY SegmentAssumption, SMTT(30) DEF Indices

LEMMA PartsOf ==
  ASSUME NEW p \in Int
  PROVE  /\ p \div SegmentSize \in Int /\ p % SegmentSize \in Indices
         /\ (p \div SegmentSize) * SegmentSize + (p % SegmentSize) = p
  BY SegmentAssumption, SMTT(30) DEF Indices

LEMMA PlaceOnce ==
  ASSUME NEW a \in Int, NEW i \in Indices, NEW b \in Int, NEW j \in Indices,
         a * SegmentSize + i = b * SegmentSize + j
  PROVE  a = b /\ i = j
  BY PlaceOf

\* Segments are in the order of their slots.
LEMMA PlaceOrder ==
  ASSUME NEW a \in Int, NEW i \in Indices, NEW b \in Int
  PROVE  /\ a * SegmentSize + i < b * SegmentSize <=> a < b
         /\ b * SegmentSize =< a * SegmentSize + i <=> b =< a
         /\ a * SegmentSize \in Int /\ b * SegmentSize \in Int
  BY SegmentAssumption, SMTT(30) DEF Indices

\* A position up to the start of a segment
LEMMA UpTo ==
  ASSUME NEW a \in Int, NEW i \in Indices, NEW b \in Int,
         a * SegmentSize + i =< b * SegmentSize
  PROVE  a =< b /\ (a = b => i = 0)
<1> DEFINE x == a * SegmentSize + i
           y == b * SegmentSize
<1>1. x \in Int /\ y \in Int /\ (x < y <=> a < b)
  BY PlaceOf, PlaceOrder
<1>2. 0 \in Indices /\ y = b * SegmentSize + 0
  BY <1>1, SegmentAssumption DEF Indices
<1>3. x = y => a = b /\ i = 0
  BY <1>2, PlaceOnce
<1>4. a = b /\ x # y => ~(x < y)
  BY <1>1
<1>5. x =< y
  OBVIOUS
<1> HIDE DEF x, y
<1> QED
  BY <1>1, <1>3, <1>4, <1>5

LEMMA Distribute ==
  ASSUME NEW a \in Int, NEW b \in Int
  PROVE  /\ (a + b) * SegmentSize = a * SegmentSize + b * SegmentSize
         /\ (a - b) * SegmentSize = a * SegmentSize - b * SegmentSize
         /\ SegmentSize * (a - b) = a * SegmentSize - b * SegmentSize
         /\ a * SegmentSize \in Int /\ b * SegmentSize \in Int
  BY SegmentAssumption

LEMMA SegmentBeside ==
  ASSUME NEW a \in Int
  PROVE  /\ (a + 1) * SegmentSize = a * SegmentSize + SegmentSize
         /\ (a - 1) * SegmentSize = a * SegmentSize - SegmentSize
         /\ a * SegmentSize \in Int /\ a + 1 \in Int /\ a - 1 \in Int
         /\ SegmentSize \in Nat /\ SegmentSize > 1
  BY SegmentAssumption

LEMMA LocatePosition ==
  ASSUME NEW p \in Int
  PROVE  Locate(p) \in Iterators /\ Position(Locate(p)) = p
  BY PartsOf DEF Locate, It, Iterators, Position

LEMMA PositionLocates ==
  ASSUME NEW i \in Iterators
  PROVE  Position(i) \in Int /\ Locate(Position(i)) = i
<1>1. i.at \in Int /\ i.index \in Indices /\ i = [at |-> i.at, index |-> i.index]
  BY DEF Iterators
<1> QED
  BY <1>1, PlaceOf DEF Locate, It, Position

LEMMA LocatePlace ==
  ASSUME NEW a \in Int, NEW i \in Indices
  PROVE  Locate(a * SegmentSize + i) = It(a, i)
  BY PlaceOf DEF Locate

\* Numbers of size_type, and negative ones down to -Word, in size_type.
LEMMA Remainders ==
  ASSUME NEW n \in Int
  PROVE  /\ 0 =< n /\ n < Word => n % Word = n
         /\ n < 0 /\ -Word =< n => n % Word = n + Word
<1>1. Word \in Nat \ {0}
  BY SegmentAssumption
<1>2. ASSUME 0 =< n, n < Word PROVE n % Word = n
  BY <1>1, <1>2, SMTT(30)
<1>3. ASSUME n < 0, -Word =< n PROVE n % Word = n + Word
  BY <1>1, <1>3, SMTT(30)
<1> QED
  BY <1>2, <1>3

\* The conversion to size_type does not change the remainder by the segment size.
LEMMA UnsignedRemainder ==
  ASSUME NEW n \in Int, Divides
  PROVE  Unsigned(n) % SegmentSize = n % SegmentSize
<1> DEFINE c == Word \div SegmentSize
           u == n \div Word
           v == n \div SegmentSize
           r == n % SegmentSize
<1>1. Word \in Nat \ {0} /\ SegmentSize \in Nat \ {0}
  BY SegmentAssumption
<1>2. Word = c * SegmentSize /\ c \in Int
  BY <1>1, PartsOf DEF Divides
<1>3. u \in Int /\ n % Word \in Int /\ n = u * Word + (n % Word)
  BY <1>1, SMTT(30)
<1>4. v \in Int /\ r \in Indices /\ n = v * SegmentSize + r
  BY PartsOf
<1> HIDE DEF c, u, v, r
<1>5. n % Word = (v - u * c) * SegmentSize + r /\ v - u * c \in Int
  <2>1. u * Word = (u * c) * SegmentSize /\ u * c \in Int
    BY <1>1, <1>2, <1>3
  <2>2. (v - u * c) * SegmentSize = v * SegmentSize - (u * c) * SegmentSize
    BY <1>4, <2>1, Distribute
  <2> DEFINE x == u * Word
             y == v * SegmentSize
             z == n % Word
  <2>3. x \in Int /\ y \in Int /\ r \in Int /\ z \in Int
    BY <1>1, <1>3, <1>4 DEF Indices
  <2>4. n = x + z /\ n = y + r /\ (v - u * c) * SegmentSize = y - x
    BY <1>3, <1>4, <2>1, <2>2
  <2> HIDE DEF x, y, z
  <2>5. z = y - x + r
    BY <1>3, <2>3, <2>4
  <2> QED
    BY <1>4, <2>1, <2>3, <2>4, <2>5 DEF z
<1> QED
  BY <1>4, <1>5, PlaceOf DEF Unsigned, r

\* advance(n) goes n positions on.
LEMMA AdvanceIs ==
  ASSUME NEW i \in Iterators, NEW n \in Int, Divides, i.index + n < Word
  PROVE  Advance(i, n) = Locate(Position(i) + n)
<1> DEFINE a == i.at
           j == i.index
           q == (j + n) \div SegmentSize
           r == (j + n) % SegmentSize
<1>1. /\ a \in Int /\ j \in Indices /\ j \in Int /\ 0 =< j /\ j < SegmentSize
      /\ Word \in Nat \ {0} /\ SegmentSize \in Nat \ {0} /\ 2 * SegmentSize =< Word
  BY SegmentAssumption DEF Iterators, Indices
<1>2. /\ q \in Int /\ r \in Indices /\ r \in Int /\ q * SegmentSize \in Int
      /\ q * SegmentSize + r = j + n
  <2>1. j + n \in Int
    BY <1>1
  <2>2. q \in Int /\ r \in Indices /\ q * SegmentSize + r = j + n
    BY <2>1, PartsOf
  <2> QED
    BY <1>1, <2>2 DEF Indices
<1> HIDE DEF q, r
<1>3. Locate(Position(i) + n) = It(a + q, r)
  <2>1. (a + q) * SegmentSize = a * SegmentSize + q * SegmentSize /\ a * SegmentSize \in Int
    BY <1>1, <1>2, Distribute
  <2>2. Position(i) + n = (a + q) * SegmentSize + r
    BY <1>1, <1>2, <2>1 DEF Position
  <2> QED
    BY <1>1, <1>2, <2>2, LocatePlace
<1>4. CASE n >= 0
  <2>1. Unsigned(j + n) = j + n
    BY <1>1, <1>4, Remainders DEF Unsigned
  <2> QED
    BY <1>3, <1>4, <2>1 DEF Advance, q, r
<1>5. CASE n < 0
  <2>1. Quotient(1 - SegmentSize + j + n, SegmentSize) = q
    <3> DEFINE up == SegmentSize - 1 - j - n
    <3>1. ~(1 - SegmentSize + j + n >= 0) /\ -(1 - SegmentSize + j + n) = up
      BY <1>1, <1>5
    <3>2. up = (-q) * SegmentSize + (SegmentSize - 1 - r)
      <4>1. (-q) * SegmentSize = -(q * SegmentSize)
        BY <1>1, <1>2
      <4> QED
        BY <1>1, <1>2, <4>1
    <3>3. SegmentSize - 1 - r \in Indices /\ -q \in Int
      BY <1>1, <1>2 DEF Indices
    <3> HIDE DEF up
    <3>4. up \div SegmentSize = -q
      BY <3>2, <3>3, PlaceOf
    <3> QED
      BY <1>2, <3>1, <3>4 DEF Quotient
  <2>2. Unsigned(j + (Unsigned(n) % SegmentSize)) % SegmentSize = r
    <3> DEFINE v == n \div SegmentSize
               w == n % SegmentSize
    <3>1. Unsigned(n) % SegmentSize = w
      BY UnsignedRemainder
    <3>2. v \in Int /\ w \in Indices /\ v * SegmentSize + w = n
      BY PartsOf
    <3>3. v * SegmentSize \in Int /\ w \in Int /\ 0 =< w /\ w < SegmentSize
      BY <1>1, <3>2 DEF Indices
    <3> HIDE DEF v, w
    <3>4. Unsigned(j + w) = j + w
      BY <1>1, <3>3, Remainders DEF Unsigned
    <3>5. j + w = (q - v) * SegmentSize + r
      <4>1. (q - v) * SegmentSize = q * SegmentSize - v * SegmentSize
        BY <1>2, <3>2, Distribute
      <4> QED
        BY <1>1, <1>2, <3>2, <3>3, <4>1
    <3>6. (j + w) % SegmentSize = r
      BY <1>2, <3>2, <3>5, PlaceOf
    <3> QED
      BY <3>1, <3>4, <3>6
  <2> QED
    BY <1>1, <1>3, <1>5, <2>1, <2>2 DEF Advance
<1> QED
  BY <1>1, <1>4, <1>5

\* Increment and Decrement go one position on and back.
LEMMA IncrementIs ==
  ASSUME NEW i \in Iterators
  PROVE  Increment(i) = Locate(Position(i) + 1)
<1>1. /\ i.at \in Int /\ i.index \in Indices /\ i.index \in Int
      /\ SegmentSize \in Nat /\ SegmentSize > 1
  BY SegmentAssumption DEF Iterators, Indices
<1>2. CASE i.index + 1 = SegmentSize
  <2>1. Position(i) + 1 = (i.at + 1) * SegmentSize + 0
    BY <1>1, <1>2 DEF Position
  <2>2. 0 \in Indices /\ i.at + 1 \in Int
    BY <1>1 DEF Indices
  <2> QED
    BY <1>2, <2>1, <2>2, LocatePlace DEF Increment
<1>3. CASE i.index + 1 # SegmentSize
  <2>1. Position(i) + 1 = i.at * SegmentSize + (i.index + 1) /\ i.index + 1 \in Indices
    BY <1>1, <1>3, Distribute DEF Position, Indices
  <2> QED
    BY <1>1, <1>3, <2>1, LocatePlace DEF Increment
<1> QED
  BY <1>2, <1>3

LEMMA DecrementIs ==
  ASSUME NEW i \in Iterators
  PROVE  Decrement(i) = Locate(Position(i) - 1)
<1>1. /\ i.at \in Int /\ i.index \in Indices /\ i.index \in Int
      /\ SegmentSize \in Nat /\ SegmentSize > 1
  BY SegmentAssumption DEF Iterators, Indices
<1>2. CASE i.index = 0
  <2>1. Position(i) - 1 = (i.at - 1) * SegmentSize + (SegmentSize - 1)
    BY <1>1, <1>2, Distribute DEF Position
  <2>2. SegmentSize - 1 \in Indices /\ i.at - 1 \in Int
    BY <1>1 DEF Indices
  <2> QED
    BY <1>2, <2>1, <2>2, LocatePlace DEF Decrement
<1>3. CASE i.index # 0
  <2>1. Position(i) - 1 = i.at * SegmentSize + (i.index - 1) /\ i.index - 1 \in Indices
    BY <1>1, <1>3, Distribute DEF Position, Indices
  <2> QED
    BY <1>1, <1>3, <2>1, LocatePlace DEF Decrement
<1> QED
  BY <1>2, <1>3

\* distance_to gives back every distance that the signed type has.
LEMMA DistanceIs ==
  ASSUME NEW i \in Iterators, NEW j \in Iterators, NEW n \in Nat, n < Word \div 2,
         -n =< Position(j) - Position(i), Position(j) - Position(i) =< n
  PROVE  DistanceTo(i, j) = Position(j) - Position(i)
<1> DEFINE m == Position(j) - Position(i)
<1>1. /\ i.at \in Int /\ i.index \in Int /\ j.at \in Int /\ j.index \in Int
      /\ SegmentSize \in Nat /\ Word \in Nat \ {0}
      /\ Position(i) \in Int /\ Position(j) \in Int
  BY SegmentAssumption, PositionLocates DEF Iterators, Indices
<1>2. SegmentSize * (j.at - i.at - 1) + j.index + (SegmentSize - i.index) = m
  <2>1. SegmentSize * (j.at - i.at - 1)
          = j.at * SegmentSize - i.at * SegmentSize - SegmentSize
    BY <1>1
  <2>2. j.at * SegmentSize \in Int /\ i.at * SegmentSize \in Int
    BY <1>1, Distribute
  <2> QED
    BY <1>1, <2>1, <2>2 DEF Position
<1>3. m \in Int /\ -n =< m /\ m =< n
  BY <1>1
<1> HIDE DEF m
<1>4. Signed(Unsigned(m)) = m
  <2>1. /\ Word \div 2 \in Int /\ 2 * (Word \div 2) =< Word
        /\ Word =< 2 * (Word \div 2) + 1
    BY <1>1
  <2>2. CASE m >= 0
    BY <1>1, <1>3, <2>1, <2>2, Remainders DEF Signed, Unsigned
  <2>3. CASE m < 0
    <3>1. m % Word = m + Word
      BY <1>1, <1>3, <2>3, Remainders
    <3> QED
      BY <1>1, <1>3, <2>1, <2>3, <3>1 DEF Signed, Unsigned
  <2> QED
    BY <1>3, <2>2, <2>3
<1> QED
  BY <1>2, <1>4 DEF DistanceTo, m

-----------------------------------------------------------------------------
\* The map.  What the lemmas about devectors are lemmas of, and what the functions of
\* the map do to its slots.

LEMMA MapConstants ==
  MapP!SizesAssumption /\ MapP!MarkersAssumption
<1>1. Word \in Nat /\ 16 < Word /\ MapMax \in Nat /\ 4 * MapMax < Word
  BY SegmentAssumption, BatchAssumption
<1>2. NewCapacity \in [MapP!Size -> 0 .. Word - 1]
  BY <1>1 DEF NewCapacity, MapP!Size
<1>3. \A s, c \in MapP!Size : ShouldShrink(s, c) \in BOOLEAN
  BY DEF ShouldShrink
<1>4. MapP!SizesAssumption
  BY <1>1, <1>2, <1>3 DEF MapP!SizesAssumption, MapP!Size
<1>5. MapP!MarkersAssumption
  BY BatchAssumption DEF MapP!MarkersAssumption
<1> QED
  BY <1>4, <1>5

LEMMA MapSameDevectorType ==
  Map!DevectorType = MapP!DevectorType
  BY DEF Map!DevectorType, MapP!DevectorType, Map!Size, MapP!Size, Map!Address,
    MapP!Address, Map!Slot, MapP!Slot, Map!Object, MapP!Object

LEMMA MapSameSizeOf ==
  \A d : Map!SizeOf(d) = MapP!SizeOf(d)
  BY DEF Map!SizeOf, MapP!SizeOf

LEMMA MapSameContents ==
  \A d : Map!Contents(d) = MapP!Contents(d)
  BY DEF Map!Contents, MapP!Contents, Map!SizeOf, MapP!SizeOf

LEMMA MapSameInvariantsOk ==
  \A d : Map!InvariantsOk(d) = MapP!InvariantsOk(d)
  BY DEF Map!InvariantsOk, MapP!InvariantsOk, Map!HasBuffer, MapP!HasBuffer

LEMMA MapSameReserved ==
  \A i, j : Map!Reserved(i, j) = MapP!Reserved(i, j)
  BY DEF Map!Reserved, MapP!Reserved, Map!Larger, MapP!Larger, Map!NoObjects,
    MapP!NoObjects, Map!Address, MapP!Address, Map!BufferFor, MapP!BufferFor

LEMMA MapSamePut ==
  \A s, i, xs : Map!Put(s, i, xs) = MapP!Put(s, i, xs)
  BY DEF Map!Put, MapP!Put, Map!Address, MapP!Address

LEMMA MapSameReserveFront ==
  \A d, i : Map!ReserveFront(d, i) = MapP!ReserveFront(d, i)
  BY DEF Map!ReserveFront, MapP!ReserveFront, Map!FrontCapacity, MapP!FrontCapacity,
    Map!ReallocateAt, MapP!ReallocateAt, Map!SizeOf, MapP!SizeOf, Map!Transfer,
    MapP!Transfer, Map!Address, MapP!Address, Map!NoObjects, MapP!NoObjects,
    Map!BufferFor, MapP!BufferFor, Map!Wrap, MapP!Wrap, Map!BackFree, MapP!BackFree

LEMMA MapSameReserveBack ==
  \A d, i : Map!ReserveBack(d, i) = MapP!ReserveBack(d, i)
  BY DEF Map!ReserveBack, MapP!ReserveBack, Map!BackCapacity, MapP!BackCapacity,
    Map!ReallocateAt, MapP!ReallocateAt, Map!SizeOf, MapP!SizeOf, Map!Transfer,
    MapP!Transfer, Map!Address, MapP!Address, Map!NoObjects, MapP!NoObjects,
    Map!BufferFor, MapP!BufferFor, Map!Wrap, MapP!Wrap, Map!FrontFree, MapP!FrontFree

LEMMA MapSameReserveFrontOk ==
  \A d, i : Map!ReserveFrontOk(d, i) = MapP!ReserveFrontOk(d, i)
  BY DEF Map!ReserveFrontOk, MapP!ReserveFrontOk, Map!FrontCapacity,
    MapP!FrontCapacity, Map!BackFree, MapP!BackFree

LEMMA MapSameReserveBackOk ==
  \A d, i : Map!ReserveBackOk(d, i) = MapP!ReserveBackOk(d, i)
  BY DEF Map!ReserveBackOk, MapP!ReserveBackOk, Map!BackCapacity, MapP!BackCapacity,
    Map!FrontFree, MapP!FrontFree

LEMMA MapSamePutFront ==
  \A d, xs : Map!PutFront(d, xs) = MapP!PutFront(d, xs)
  BY DEF Map!PutFront, MapP!PutFront, Map!Put, MapP!Put, Map!Address, MapP!Address

LEMMA MapSamePutBack ==
  \A d, xs : Map!PutBack(d, xs) = MapP!PutBack(d, xs)
  BY DEF Map!PutBack, MapP!PutBack, Map!Put, MapP!Put, Map!Address, MapP!Address

LEMMA MapSameEmplaceFront ==
  \A d, x : Map!EmplaceFront(d, x) = MapP!EmplaceFront(d, x)
  BY DEF Map!EmplaceFront, MapP!EmplaceFront, Map!FrontFree, MapP!FrontFree,
    Map!PutFront, MapP!PutFront, Map!Put, MapP!Put, Map!Address, MapP!Address,
    Map!InsertReallocating, MapP!InsertReallocating, Map!CalculateNewCapacity,
    MapP!CalculateNewCapacity, Map!Larger, MapP!Larger, Map!Wrap, MapP!Wrap,
    Map!BackFree, MapP!BackFree, Map!SizeOf, MapP!SizeOf, Map!NoObjects,
    MapP!NoObjects, Map!Transfer, MapP!Transfer, Map!BufferFor, MapP!BufferFor

LEMMA MapSameEmplaceBack ==
  \A d, x : Map!EmplaceBack(d, x) = MapP!EmplaceBack(d, x)
  BY DEF Map!EmplaceBack, MapP!EmplaceBack, Map!BackFree, MapP!BackFree, Map!PutBack,
    MapP!PutBack, Map!Put, MapP!Put, Map!Address, MapP!Address,
    Map!InsertReallocating, MapP!InsertReallocating, Map!CalculateNewCapacity,
    MapP!CalculateNewCapacity, Map!Larger, MapP!Larger, Map!Wrap, MapP!Wrap,
    Map!SizeOf, MapP!SizeOf, Map!NoObjects, MapP!NoObjects, Map!Transfer,
    MapP!Transfer, Map!BufferFor, MapP!BufferFor

LEMMA MapSamePopFront ==
  \A d, i : Map!PopFront(d, i) = MapP!PopFront(d, i)
  BY DEF Map!PopFront, MapP!PopFront, Map!Destroy, MapP!Destroy, Map!Address,
    MapP!Address

LEMMA MapSameEraseRange ==
  \A d, i, j : Map!EraseRange(d, i, j) = MapP!EraseRange(d, i, j)
  BY DEF Map!EraseRange, MapP!EraseRange, Map!EraseMovesFront, MapP!EraseMovesFront,
    Map!PopFront, MapP!PopFront, Map!Destroy, MapP!Destroy, Map!Address, MapP!Address,
    Map!Slide, MapP!Slide, Map!PopBack, MapP!PopBack

LEMMA MapSameInsertRange ==
  \A d, i, xs : Map!InsertRange(d, i, xs) = MapP!InsertRange(d, i, xs)
  BY DEF Map!InsertRange, MapP!InsertRange, Map!SizeOf, MapP!SizeOf, Map!BackFree,
    MapP!BackFree, Map!PutBack, MapP!PutBack, Map!Put, MapP!Put, Map!Address,
    MapP!Address, Map!FrontFree, MapP!FrontFree, Map!InsertNearFront,
    MapP!InsertNearFront, Map!Rotate, MapP!Rotate, Map!FreeSlots, MapP!FreeSlots,
    Map!InsertAround, MapP!InsertAround, Map!Smaller, MapP!Smaller,
    Map!InsertNearBack, MapP!InsertNearBack, Map!FirstOf, MapP!FirstOf, Map!Without,
    MapP!Without, Map!InsertReallocating, MapP!InsertReallocating,
    Map!CalculateNewCapacity, MapP!CalculateNewCapacity, Map!Larger, MapP!Larger,
    Map!Wrap, MapP!Wrap, Map!NoObjects, MapP!NoObjects, Map!Transfer, MapP!Transfer,
    Map!BufferFor, MapP!BufferFor, Map!PreferMoveFront, MapP!PreferMoveFront

LEMMA MapSameInsertRangeOk ==
  \A d, i : Map!InsertRangeOk(d, i) = MapP!InsertRangeOk(d, i)
  BY DEF Map!InsertRangeOk, MapP!InsertRangeOk, Map!FreeSlots, MapP!FreeSlots,
    Map!FrontFree, MapP!FrontFree, Map!BackFree, MapP!BackFree,
    Map!InsertReallocatingOk, MapP!InsertReallocatingOk, Map!CapacityOk,
    MapP!CapacityOk, Map!CalculateNewCapacity, MapP!CalculateNewCapacity, Map!Larger,
    MapP!Larger, Map!Wrap, MapP!Wrap

\* The map is a good devector.
MapGood(m) == MapP!Good(m)

MapSlot == Segments \cup {Unspec, Raw}

\* What is true of a good map.
LEMMA MapFacts ==
  ASSUME NEW m, MapGood(m)
  PROVE  /\ m \in Map!DevectorType /\ Map!InvariantsOk(m)
         /\ m.cap \in Nat /\ m.front \in Nat /\ m.back \in Nat
         /\ m.front =< m.back /\ m.back =< m.cap /\ m.cap =< MapMax /\ MapMax \in Nat
         /\ Map!SizeOf(m) = m.back - m.front
         /\ \A a \in m.front .. m.back - 1 :
              a \in 0 .. MapMax - 1 /\ m.slots[a] \in Segments \cup {Unspec}
<1>1. m \in MapP!DevectorType /\ MapP!InvariantsOk(m)
  BY DEF MapGood, MapP!Good
<1>2. MapP!Indices(m)
  BY MapConstants, MapP!GoodIndices DEF MapGood
<1>3. ASSUME NEW a \in m.front .. m.back - 1
      PROVE  a \in 0 .. MapMax - 1 /\ m.slots[a] \in Segments \cup {Unspec}
  <2>1. a \in MapP!Address /\ m.front =< a /\ a < m.back
    BY <1>2 DEF MapP!Indices, MapP!Address
  <2>2. MapP!Held(m.slots, a, m.front, m.back)
    BY <2>1 DEF MapGood, MapP!Good
  <2> QED
    BY <1>1, <2>1, <2>2
    DEF MapP!Held, MapP!DevectorType, MapP!Slot, MapP!Object, MapP!Address
<1> QED
  BY <1>1, <1>2, <1>3, MapSameDevectorType, MapSameInvariantsOk
  DEF MapP!Indices, Map!SizeOf

\* The constructor that reserves.
LEMMA MapReserved ==
  ASSUME NEW n \in Nat, n =< MapMax
  PROVE  /\ MapGood(Map!Reserved(0, n))
         /\ Map!Reserved(0, n).front = 0 /\ Map!Reserved(0, n).back = 0
<1>1. 0 \in Nat /\ 0 + n =< MapMax
  OBVIOUS
<1>2. MapP!Good(MapP!Reserved(0, n))
  BY <1>1, MapConstants, MapP!ReservedGood
<1> QED
  BY <1>2, MapSameReserved DEF MapGood, Map!Reserved

\* r has the slots of m in the same order.
MapMoved(m, r) ==
  /\ MapGood(r)
  /\ r.back - r.front = m.back - m.front
  /\ \A a \in m.front .. m.back - 1 : r.slots[a + (r.front - m.front)] = m.slots[a]

\* Where the slots are after reallocate_at.
LEMMA MapReallocated ==
  ASSUME NEW m, MapGood(m), NEW c, NEW offset \in Nat,
         MapGood(Map!ReallocateAt(m, c, offset))
  PROVE  /\ MapMoved(m, Map!ReallocateAt(m, c, offset))
         /\ Map!ReallocateAt(m, c, offset).front = offset
         /\ Map!ReallocateAt(m, c, offset).cap = c
<1> DEFINE r == Map!ReallocateAt(m, c, offset)
<1>1. /\ r.front = offset /\ r.cap = c /\ r.back = offset + (m.back - m.front)
      /\ r.slots = Map!Transfer(m.slots, m.front, m.back, Map!NoObjects, offset)
  BY DEF Map!ReallocateAt, Map!SizeOf
<1>2. /\ m.front \in Nat /\ m.back \in Nat /\ m.front =< m.back /\ MapMax \in Nat
      /\ r.back =< r.cap /\ r.cap =< MapMax /\ r.back \in Nat /\ r.cap \in Nat
  BY MapFacts
<1>3. ASSUME NEW a \in m.front .. m.back - 1
      PROVE  r.slots[a + (r.front - m.front)] = m.slots[a]
  <2> DEFINE b == a + (offset - m.front)
  <2>1. /\ b \in 0 .. MapMax - 1 /\ offset =< b /\ b < offset + (m.back - m.front)
        /\ m.front + (b - offset) = a
    BY <1>1, <1>2
  <2> HIDE DEF b
  <2>2. r.slots[b] = m.slots[m.front + (b - offset)]
    BY <1>1, <2>1 DEF Map!Transfer, Map!Address
  <2> QED
    BY <1>1, <2>1, <2>2 DEF b
<1> QED
  BY <1>1, <1>2, <1>3 DEF MapMoved

LEMMA MapReserveFront ==
  ASSUME NEW m, MapGood(m), NEW n \in Nat, Map!ReserveFrontOk(m, n)
  PROVE  MapMoved(m, Map!ReserveFront(m, n)) /\ Map!ReserveFront(m, n).back >= n
<1>1. /\ m.front \in Nat /\ m.back \in Nat /\ m.front =< m.back /\ m.back =< m.cap
      /\ m.cap \in Nat /\ m.cap =< MapMax /\ MapMax \in Nat
      /\ Map!SizeOf(m) = m.back - m.front
  BY MapFacts
<1>2. MapGood(Map!ReserveFront(m, n))
  <2>1. MapP!ReserveFrontOk(m, n) /\ MapP!Good(m)
    BY MapSameReserveFrontOk DEF MapGood
  <2>2. MapP!Good(MapP!ReserveFront(m, n))
    BY <2>1, MapConstants, MapP!ReserveFrontGood
  <2> QED
    BY <2>2, MapSameReserveFront DEF MapGood
<1>3. CASE m.back >= n
  <2>1. Map!ReserveFront(m, n) = m
    BY <1>3 DEF Map!ReserveFront, Map!FrontCapacity
  <2>2. \A a \in m.front .. m.back - 1 : a + (m.front - m.front) = a
    BY <1>1
  <2> QED
    BY <1>3, <2>1, <2>2 DEF MapMoved
<1>4. CASE m.back < n
  <2> DEFINE offset == n - (m.back - m.front)
             c == Map!Wrap(n + Map!BackFree(m))
  <2>1. Map!ReserveFront(m, n) = Map!ReallocateAt(m, c, offset)
    BY <1>1, <1>4 DEF Map!ReserveFront, Map!FrontCapacity
  <2>2. offset \in Nat
    BY <1>1, <1>4
  <2> HIDE DEF offset, c
  <2>3. /\ MapMoved(m, Map!ReserveFront(m, n))
        /\ Map!ReserveFront(m, n).front = offset
    BY <1>2, <2>1, <2>2, MapReallocated
  <2>4. Map!ReserveFront(m, n).back = n
    <3> DEFINE r == Map!ReserveFront(m, n)
    <3>1. r.back - r.front = m.back - m.front /\ r.front = offset /\ r.back \in Nat
      BY <1>2, <2>3, MapFacts DEF MapMoved
    <3> HIDE DEF r
    <3>2. r.back = n
      BY <1>1, <2>2, <3>1 DEF offset
    <3> QED
      BY <3>2 DEF r
  <2> QED
    BY <2>3, <2>4
<1> QED
  BY <1>1, <1>3, <1>4

LEMMA MapReserveBack ==
  ASSUME NEW m, MapGood(m), NEW n \in Nat, Map!ReserveBackOk(m, n)
  PROVE  /\ MapMoved(m, Map!ReserveBack(m, n))
         /\ Map!ReserveBack(m, n).front = m.front
         /\ Map!ReserveBack(m, n).cap - m.front >= n
<1>1. /\ m.front \in Nat /\ m.back \in Nat /\ m.front =< m.back /\ m.back =< m.cap
      /\ m.cap \in Nat /\ m.cap =< MapMax /\ MapMax \in Nat
  BY MapFacts
<1>2. MapGood(Map!ReserveBack(m, n))
  <2>1. MapP!ReserveBackOk(m, n) /\ MapP!Good(m)
    BY MapSameReserveBackOk DEF MapGood
  <2>2. MapP!Good(MapP!ReserveBack(m, n))
    BY <2>1, MapConstants, MapP!ReserveBackGood
  <2> QED
    BY <2>2, MapSameReserveBack DEF MapGood
<1>3. CASE m.cap - m.front >= n
  <2>1. Map!ReserveBack(m, n) = m
    BY <1>3 DEF Map!ReserveBack, Map!BackCapacity
  <2>2. \A a \in m.front .. m.back - 1 : a + (m.front - m.front) = a
    BY <1>1
  <2> QED
    BY <1>3, <2>1, <2>2 DEF MapMoved
<1>4. CASE ~(m.cap - m.front >= n)
  <2> DEFINE c == Map!Wrap(n + m.front)
  <2>1. Map!ReserveBack(m, n) = Map!ReallocateAt(m, c, m.front)
    BY <1>4 DEF Map!ReserveBack, Map!BackCapacity, Map!FrontFree
  <2>2. c = n + m.front
    <3>1. n + m.front =< MapMax
      BY <1>4 DEF Map!ReserveBackOk, Map!BackCapacity, Map!FrontFree
    <3>2. MapMax < Word /\ Word \in Nat
      BY <1>1, BatchAssumption, SegmentAssumption
    <3> QED
      BY <1>1, <3>1, <3>2 DEF Map!Wrap
  <2> HIDE DEF c
  <2>3. /\ MapMoved(m, Map!ReserveBack(m, n))
        /\ Map!ReserveBack(m, n).front = m.front /\ Map!ReserveBack(m, n).cap = c
    BY <1>1, <1>2, <2>1, MapReallocated
  <2> QED
    BY <1>1, <2>2, <2>3
<1> QED
  BY <1>3, <1>4

LEMMA SameFunction ==
  ASSUME NEW S, NEW T, NEW f \in [S -> T], NEW g \in [S -> T],
         \A x \in S : f[x] = g[x]
  PROVE  f = g
  OBVIOUS

\* Moving no element leaves all slots as they are.
LEMMA SlideNothing ==
  ASSUME NEW s \in [Map!Address -> Map!Slot], NEW hi \in Nat, NEW at \in Nat
  PROVE  Map!Slide(s, hi, hi, at) = s
<1> DEFINE slid == Map!Slide(s, hi, hi, at)
           A == Map!Address
           T == Map!Slot
<1>1. \A a \in Map!Address : a \in Int
  BY DEF Map!Address
<1>2. slid \in [A -> T] /\ \A a \in A : slid[a] = s[a]
  <2>1. CASE at = hi
    BY <1>1, <2>1 DEF Map!Slide
  <2>2. CASE at # hi
    <3>1. \A a \in Int : ~(at =< a /\ a < at + (hi - hi)) /\ ~(hi =< a /\ a < hi)
      OBVIOUS
    <3> QED
      BY <1>1, <2>2, <3>1, Zenon DEF Map!Slide
  <2> QED
    BY <2>1, <2>2
<1> HIDE DEF slid, A, T
<1>3. slid = s
  <2>1. s \in [A -> T]
    BY DEF A, T
  <2> QED
    BY <1>2, <2>1, SameFunction
<1> QED
  BY <1>3 DEF slid

\* One pointer more.
LEMMA OneSegment ==
  ASSUME NEW s \in Segments
  PROVE  <<s>> \in Seq(MapP!Object) /\ Len(<<s>>) = 1 /\ <<s>>[1] = s
  BY DEF MapP!Object

LEMMA MapPutFront ==
  ASSUME NEW m, MapGood(m), NEW s \in Segments, m.front > 0
  PROVE  LET r == Map!PutFront(m, <<s>>)
         IN  /\ MapGood(r) /\ r = Map!EmplaceFront(m, s)
             /\ r.front = m.front - 1 /\ r.back = m.back
             /\ r.slots[m.front - 1] = s
             /\ \A a \in m.front .. m.back - 1 : r.slots[a] = m.slots[a]
<1> DEFINE r == Map!PutFront(m, <<s>>)
<1>1. /\ m.front \in Nat /\ m.back \in Nat /\ m.front =< m.back /\ m.back =< MapMax
      /\ MapMax \in Nat /\ m \in Map!DevectorType
  BY MapFacts
<1>2. MapGood(r)
  <2>1. MapP!Good(m) /\ Len(<<s>>) =< MapP!FrontFree(m)
    BY <1>1, OneSegment DEF MapGood, MapP!FrontFree
  <2>2. MapP!Good(MapP!PutFront(m, <<s>>))
    BY <2>1, OneSegment, MapConstants, MapP!PutFrontGood
  <2> QED
    BY <2>2, MapSamePutFront DEF MapGood
<1>3. r = Map!EmplaceFront(m, s)
  BY DEF Map!EmplaceFront, Map!FrontFree
<1>4. /\ r.front = m.front - 1 /\ r.back = m.back
      /\ r.slots = Map!Put(m.slots, m.front - 1, <<s>>)
  BY <1>1 DEF Map!PutFront, Map!DevectorType
<1>5. r.slots[m.front - 1] = s
  <2> DEFINE at == m.front - 1
  <2>0. at \in 0 .. MapMax - 1 /\ at - at + 1 = 1 /\ at < at + 1
    BY <1>1
  <2>1. /\ at \in Map!Address /\ at =< at /\ at < at + Len(<<s>>)
        /\ <<s>>[at - at + 1] = s
    BY <2>0, OneSegment DEF Map!Address
  <2> HIDE DEF at, r
  <2>2. r.slots = Map!Put(m.slots, at, <<s>>)
    BY <1>4 DEF at
  <2>3. r.slots[at] = s
    BY <2>1, <2>2, Zenon DEF Map!Put
  <2> QED
    BY <2>3 DEF at
<1>6. ASSUME NEW a \in m.front .. m.back - 1 PROVE r.slots[a] = m.slots[a]
  BY <1>1, <1>4 DEF Map!Put, Map!Address
<1> QED
  BY <1>2, <1>3, <1>4, <1>5, <1>6

LEMMA MapPutBack ==
  ASSUME NEW m, MapGood(m), NEW s \in Segments, m.back < m.cap
  PROVE  LET r == Map!PutBack(m, <<s>>)
         IN  /\ MapGood(r) /\ r = Map!EmplaceBack(m, s)
             /\ r.front = m.front /\ r.back = m.back + 1 /\ r.cap = m.cap
             /\ r.slots[m.back] = s
             /\ \A a \in m.front .. m.back - 1 : r.slots[a] = m.slots[a]
<1> DEFINE r == Map!PutBack(m, <<s>>)
<1>1. /\ m.front \in Nat /\ m.back \in Nat /\ m.front =< m.back /\ m.cap =< MapMax
      /\ m.cap \in Nat /\ MapMax \in Nat /\ m \in Map!DevectorType
  BY MapFacts
<1>2. MapGood(r)
  <2>1. MapP!Good(m) /\ Len(<<s>>) =< MapP!BackFree(m)
    BY <1>1, OneSegment DEF MapGood, MapP!BackFree
  <2>2. MapP!Good(MapP!PutBack(m, <<s>>))
    BY <2>1, OneSegment, MapConstants, MapP!PutBackGood
  <2> QED
    BY <2>2, MapSamePutBack DEF MapGood
<1>3. r = Map!EmplaceBack(m, s)
  <2>1. Map!BackFree(m) > 0
    BY <1>1 DEF Map!BackFree
  <2> QED
    BY <2>1 DEF Map!EmplaceBack
<1>4. /\ r.front = m.front /\ r.back = m.back + 1 /\ r.cap = m.cap
      /\ r.slots = Map!Put(m.slots, m.back, <<s>>)
  BY <1>1 DEF Map!PutBack, Map!DevectorType
<1>5. r.slots[m.back] = s
  <2> DEFINE at == m.back
  <2>1. /\ at \in Map!Address /\ at =< at /\ at < at + Len(<<s>>)
        /\ <<s>>[at - at + 1] = s
    BY <1>1, OneSegment DEF Map!Address
  <2> HIDE DEF at, r
  <2>2. r.slots = Map!Put(m.slots, at, <<s>>)
    BY <1>4 DEF at
  <2>3. r.slots[at] = s
    BY <2>1, <2>2, Zenon DEF Map!Put
  <2> QED
    BY <2>3 DEF at
<1>6. ASSUME NEW a \in m.front .. m.back - 1 PROVE r.slots[a] = m.slots[a]
  BY <1>1, <1>4 DEF Map!Put, Map!Address
<1> QED
  BY <1>2, <1>3, <1>4, <1>5, <1>6

LEMMA MapPopFront ==
  ASSUME NEW m, MapGood(m), NEW n \in Nat, m.front + n =< m.back
  PROVE  LET r == Map!PopFront(m, n)
         IN  /\ MapGood(r) /\ r.front = m.front + n /\ r.back = m.back
             /\ \A a \in m.front + n .. m.back - 1 : r.slots[a] = m.slots[a]
<1> DEFINE r == Map!PopFront(m, n)
<1>1. /\ m.front \in Nat /\ m.back \in Nat /\ m.front =< m.back /\ m.back =< MapMax
      /\ MapMax \in Nat /\ m \in Map!DevectorType
  BY MapFacts
<1>2. MapGood(r)
  <2>1. MapP!Good(m) /\ n =< MapP!SizeOf(m)
    BY <1>1 DEF MapGood, MapP!SizeOf
  <2>2. MapP!Good(MapP!PopFront(m, n))
    BY <2>1, MapConstants, MapP!PopFrontGood
  <2> QED
    BY <2>2, MapSamePopFront DEF MapGood
<1>3. /\ r.front = m.front + n /\ r.back = m.back
      /\ r.slots = Map!Destroy(m.slots, m.front, m.front + n)
  BY <1>1 DEF Map!PopFront, Map!DevectorType
<1>4. ASSUME NEW a \in m.front + n .. m.back - 1 PROVE r.slots[a] = m.slots[a]
  BY <1>1, <1>3 DEF Map!Destroy, Map!Address
<1> QED
  BY <1>2, <1>3, <1>4

\* Erasing the last slots moves nothing.
LEMMA MapEraseTail ==
  ASSUME NEW m, MapGood(m), NEW lo \in m.front .. m.back
  PROVE  LET r == Map!EraseRange(m, lo, m.back)
         IN  /\ MapGood(r) /\ r.front = m.front /\ r.back = lo
             /\ \A a \in m.front .. lo - 1 : r.slots[a] = m.slots[a]
<1> DEFINE r == Map!EraseRange(m, lo, m.back)
           slid == Map!Slide(m.slots, m.back, m.back, lo)
           d == [m EXCEPT !.slots = slid]
           n == m.back - lo
<1>1. /\ m.front \in Nat /\ m.back \in Nat /\ m.front =< m.back /\ m.back =< MapMax
      /\ MapMax \in Nat /\ m \in Map!DevectorType /\ lo \in Nat /\ n \in Nat
  BY MapFacts
<1>2. m.slots \in [0 .. MapMax - 1 -> Map!Slot]
  BY <1>1 DEF Map!DevectorType, Map!Address
<1>3. slid = m.slots
  <2> DEFINE s == m.slots
             hi == m.back
  <2>1. s \in [Map!Address -> Map!Slot] /\ hi \in Nat /\ lo \in Nat
    BY <1>1 DEF Map!DevectorType
  <2> HIDE DEF s, hi
  <2>2. Map!Slide(s, hi, hi, lo) = s
    BY <2>1, SlideNothing
  <2> QED
    BY <2>2 DEF s, hi
<1>4. d = m
  BY <1>1, <1>3 DEF Map!DevectorType
<1>5. r = Map!PopBack(m, n)
  <2>1. ~Map!EraseMovesFront(m, lo, m.back)
    BY <1>1 DEF Map!EraseMovesFront
  <2>2. r = Map!PopBack(d, n)
    BY <2>1 DEF Map!EraseRange
  <2> QED
    BY <1>4, <2>2
<1>6. MapGood(r)
  <2>1. MapP!Good(m) /\ n =< MapP!SizeOf(m)
    BY <1>1 DEF MapGood, MapP!SizeOf
  <2>2. MapP!Good(MapP!PopBack(m, n))
    BY <1>1, <2>1, MapConstants, MapP!PopBackGood
  <2>3. MapP!PopBack(m, n) = Map!PopBack(m, n)
    BY DEF MapP!PopBack, Map!PopBack, MapP!Destroy, Map!Destroy, MapP!Address, Map!Address
  <2> QED
    BY <1>5, <2>2, <2>3 DEF MapGood
<1>7. /\ r.front = m.front /\ r.back = lo
      /\ r.slots = Map!Destroy(m.slots, m.back - n, m.back)
  <2>1. m.back - n = lo
    BY <1>1
  <2> HIDE DEF n
  <2> QED
    BY <1>1, <1>5, <2>1 DEF Map!PopBack, Map!DevectorType
<1>8. ASSUME NEW a \in m.front .. lo - 1 PROVE r.slots[a] = m.slots[a]
  BY <1>1, <1>7 DEF Map!Destroy, Map!Address
<1> HIDE DEF r
<1> QED
  BY <1>6, <1>7, <1>8 DEF r

\* Inserting pointers moves those before `index` and those behind it together.
LEMMA MapInsertRange ==
  ASSUME NEW m, MapGood(m), NEW index \in 0 .. m.back - m.front,
         NEW xs \in Seq(Segments), Map!InsertRangeOk(m, Len(xs)), Len(xs) =< MapMax
  PROVE  LET r == Map!InsertRange(m, index, xs)
         IN  /\ MapGood(r) /\ r.back - r.front = m.back - m.front + Len(xs)
             /\ \A k \in 0 .. index - 1 : r.slots[r.front + k] = m.slots[m.front + k]
             /\ \A k \in 0 .. Len(xs) - 1 : r.slots[r.front + index + k] = xs[k + 1]
             /\ \A k \in index .. m.back - m.front - 1 :
                  r.slots[r.front + Len(xs) + k] = m.slots[m.front + k]
<1> DEFINE r == Map!InsertRange(m, index, xs)
<1>1. /\ m.front \in Nat /\ m.back \in Nat /\ m.cap \in Nat /\ m.cap =< MapMax
      /\ MapMax \in Nat /\ Word \in Nat /\ 4 * MapMax < Word
  BY MapFacts, SegmentAssumption, BatchAssumption
<1>2. xs \in Seq(MapP!Object) /\ Len(xs) \in Nat
  BY DEF MapP!Object
<1>3. MapP!SizeOf(m) = m.back - m.front
  BY DEF MapP!SizeOf
<1>4. /\ MapP!Good(m) /\ index \in 0 .. MapP!SizeOf(m)
      /\ MapP!InsertRangeOk(m, Len(xs)) /\ m.cap + Len(xs) =< Word - 1
  BY <1>1, <1>2, <1>3, MapSameInsertRangeOk DEF MapGood
<1>5. MapP!Good(MapP!InsertRange(m, index, xs))
  BY <1>2, <1>4, MapConstants, MapP!InsertRangeGood
<1>6. MapP!Inserted(m, MapP!InsertRange(m, index, xs), index, xs)
  BY <1>2, <1>4, MapConstants, MapP!InsertRangeInserted
<1>7. MapGood(r) /\ MapP!Inserted(m, r, index, xs)
  BY <1>5, <1>6, MapSameInsertRange DEF MapGood
<1> HIDE DEF r
<1> QED
  BY <1>3, <1>7 DEF MapP!Inserted, MapP!SizeOf, r

-----------------------------------------------------------------------------
\* What every operation relies on and reestablishes.  `kept` are segments that were
\* obtained for another deque, which held m0 when that was done.

\* The cell with this slot and index is one of an element.
Within(d, a, i) ==
  First(d) =< a * SegmentSize + i /\ a * SegmentSize + i < Past(d)

\* It has the members of a deque.
IsDeque(d) ==
  d = [map |-> d.map, allocated |-> d.allocated, mem |-> d.mem,
       begin |-> d.begin, end |-> d.end]

\* The iterators lie in the map, in order.
Bounded(d) ==
  /\ d.map.front * SegmentSize =< First(d)
  /\ First(d) =< Past(d)
  /\ Past(d) =< d.map.back * SegmentSize

Shaped(d) == d \in DequeType /\ MapGood(d.map) /\ Bounded(d)

\* The map holds every segment of the deque once, and no other pointer.
Owned(d, kept) ==
  /\ kept \subseteq d.allocated
  /\ \A a \in MapSlots(d) : d.map.slots[a] \in d.allocated \ kept
  /\ \A s \in d.allocated \ kept : \E a \in MapSlots(d) : d.map.slots[a] = s
  /\ \A a, b \in MapSlots(d) : d.map.slots[a] = d.map.slots[b] => a = b

\* Every element is an object.
Filled(d) ==
  \A a \in MapSlots(d), i \in Indices :
    Within(d, a, i) => d.mem[d.map.slots[a]][i] # Raw

\* There is no other object.
Tidy(d) ==
  /\ \A a \in MapSlots(d), i \in Indices :
       d.mem[d.map.slots[a]][i] # Raw => Within(d, a, i)
  /\ \A s \in Segments \ d.allocated : d.mem[s] = EmptySegment

Good(d, kept, m0) ==
  /\ Shaped(d)
  /\ Owned(d, kept)
  /\ Filled(d)
  /\ \A s \in kept : d.mem[s] = m0[s]
  /\ ~ShiftMayThrow => Tidy(d)

\* The number of free cells in front of the elements, and behind them
FreeInFront(d) == First(d) - d.map.front * SegmentSize

\* e has the elements of d, in the cells where they were, after f other elements and
\* before b others.
Grown(d, e, f, b) ==
  \E shift \in Int :
    /\ First(e) = First(d) + shift * SegmentSize - f
    /\ Past(e) = Past(d) + shift * SegmentSize + b
    /\ \A a \in MapSlots(d), i \in Indices :
         Within(d, a, i) =>
           /\ a + shift \in MapSlots(e)
           /\ e.map.slots[a + shift] = d.map.slots[a]
           /\ e.mem[d.map.slots[a]][i] = d.mem[d.map.slots[a]][i]

LEMMA ShapedNumbers ==
  ASSUME NEW d, Shaped(d)
  PROVE  /\ d.map.front \in Nat /\ d.map.back \in Nat /\ d.map.front =< d.map.back
         /\ d.map.back =< d.map.cap /\ d.map.cap \in Nat /\ d.map.cap =< MapMax
         /\ MapMax \in Nat
         /\ d.begin \in Iterators /\ d.end \in Iterators
         /\ First(d) \in Int /\ Past(d) \in Int
         /\ d.map.front * SegmentSize \in Int /\ d.map.back * SegmentSize \in Int
         /\ Locate(First(d)) = d.begin /\ Locate(Past(d)) = d.end
         /\ IsDeque(d)
<1>1. /\ d.map.front \in Nat /\ d.map.back \in Nat /\ d.map.front =< d.map.back
      /\ d.map.back =< d.map.cap /\ d.map.cap \in Nat /\ d.map.cap =< MapMax
      /\ MapMax \in Nat
  BY MapFacts DEF Shaped
<1>2. d.begin \in Iterators /\ d.end \in Iterators /\ IsDeque(d)
  BY <1>1 DEF Shaped, DequeType, Iterators, IsDeque
<1>3. d.map.front * SegmentSize \in Int /\ d.map.back * SegmentSize \in Int
  BY <1>1, SegmentAssumption
<1> QED
  BY <1>1, <1>2, <1>3, PositionLocates DEF First, Past

\* An iterator between the start of the map and its end
LEMMA InMap ==
  ASSUME NEW m, MapGood(m), NEW i \in Iterators,
         m.front * SegmentSize =< Position(i), Position(i) =< m.back * SegmentSize
  PROVE  /\ i \in [at : 0 .. MapMax, index : Indices]
         /\ m.front =< i.at /\ i.at =< m.back /\ (i.at = m.back => i.index = 0)
<1>1. /\ m.front \in Nat /\ m.back \in Nat /\ m.back =< MapMax /\ MapMax \in Nat
  BY MapFacts
<1>2. i.at \in Int /\ i.index \in Indices /\ i.index \in Nat
  BY SegmentAssumption DEF Iterators, Indices
<1>3. m.front =< i.at
  BY <1>1, <1>2, PlaceOrder DEF Position
<1>4. i.at =< m.back /\ (i.at = m.back => i.index = 0)
  BY <1>1, <1>2, UpTo DEF Position
<1>5. i \in [at : 0 .. MapMax, index : Indices]
  BY <1>1, <1>2, <1>3, <1>4 DEF Iterators
<1> QED
  BY <1>3, <1>4, <1>5

\* The members of a deque make it one.
LEMMA ShapedIf ==
  ASSUME NEW d, IsDeque(d), MapGood(d.map), d.allocated \subseteq Segments,
         d.mem \in [Segments -> Segment], d.begin \in Iterators, d.end \in Iterators,
         Bounded(d)
  PROVE  Shaped(d)
<1>1. First(d) \in Int /\ Past(d) \in Int
  BY PositionLocates DEF First, Past
<1>2. /\ d.map.front \in Nat /\ d.map.back \in Nat /\ d.map.front =< d.map.back
      /\ d.map \in Map!DevectorType
  BY MapFacts
<1>3. d.map.front * SegmentSize \in Int /\ d.map.back * SegmentSize \in Int
  BY <1>2, Distribute
<1>4. d.map.front * SegmentSize =< Past(d) /\ First(d) =< d.map.back * SegmentSize
  BY <1>1, <1>3 DEF Bounded
<1>5. /\ d.begin \in [at : 0 .. MapMax, index : Indices]
      /\ d.end \in [at : 0 .. MapMax, index : Indices]
  BY <1>4, InMap DEF Bounded, First, Past
<1>6. d \in DequeType
  <2> DEFINE m == d.map
             al == d.allocated
             mm == d.mem
             b == d.begin
             e == d.end
  <2>1. d = [map |-> m, allocated |-> al, mem |-> mm, begin |-> b, end |-> e]
    BY DEF IsDeque
  <2>2. /\ m \in Map!DevectorType /\ al \in SUBSET Segments
        /\ mm \in [Segments -> Segment] /\ b \in [at : 0 .. MapMax, index : Indices]
        /\ e \in [at : 0 .. MapMax, index : Indices]
    BY <1>2, <1>5
  <2> HIDE DEF m, al, mm, b, e
  <2> QED
    BY <2>1, <2>2 DEF DequeType
<1> QED
  BY <1>6 DEF Shaped

\* A map has no more slots in use than there are segments.
LEMMA SegmentsFit ==
  ASSUME NEW d, NEW kept, Shaped(d), Owned(d, kept)
  PROVE  d.map.back - d.map.front =< MaxSegments
<1> DEFINE lo == d.map.front
           hi == d.map.back
           f == [a \in lo .. hi - 1 |-> d.map.slots[a]]
<1>1. lo \in Int /\ hi \in Int /\ lo =< hi /\ MaxSegments \in Nat
  BY ShapedNumbers, BatchAssumption
<1>2. \A a \in lo .. hi - 1 : d.map.slots[a] \in 1 .. MaxSegments
  BY DEF Shaped, DequeType, Owned, MapSlots, Segments
<1>3. \A a, b \in lo .. hi - 1 : d.map.slots[a] = d.map.slots[b] => a = b
  BY DEF Owned, MapSlots
<1>4. f \in Injection(lo .. hi - 1, 1 .. MaxSegments)
  BY <1>2, <1>3 DEF Injection, IsInjective
<1> HIDE DEF f, lo, hi
<1>5. IsFiniteSet(1 .. MaxSegments)
  BY <1>1, FS_Interval
<1>6. Cardinality(1 .. MaxSegments) = MaxSegments
  <2>1. Cardinality(1 .. MaxSegments)
          = IF 1 > MaxSegments THEN 0 ELSE MaxSegments - 1 + 1
    BY <1>1, FS_Interval
  <2> QED
    BY <1>1, <2>1
<1>7. Cardinality(lo .. hi - 1) = hi - lo
  <2>1. Cardinality(lo .. hi - 1) = IF lo > hi - 1 THEN 0 ELSE hi - 1 - lo + 1
    BY <1>1, FS_Interval
  <2> QED
    BY <1>1, <2>1
<1>8. Cardinality(lo .. hi - 1) =< Cardinality(1 .. MaxSegments)
  BY <1>4, <1>5, FS_Injection, Zenon
<1> QED
  BY <1>6, <1>7, <1>8 DEF lo, hi

\* The number of elements is what distance_to says.
LEMMA SizeIs ==
  ASSUME NEW d, NEW kept, Shaped(d), Owned(d, kept)
  PROVE  /\ SizeOf(d) = Past(d) - First(d) /\ SizeOf(d) \in Nat
         /\ SizeOf(d) =< SegmentSize * MaxSegments
         /\ SegmentSize * MaxSegments \in Nat
         /\ SegmentSize * MaxSegments < Word \div 2
<1> DEFINE n == SegmentSize * MaxSegments
           x == d.map.front * SegmentSize
           y == d.map.back * SegmentSize
<1>1. /\ d.map.front \in Nat /\ d.map.back \in Nat
      /\ d.begin \in Iterators /\ d.end \in Iterators
      /\ First(d) \in Int /\ Past(d) \in Int /\ x \in Int /\ y \in Int
  BY ShapedNumbers
<1>2. n \in Nat /\ n < Word \div 2
  BY SegmentAssumption, BatchAssumption
<1>3. y - x =< n
  <2>0. d.map.front \in Int /\ d.map.back \in Int
    BY <1>1
  <2>1. y - x = (d.map.back - d.map.front) * SegmentSize
    BY <2>0, Distribute
  <2>2. d.map.back - d.map.front =< MaxSegments /\ d.map.back - d.map.front \in Int
    BY <1>1, SegmentsFit
  <2>3. \A k \in Int : k =< MaxSegments => k * SegmentSize =< n
    BY SegmentAssumption, BatchAssumption
  <2> QED
    BY <2>1, <2>2, <2>3
<1>4. x =< First(d) /\ First(d) =< Past(d) /\ Past(d) =< y
  BY DEF Shaped, Bounded
<1> HIDE DEF n, x, y
<1>5. 0 =< Past(d) - First(d) /\ Past(d) - First(d) =< n
  BY <1>1, <1>2, <1>3, <1>4
<1>6. SizeOf(d) = Past(d) - First(d)
  <2>1. -n =< Past(d) - First(d)
    BY <1>1, <1>2, <1>5
  <2> QED
    BY <1>1, <1>2, <1>5, <2>1, DistanceIs DEF SizeOf, First, Past
<1> QED
  BY <1>1, <1>2, <1>5, <1>6 DEF n

\* The slot and the index of a position in the map
LEMMA SlotAt ==
  ASSUME NEW d, Shaped(d), NEW p \in Int,
         d.map.front * SegmentSize =< p, p < d.map.back * SegmentSize
  PROVE  /\ p \div SegmentSize \in MapSlots(d) /\ p % SegmentSize \in Indices
         /\ (p \div SegmentSize) * SegmentSize + (p % SegmentSize) = p
         /\ Within(d, p \div SegmentSize, p % SegmentSize) <=>
              First(d) =< p /\ p < Past(d)
         /\ Cell(d, p) = d.mem[d.map.slots[p \div SegmentSize]][p % SegmentSize]
<1> DEFINE a == p \div SegmentSize
           i == p % SegmentSize
<1>1. a \in Int /\ i \in Indices /\ a * SegmentSize + i = p
  BY PartsOf
<1> HIDE DEF a, i
<1>2. d.map.front \in Int /\ d.map.back \in Int
  BY ShapedNumbers
<1>3. d.map.front =< a /\ a < d.map.back
  BY <1>1, <1>2, PlaceOrder
<1>4. a \in MapSlots(d)
  BY <1>1, <1>2, <1>3 DEF MapSlots
<1> QED
  BY <1>1, <1>4 DEF a, i, Within, Cell

LEMMA PlaceInMap ==
  ASSUME NEW d, Shaped(d), NEW a \in MapSlots(d), NEW i \in Indices
  PROVE  /\ a \in Int /\ a * SegmentSize + i \in Int
         /\ d.map.front * SegmentSize =< a * SegmentSize + i
         /\ a * SegmentSize + i < d.map.back * SegmentSize
         /\ Cell(d, a * SegmentSize + i) = d.mem[d.map.slots[a]][i]
<1>1. /\ d.map.front \in Int /\ d.map.back \in Int
      /\ a \in Int /\ d.map.front =< a /\ a < d.map.back
  BY ShapedNumbers DEF MapSlots
<1> QED
  BY <1>1, PlaceOf, PlaceOrder DEF Cell

\* Every element is an object.
LEMMA ElementObject ==
  ASSUME NEW d, NEW kept, Shaped(d), Owned(d, kept), Filled(d),
         NEW p \in Int, First(d) =< p, p < Past(d)
  PROVE  Cell(d, p) \in Object
<1>1. /\ First(d) \in Int /\ Past(d) \in Int
      /\ d.map.front * SegmentSize \in Int /\ d.map.back * SegmentSize \in Int
      /\ d.map.front * SegmentSize =< First(d) /\ Past(d) =< d.map.back * SegmentSize
  BY ShapedNumbers DEF Shaped, Bounded
<1>2. d.map.front * SegmentSize =< p /\ p < d.map.back * SegmentSize
  BY <1>1
<1> DEFINE a == p \div SegmentSize
           i == p % SegmentSize
<1>3. a \in MapSlots(d) /\ i \in Indices /\ Within(d, a, i)
      /\ Cell(d, p) = d.mem[d.map.slots[a]][i]
  BY <1>2, SlotAt
<1> HIDE DEF a, i
<1>4. d.map.slots[a] \in Segments /\ d.mem \in [Segments -> Segment]
  BY <1>3 DEF Owned, Shaped, DequeType
<1>5. d.mem[d.map.slots[a]][i] \in Slot
  BY <1>3, <1>4 DEF Segment
<1> QED
  BY <1>3, <1>5 DEF Filled, Slot

-----------------------------------------------------------------------------
\* Writing cells, moving the map, and a segment more

\* What Store writes, and what it leaves.
LEMMA StoreIs ==
  ASSUME NEW d, NEW kept, Shaped(d), Owned(d, kept),
         NEW f, \A p \in DOMAIN f : f[p] \in Slot
  PROVE  LET e == Store(d, f)
         IN  /\ IsDeque(e) /\ e.map = d.map /\ e.allocated = d.allocated
             /\ e.begin = d.begin /\ e.end = d.end
             /\ e.mem \in [Segments -> Segment]
             /\ \A a \in MapSlots(d), i \in Indices :
                  e.mem[d.map.slots[a]][i] =
                    IF a * SegmentSize + i \in DOMAIN f THEN f[a * SegmentSize + i]
                    ELSE d.mem[d.map.slots[a]][i]
             /\ \A s \in Segments :
                  (\A a \in MapSlots(d) : d.map.slots[a] # s) => e.mem[s] = d.mem[s]
<1> DEFINE e == Store(d, f)
           slots(s) == {a \in MapSlots(d) : d.map.slots[a] = s}
           write(s, a) == [i \in Indices |->
                             IF a * SegmentSize + i \in DOMAIN f
                             THEN f[a * SegmentSize + i] ELSE d.mem[s][i]]
<1>1. d \in DequeType /\ IsDeque(d) /\ d.mem \in [Segments -> Segment]
  BY ShapedNumbers DEF Shaped, DequeType
<1>2. e.mem = [s \in Segments |->
                 IF slots(s) = {} THEN d.mem[s]
                 ELSE write(s, CHOOSE a \in slots(s) : TRUE)]
  BY <1>1 DEF Store, IsDeque
<1>3. /\ e.map = d.map /\ e.allocated = d.allocated /\ e.begin = d.begin
      /\ e.end = d.end /\ IsDeque(e)
  <2> DEFINE X == e.mem
  <2>1. e = [d EXCEPT !.mem = X]
    BY <1>2 DEF Store
  <2> HIDE DEF e, X
  <2>2. \E m, al, mm, b, t : d = [map |-> m, allocated |-> al, mem |-> mm,
                                 begin |-> b, end |-> t]
    BY <1>1 DEF IsDeque
  <2> QED
    BY <2>1, <2>2 DEF IsDeque
<1> HIDE DEF e
<1>4. ASSUME NEW s \in Segments, NEW a PROVE write(s, a) \in Segment
  BY <1>1, <1>4 DEF Segment
<1>5. e.mem \in [Segments -> Segment]
  <2> HIDE DEF write, slots
  <2>1. ASSUME NEW s \in Segments
        PROVE  /\ d.mem[s] \in Segment
               /\ write(s, CHOOSE a \in slots(s) : TRUE) \in Segment
    <3> DEFINE c == CHOOSE a \in slots(s) : TRUE
    <3> HIDE DEF c
    <3>1. write(s, c) \in Segment
      BY <1>4
    <3> QED
      BY <1>1, <3>1 DEF c
  <2> QED
    BY <1>2, <2>1
<1>6. ASSUME NEW a \in MapSlots(d), NEW i \in Indices
      PROVE  e.mem[d.map.slots[a]][i] =
               IF a * SegmentSize + i \in DOMAIN f THEN f[a * SegmentSize + i]
               ELSE d.mem[d.map.slots[a]][i]
  <2> DEFINE s == d.map.slots[a]
  <2>1. s \in Segments
    BY <1>1 DEF Owned, DequeType
  <2>2. slots(s) = {a}
    BY DEF Owned
  <2>3. e.mem[s] = write(s, a)
    BY <1>2, <2>1, <2>2
  <2> QED
    BY <2>3
<1>7. ASSUME NEW s \in Segments, \A a \in MapSlots(d) : d.map.slots[a] # s
      PROVE  e.mem[s] = d.mem[s]
  BY <1>2, <1>7
<1> QED
  BY <1>3, <1>5, <1>6, <1>7 DEF e

\* The same for the cell at a position.
LEMMA CellsStored ==
  ASSUME NEW d, NEW kept, Shaped(d), Owned(d, kept),
         NEW f, \A p \in DOMAIN f : f[p] \in Slot, NEW e,
         e.map = d.map, e.mem = Store(d, f).mem, NEW p \in Int,
         d.map.front * SegmentSize =< p, p < d.map.back * SegmentSize
  PROVE  Cell(e, p) = IF p \in DOMAIN f THEN f[p] ELSE Cell(d, p)
<1> DEFINE a == p \div SegmentSize
           i == p % SegmentSize
           s == Store(d, f)
<1>1. /\ a \in MapSlots(d) /\ i \in Indices /\ a * SegmentSize + i = p
      /\ Cell(d, p) = d.mem[d.map.slots[a]][i]
  BY SlotAt
<1>2. Cell(e, p) = e.mem[d.map.slots[a]][i]
  BY <1>1 DEF Cell, MapSlots
<1> HIDE DEF a, i
<1>3. s.mem[d.map.slots[a]][i] =
        IF a * SegmentSize + i \in DOMAIN f THEN f[a * SegmentSize + i]
        ELSE d.mem[d.map.slots[a]][i]
  BY <1>1, StoreIs
<1> HIDE DEF s
<1> QED
  BY <1>1, <1>2, <1>3 DEF s

\* An operation that writes to cells of the map and moves begin and end in it: there
\* are objects from begin to end, and if nothing throws meanwhile, nowhere else.
LEMMA StoredGood ==
  ASSUME NEW d, NEW kept, NEW m0, Good(d, kept, m0),
         NEW f, \A p \in DOMAIN f : f[p] \in Slot, NEW e, IsDeque(e),
         e.map = d.map, e.allocated = d.allocated, e.mem = Store(d, f).mem,
         NEW b \in Int, NEW t \in Int, e.begin = Locate(b), e.end = Locate(t),
         d.map.front * SegmentSize =< b, b =< t, t =< d.map.back * SegmentSize,
         \A p \in b .. t - 1 :
           IF p \in DOMAIN f THEN f[p] # Raw ELSE First(d) =< p /\ p < Past(d),
         ~ShiftMayThrow =>
           \A p \in Int : IF p \in DOMAIN f THEN f[p] # Raw => b =< p /\ p < t
                          ELSE First(d) =< p /\ p < Past(d) => b =< p /\ p < t
  PROVE  Good(e, kept, m0) /\ First(e) = b /\ Past(e) = t
<1>0. Shaped(d) /\ Owned(d, kept)
  BY DEF Good
<1> DEFINE cell(a, i) == e.mem[d.map.slots[a]][i]
<1>1. /\ e.mem \in [Segments -> Segment]
      /\ \A a \in MapSlots(d), i \in Indices :
           cell(a, i) =
             IF a * SegmentSize + i \in DOMAIN f THEN f[a * SegmentSize + i]
             ELSE d.mem[d.map.slots[a]][i]
      /\ \A s \in Segments :
           (\A a \in MapSlots(d) : d.map.slots[a] # s) => e.mem[s] = d.mem[s]
  BY <1>0, StoreIs
<1>2. /\ e.begin \in Iterators /\ e.end \in Iterators /\ First(e) = b /\ Past(e) = t
  BY LocatePosition DEF First, Past
<1>3. Shaped(e)
  <2>1. MapGood(e.map) /\ e.allocated \subseteq Segments
    BY <1>0 DEF Shaped, DequeType
  <2>2. Bounded(e)
    BY <1>2 DEF Bounded
  <2> QED
    BY <1>1, <1>2, <2>1, <2>2, ShapedIf
<1>4. MapSlots(e) = MapSlots(d) /\ Owned(e, kept)
  BY <1>0 DEF MapSlots, Owned
<1>5. Filled(e)
  <2> SUFFICES ASSUME NEW a \in MapSlots(d), NEW i \in Indices, Within(e, a, i)
               PROVE  cell(a, i) # Raw
    BY <1>4 DEF Filled
  <2> DEFINE p == a * SegmentSize + i
  <2>1. p \in Int
    BY <1>0, PlaceInMap
  <2>2. b =< p /\ p < t
    BY <1>2 DEF Within
  <2>3. Within(d, a, i) <=> First(d) =< p /\ p < Past(d)
    BY DEF Within
  <2>4. cell(a, i) = IF p \in DOMAIN f THEN f[p] ELSE d.mem[d.map.slots[a]][i]
    BY <1>1
  <2> HIDE DEF p, cell
  <2>5. p \in b .. t - 1
    BY <2>1, <2>2
  <2> QED
    BY <2>3, <2>4, <2>5 DEF Good, Filled
<1>6. ASSUME NEW s \in kept PROVE e.mem[s] = m0[s]
  <2>1. s \in Segments /\ d.mem[s] = m0[s]
    BY <1>0 DEF Good, Owned, Shaped, DequeType
  <2>2. \A a \in MapSlots(d) : d.map.slots[a] # s
    BY <1>0 DEF Owned
  <2> QED
    BY <1>1, <2>1, <2>2
<1>7. ASSUME ~ShiftMayThrow PROVE Tidy(e)
  <2>1. ASSUME NEW a \in MapSlots(d), NEW i \in Indices, cell(a, i) # Raw
        PROVE  Within(e, a, i)
    <3> DEFINE p == a * SegmentSize + i
    <3>1. p \in Int
      BY <1>0, PlaceInMap
    <3>2. Within(e, a, i) <=> b =< p /\ p < t
      BY <1>2 DEF Within
    <3>3. Within(d, a, i) <=> First(d) =< p /\ p < Past(d)
      BY DEF Within
    <3>4. cell(a, i) = IF p \in DOMAIN f THEN f[p] ELSE d.mem[d.map.slots[a]][i]
      BY <1>1
    <3>5. d.mem[d.map.slots[a]][i] # Raw => Within(d, a, i)
      BY <1>7 DEF Good, Tidy
    <3> HIDE DEF p, cell
    <3>6. cell(a, i) # Raw
      BY <2>1
    <3> QED
      BY <1>7, <3>1, <3>2, <3>3, <3>4, <3>5, <3>6
  <2>2. ASSUME NEW s \in Segments \ d.allocated PROVE e.mem[s] = EmptySegment
    <3>1. \A a \in MapSlots(d) : d.map.slots[a] # s
      BY <1>0 DEF Owned
    <3> QED
      BY <1>1, <1>7, <3>1 DEF Good, Tidy
  <2> QED
    BY <1>4, <2>1, <2>2 DEF Tidy
<1> QED
  BY <1>2, <1>3, <1>4, <1>5, <1>6, <1>7 DEF Good

\* The map is reserved for, and both iterators are restored.
LEMMA MovedGood ==
  ASSUME NEW d, NEW kept, NEW m0, Good(d, kept, m0), NEW r, MapMoved(d.map, r)
  PROVE  LET e == RestoreIterators([d EXCEPT !.map = r], SaveIterators(d))
         IN  /\ Good(e, kept, m0) /\ e.map = r /\ e.allocated = d.allocated
             /\ Grown(d, e, 0, 0) /\ FreeInFront(e) = FreeInFront(d)
             /\ CellsBehind(e) = CellsBehind(d)
<1> DEFINE e == RestoreIterators([d EXCEPT !.map = r], SaveIterators(d))
           shift == r.front - d.map.front
           S == SegmentSize
           by == shift * S
<1>0. Shaped(d) /\ Owned(d, kept)
  BY DEF Good
<1>1. /\ d.map.front \in Nat /\ d.map.back \in Nat /\ d.map.front =< d.map.back
      /\ d.begin \in Iterators /\ d.end \in Iterators /\ IsDeque(d)
      /\ First(d) \in Int /\ Past(d) \in Int
      /\ d.begin.at \in Int /\ d.end.at \in Int
      /\ d.begin.index \in Indices /\ d.end.index \in Indices
      /\ d.begin = It(d.begin.at, d.begin.index) /\ d.end = It(d.end.at, d.end.index)
  BY <1>0, ShapedNumbers DEF Iterators, It
<1>2. /\ r.front \in Nat /\ r.back \in Nat /\ MapGood(r) /\ shift \in Int
      /\ r.back = d.map.back + shift /\ r.front = d.map.front + shift
  BY <1>1, MapFacts DEF MapMoved
<1>3. /\ e.map = r /\ e.allocated = d.allocated /\ e.mem = d.mem /\ IsDeque(e)
      /\ e.begin = It(r.front + (d.begin.at - d.map.front), d.begin.index)
      /\ e.end = It(r.back - (d.map.back - d.end.at), d.end.index)
  <2> DEFINE x == d.begin.at - d.map.front
             y == d.map.back - d.end.at
             ba == d.begin.at
             bi == d.begin.index
             ea == d.end.at
             ei == d.end.index
             to == r.front + x
             up == r.back - y
  <2>1. \E m, al, mm : d = [map |-> m, allocated |-> al, mem |-> mm,
                            begin |-> It(ba, bi), end |-> It(ea, ei)]
    <3> DEFINE b == d.begin
               t == d.end
    <3>1. b = It(ba, bi) /\ t = It(ea, ei)
      BY <1>1
    <3>2. \E m, al, mm : d = [map |-> m, allocated |-> al, mem |-> mm,
                              begin |-> b, end |-> t]
      BY <1>1 DEF IsDeque
    <3> HIDE DEF b, t, ba, bi, ea, ei
    <3> QED
      BY <3>1, <3>2
  <2>2. e = [[d EXCEPT !.map = r] EXCEPT !.begin.at = to, !.end.at = up]
    <3>1. SaveIterators(d) = <<x, y>>
      BY DEF SaveIterators
    <3>2. [d EXCEPT !.map = r].map = r
      BY <1>1 DEF IsDeque
    <3> HIDE DEF x, y
    <3> QED
      BY <3>1, <3>2 DEF RestoreIterators
  <2> HIDE DEF e, to, up, ba, bi, ea, ei
  <2>3. /\ e.map = r /\ e.allocated = d.allocated /\ e.mem = d.mem /\ IsDeque(e)
        /\ e.begin = It(to, bi) /\ e.end = It(up, ei)
    <3>1. PICK m, al, mm : d = [map |-> m, allocated |-> al, mem |-> mm,
                                begin |-> It(ba, bi), end |-> It(ea, ei)]
      BY <2>1
    <3>2. [d EXCEPT !.map = r] = [map |-> r, allocated |-> al, mem |-> mm,
                                  begin |-> It(ba, bi), end |-> It(ea, ei)]
      BY <3>1
    <3>3. e = [map |-> r, allocated |-> al, mem |-> mm,
               begin |-> [It(ba, bi) EXCEPT !.at = to],
               end |-> [It(ea, ei) EXCEPT !.at = up]]
      BY <2>2, <3>2
    <3>4. [It(ba, bi) EXCEPT !.at = to] = It(to, bi)
      BY DEF It
    <3>5. [It(ea, ei) EXCEPT !.at = up] = It(up, ei)
      BY DEF It
    <3>6. e = [map |-> r, allocated |-> al, mem |-> mm,
               begin |-> It(to, bi), end |-> It(up, ei)]
      BY <3>3, <3>4, <3>5
    <3> QED
      BY <3>1, <3>6 DEF IsDeque
  <2> QED
    BY <2>3 DEF to, up, bi, ei
<1>4. e.begin = It(d.begin.at + shift, d.begin.index)
  <2>1. r.front + (d.begin.at - d.map.front) = d.begin.at + shift
    BY <1>1, <1>2
  <2> QED
    BY <1>3, <2>1
<1>5. e.end = It(d.end.at + shift, d.end.index)
  <2>1. r.back - (d.map.back - d.end.at) = d.end.at + shift
    BY <1>1, <1>2
  <2> QED
    BY <1>3, <2>1
<1> HIDE DEF e, shift
<1>6. \A a \in Int : (a + shift) * S = a * S + by /\ a * S \in Int /\ by \in Int
  <2> SUFFICES ASSUME NEW a \in Int
               PROVE  (a + shift) * S = a * S + by /\ a * S \in Int /\ by \in Int
    OBVIOUS
  <2> QED
    BY <1>2, Distribute
<1>7. /\ r.front * S = d.map.front * S + by /\ r.back * S = d.map.back * S + by
      /\ d.map.front * S \in Int /\ d.map.back * S \in Int /\ by \in Int
  <2>1. d.map.front \in Int /\ d.map.back \in Int
    BY <1>1
  <2> QED
    BY <1>2, <1>6, <2>1
<1>8. First(e) = First(d) + by /\ Past(e) = Past(d) + by
  <2>1. SegmentSize \in Nat /\ \A i \in Indices : i \in Int
    BY SegmentAssumption DEF Indices
  <2>2. /\ First(d) = d.begin.at * S + d.begin.index
        /\ Past(d) = d.end.at * S + d.end.index
        /\ First(e) = (d.begin.at + shift) * S + d.begin.index
        /\ Past(e) = (d.end.at + shift) * S + d.end.index
    BY <1>4, <1>5 DEF First, Past, Position, It
  <2>3. /\ (d.begin.at + shift) * S = d.begin.at * S + by /\ d.begin.at * S \in Int
        /\ (d.end.at + shift) * S = d.end.at * S + by /\ d.end.at * S \in Int
    BY <1>1, <1>6
  <2> HIDE DEF S, by
  <2> QED
    BY <1>1, <1>7, <2>1, <2>2, <2>3
<1>9. ASSUME NEW a \in MapSlots(d)
      PROVE  /\ a \in Int /\ a + shift \in MapSlots(e)
             /\ r.slots[a + shift] = d.map.slots[a]
             /\ \A i \in Indices : Within(e, a + shift, i) <=> Within(d, a, i)
  <2>1. a \in Int /\ a + shift \in MapSlots(e)
    BY <1>1, <1>2, <1>3 DEF MapSlots
  <2>2. r.slots[a + shift] = d.map.slots[a]
    BY DEF MapMoved, MapSlots, shift
  <2>3. ASSUME NEW i \in Indices PROVE Within(e, a + shift, i) <=> Within(d, a, i)
    <3>1. (a + shift) * S = a * S + by /\ a * S \in Int /\ i \in Int
      BY <1>6, <2>1 DEF Indices
    <3> DEFINE x == a * S
               y == (a + shift) * S
    <3>2. /\ Within(e, a + shift, i) <=> First(d) + by =< y + i /\ y + i < Past(d) + by
          /\ Within(d, a, i) <=> First(d) =< x + i /\ x + i < Past(d)
      BY <1>8 DEF Within
    <3> HIDE DEF x, y, by
    <3> QED
      BY <1>1, <1>7, <3>1, <3>2 DEF x, y
  <2> QED
    BY <2>1, <2>2, <2>3
<1>10. ASSUME NEW a \in MapSlots(e) PROVE \E c \in MapSlots(d) : a = c + shift
  <2>1. a - shift \in MapSlots(d) /\ a = (a - shift) + shift
    BY <1>1, <1>2, <1>3 DEF MapSlots
  <2> QED
    BY <2>1
<1>11. Shaped(e)
  <2>1. e.begin \in Iterators /\ e.end \in Iterators
    BY <1>1, <1>2, <1>4, <1>5 DEF Iterators, It
  <2>2. Bounded(e)
    <3> HIDE DEF S, by
    <3>1. /\ d.map.front * S =< First(d) /\ First(d) =< Past(d)
          /\ Past(d) =< d.map.back * S
      BY <1>0 DEF Shaped, Bounded, S
    <3>2. /\ d.map.front * S + by =< First(d) + by /\ First(d) + by =< Past(d) + by
          /\ Past(d) + by =< d.map.back * S + by
      BY <1>1, <1>7, <3>1
    <3> QED
      BY <1>3, <1>7, <1>8, <3>2 DEF Bounded, S
  <2>3. e.allocated \subseteq Segments /\ e.mem \in [Segments -> Segment]
    BY <1>0, <1>3 DEF Shaped, DequeType
  <2> QED
    BY <1>2, <1>3, <2>1, <2>2, <2>3, ShapedIf
<1>12. Owned(e, kept)
  <2>1. \A a \in MapSlots(e) : e.map.slots[a] \in e.allocated \ kept
    BY <1>0, <1>3, <1>9, <1>10 DEF Owned
  <2>2. ASSUME NEW s \in e.allocated \ kept
        PROVE  \E a \in MapSlots(e) : e.map.slots[a] = s
    <3>1. PICK a \in MapSlots(d) : d.map.slots[a] = s
      BY <1>0, <1>3 DEF Owned
    <3> QED
      BY <1>3, <1>9, <3>1
  <2>3. ASSUME NEW a \in MapSlots(e), NEW b \in MapSlots(e),
               e.map.slots[a] = e.map.slots[b]
        PROVE  a = b
    <3>1. PICK a1 \in MapSlots(d) : a = a1 + shift
      BY <1>10
    <3>2. PICK b1 \in MapSlots(d) : b = b1 + shift
      BY <1>10
    <3>3. d.map.slots[a1] = d.map.slots[b1]
      BY <1>3, <1>9, <2>3, <3>1, <3>2
    <3> QED
      BY <1>0, <3>1, <3>2, <3>3 DEF Owned
  <2> QED
    BY <1>0, <1>3, <2>1, <2>2, <2>3 DEF Owned
<1>13. Filled(e)
  BY <1>3, <1>9, <1>10 DEF Good, Filled
<1>14. ~ShiftMayThrow => Tidy(e)
  BY <1>3, <1>9, <1>10 DEF Good, Tidy
<1>15. Good(e, kept, m0)
  BY <1>3, <1>11, <1>12, <1>13, <1>14 DEF Good
<1>16. Grown(d, e, 0, 0)
  <2> HIDE DEF by
  <2>1. First(e) = First(d) + by - 0 /\ Past(e) = Past(d) + by + 0
    BY <1>1, <1>7, <1>8
  <2> QED
    BY <1>2, <1>3, <1>9, <2>1 DEF Grown, by
<1>17. FreeInFront(e) = FreeInFront(d) /\ CellsBehind(e) = CellsBehind(d)
  <2> DEFINE x == d.map.front * S
             y == d.map.back * S
             x1 == r.front * S
             y1 == r.back * S
  <2>1. /\ FreeInFront(d) = First(d) - x /\ CellsBehind(d) = y - Past(d)
        /\ FreeInFront(e) = First(e) - x1 /\ CellsBehind(e) = y1 - Past(e)
    BY <1>3 DEF FreeInFront, CellsBehind
  <2>2. x1 = x + by /\ y1 = y + by /\ x \in Int /\ y \in Int
    BY <1>7
  <2> HIDE DEF x, y, x1, y1, by
  <2> QED
    BY <1>1, <1>7, <1>8, <2>1, <2>2
<1> QED
  BY <1>3, <1>15, <1>16, <1>17 DEF e

\* A new segment at one end of the map, with the elements that are new in it
LEMMA AddedGood ==
  ASSUME NEW d, NEW kept, NEW m0, Good(d, kept, m0),
         NEW s \in Segments \ d.allocated, NEW c \in Segment, NEW r, MapGood(r),
         NEW at \in Int, at \notin MapSlots(d),
         r.front .. r.back - 1 = MapSlots(d) \cup {at}, r.slots[at] = s,
         \A a \in MapSlots(d) : r.slots[a] = d.map.slots[a],
         NEW e, IsDeque(e), e.map = r, e.allocated = d.allocated \cup {s},
         e.mem = [d.mem EXCEPT ![s] = c],
         e.begin \in Iterators, e.end \in Iterators, Bounded(e),
         \A i \in Indices : c[i] # Raw <=> Within(e, at, i),
         \A a \in MapSlots(d), i \in Indices : Within(e, a, i) <=> Within(d, a, i)
  PROVE  Good(e, kept, m0) /\ Grown(d, e, First(d) - First(e), Past(e) - Past(d))
<1>0. Shaped(d) /\ Owned(d, kept) /\ d.mem \in [Segments -> Segment]
      /\ d.allocated \subseteq Segments
  BY DEF Good, Shaped, DequeType
<1>1. MapSlots(e) = MapSlots(d) \cup {at}
  BY DEF MapSlots
<1>2. Shaped(e)
  <2>1. e.allocated \subseteq Segments /\ e.mem \in [Segments -> Segment]
    BY <1>0
  <2> QED
    BY <2>1, ShapedIf
<1>3. \A t \in Segments : t # s => e.mem[t] = d.mem[t]
  BY <1>0
<1>4. e.mem[s] = c
  BY <1>0
<1>5. ASSUME NEW a \in MapSlots(d)
      PROVE  d.map.slots[a] \in Segments /\ d.map.slots[a] # s
  BY <1>0 DEF Owned
<1>6. Owned(e, kept)
  BY <1>0, <1>1, <1>5 DEF Owned
<1>7. Filled(e)
  BY <1>1, <1>3, <1>4, <1>5 DEF Good, Filled
<1>8. \A t \in kept : e.mem[t] = m0[t]
  BY <1>0, <1>3 DEF Good, Owned
<1>9. ASSUME ~ShiftMayThrow PROVE Tidy(e)
  <2>1. ASSUME NEW a \in MapSlots(e), NEW i \in Indices,
               e.mem[e.map.slots[a]][i] # Raw
        PROVE  Within(e, a, i)
    BY <1>1, <1>3, <1>4, <1>5, <1>9, <2>1 DEF Good, Tidy
  <2>2. ASSUME NEW t \in Segments \ e.allocated PROVE e.mem[t] = EmptySegment
    BY <1>3, <1>9 DEF Good, Tidy
  <2> QED
    BY <2>1, <2>2 DEF Tidy
<1>10. Good(e, kept, m0)
  BY <1>2, <1>6, <1>7, <1>8, <1>9 DEF Good
<1>11. Grown(d, e, First(d) - First(e), Past(e) - Past(d))
  <2>1. /\ First(d) \in Int /\ Past(d) \in Int /\ First(e) \in Int /\ Past(e) \in Int
        /\ SegmentSize \in Nat
    BY <1>0, <1>2, ShapedNumbers, SegmentAssumption
  <2>2. /\ First(e) = First(d) + 0 * SegmentSize - (First(d) - First(e))
        /\ Past(e) = Past(d) + 0 * SegmentSize + (Past(e) - Past(d))
    BY <2>1
  <2>3. ASSUME NEW a \in MapSlots(d), NEW i \in Indices
        PROVE  /\ a + 0 \in MapSlots(e) /\ e.map.slots[a + 0] = d.map.slots[a]
               /\ e.mem[d.map.slots[a]][i] = d.mem[d.map.slots[a]][i]
    <3>1. a + 0 = a
      BY <1>0, PlaceInMap
    <3> QED
      BY <1>1, <1>3, <1>5, <3>1
  <2>4. 0 \in Int
    OBVIOUS
  <2> QED
    BY <2>2, <2>3, <2>4 DEF Grown
<1> QED
  BY <1>10, <1>11

\* An operation that does not write to the elements leaves them where they are.
LEMMA StoredGrown ==
  ASSUME NEW d, NEW kept, Shaped(d), Owned(d, kept),
         NEW f, \A p \in DOMAIN f : f[p] \in Slot, NEW e,
         e.map = d.map, e.mem = Store(d, f).mem, First(e) \in Int, Past(e) \in Int,
         \A p \in Int : First(d) =< p /\ p < Past(d) => p \notin DOMAIN f
  PROVE  Grown(d, e, First(d) - First(e), Past(e) - Past(d))
<1>1. First(d) \in Int /\ Past(d) \in Int /\ SegmentSize \in Nat
  BY ShapedNumbers, SegmentAssumption
<1>2. /\ First(e) = First(d) + 0 * SegmentSize - (First(d) - First(e))
      /\ Past(e) = Past(d) + 0 * SegmentSize + (Past(e) - Past(d))
  BY <1>1
<1>3. ASSUME NEW a \in MapSlots(d), NEW i \in Indices, Within(d, a, i)
      PROVE  /\ a + 0 \in MapSlots(e) /\ e.map.slots[a + 0] = d.map.slots[a]
             /\ e.mem[d.map.slots[a]][i] = d.mem[d.map.slots[a]][i]
  <2>1. a + 0 = a /\ a * SegmentSize + i \in Int
    BY PlaceInMap
  <2>2. a * SegmentSize + i \notin DOMAIN f
    BY <1>3, <2>1 DEF Within
  <2>3. e.mem[d.map.slots[a]][i] = d.mem[d.map.slots[a]][i]
    BY <2>2, StoreIs
  <2> QED
    BY <2>1, <2>3 DEF MapSlots
<1> QED
  BY <1>2, <1>3 DEF Grown

\* How many cells of the map are free, and when the code sees that some are.
LEMMA FreeCells ==
  ASSUME NEW d, Shaped(d)
  PROVE  /\ FreeInFront(d) \in Nat /\ CellsBehind(d) \in Nat
         /\ FrontFreeCapacity(d) = FreeInFront(d)
         /\ BackFreeCapacity(d) \in Nat
         /\ BackFreeCapacity(d) > 0 <=> CellsBehind(d) > 0
         /\ d.begin.at \in Int /\ d.end.at \in Int
         /\ d.begin.index \in Indices /\ d.end.index \in Indices
         /\ d.map.front =< d.begin.at /\ d.end.at =< d.map.back
         /\ (d.end.at = d.map.back => d.end.index = 0)
<1> DEFINE S == SegmentSize
           x == d.map.front * S
           y == d.map.back * S
           u == d.begin.at * S
           v == d.end.at * S
           i == d.begin.index
           j == d.end.index
<1>1. /\ d.map.front \in Nat /\ d.map.back \in Nat
      /\ d.begin \in Iterators /\ d.end \in Iterators
      /\ First(d) \in Int /\ Past(d) \in Int /\ x \in Int /\ y \in Int
      /\ x =< First(d) /\ First(d) =< Past(d) /\ Past(d) =< y
  BY ShapedNumbers DEF Shaped, Bounded
<1>2. /\ d.begin.at \in Int /\ d.end.at \in Int /\ i \in Indices /\ j \in Indices
      /\ i \in Nat /\ j \in Nat /\ i < S /\ j < S /\ S \in Nat /\ S > 0
  BY <1>1, SegmentAssumption DEF Iterators, Indices
<1>3. /\ First(d) = u + i /\ Past(d) = v + j
  BY DEF First, Past, Position
<1>4. /\ (d.begin.at - d.map.front) * S = u - x
      /\ (d.map.back - d.end.at) * S = y - v /\ u \in Int /\ v \in Int
  BY <1>1, <1>2, Distribute
<1>5. /\ d.map.front =< d.begin.at /\ d.end.at =< d.map.back
      /\ (d.end.at = d.map.back => j = 0)
  <2>1. First(d) =< y
    BY <1>1
  <2>2. x =< Past(d)
    BY <1>1
  <2> QED
    BY <1>1, <2>1, <2>2, InMap DEF Shaped, First, Past
<1>6. FrontFreeCapacity(d) = u - x + i /\ FreeInFront(d) = First(d) - x
  BY <1>4 DEF FrontFreeCapacity, FreeInFront
<1>7. CellsBehind(d) = y - Past(d)
  BY DEF CellsBehind
<1>8. j # 0 => d.map.back - d.end.at >= 1 /\ y - v > 0
  <2> SUFFICES ASSUME j # 0 PROVE d.map.back - d.end.at >= 1 /\ y - v > 0
    OBVIOUS
  <2> DEFINE ea == d.end.at
             mb == d.map.back
  <2>0. ea \in Int /\ mb \in Int /\ ea =< mb /\ ea # mb
    BY <1>1, <1>2, <1>5
  <2>1. ea < mb
    <3> HIDE DEF ea, mb
    <3> QED
      BY <2>0
  <2>2. ea * S + 0 < mb * S
    <3>1. 0 \in Indices
      BY <1>2 DEF Indices
    <3> HIDE DEF ea, mb
    <3> QED
      BY <2>0, <2>1, <3>1, PlaceOrder
  <2> HIDE DEF S
  <2> QED
    BY <1>1, <1>4, <2>0, <2>1, <2>2
<1>9. /\ (S - j) % S \in Nat /\ (j = 0 => (S - j) % S = 0)
      /\ BackFreeCapacity(d) = y - v + ((S - j) % S)
  <2>1. (S - j) % S \in Nat /\ (j = 0 => (S - j) % S = 0)
    BY <1>2
  <2> QED
    BY <1>4, <2>1 DEF BackFreeCapacity
<1> DEFINE m == (S - j) % S
<1> HIDE DEF S, x, y, u, v, i, j, m
<1>10. y - v >= 0 /\ FreeInFront(d) \in Nat /\ FrontFreeCapacity(d) = FreeInFront(d)
  BY <1>1, <1>2, <1>3, <1>4, <1>6
<1>11. /\ CellsBehind(d) \in Nat /\ BackFreeCapacity(d) = y - v + m /\ m \in Nat
       /\ (j = 0 => m = 0)
  BY <1>1, <1>7, <1>9 DEF m
<1>12. BackFreeCapacity(d) \in Nat
  BY <1>1, <1>4, <1>10, <1>11
<1>13. BackFreeCapacity(d) > 0 <=> CellsBehind(d) > 0
  <2>1. CASE j = 0
    BY <1>1, <1>2, <1>3, <1>4, <1>7, <1>11, <2>1
  <2>2. CASE j # 0
    <3>1. y - v > 0 /\ d.end.at < d.map.back
      BY <1>1, <1>2, <1>8, <2>2
    <3>2. BackFreeCapacity(d) > 0
      BY <1>1, <1>4, <1>11, <3>1
    <3>3. Past(d) < y
      <4>1. d.end.index \in Indices /\ d.map.back \in Int
        BY <1>1, <1>2 DEF j
      <4>2. d.end.at * SegmentSize + d.end.index < d.map.back * SegmentSize
        BY <1>2, <3>1, <4>1, PlaceOrder
      <4> QED
        BY <4>2 DEF y, S, Past, Position
    <3> QED
      BY <1>1, <1>7, <3>2, <3>3
  <2> QED
    BY <2>1, <2>2
<1> QED
  BY <1>2, <1>5, <1>10, <1>11, <1>12, <1>13 DEF i, j

\* What allocate_segment returns was not in use.
LEMMA NewSegmentIs ==
  ASSUME NEW d, d.allocated \subseteq Segments, HasSegment(d)
  PROVE  NewSegment(d) \in Segments \ d.allocated
<1> DEFINE T == Segments \ d.allocated
<1>1. T \in SUBSET Nat /\ T # {}
  <2>1. T \in SUBSET Nat
    BY BatchAssumption DEF Segments
  <2>2. ASSUME T = {} PROVE FALSE
    <3>1. Segments \subseteq d.allocated
      BY <2>2
    <3>2. Segments = d.allocated
      BY <3>1
    <3> QED
      BY <3>2 DEF HasSegment
  <2> QED
    BY <2>1, <2>2
<1> HIDE DEF T
<1>2. PICK n \in T : \A m \in T : ~(m < n)
  BY <1>1, Least
<1>3. \E s \in T : \A t \in T : s =< t
  BY <1>1, <1>2
<1> QED
  BY <1>3 DEF NewSegment, T

\* What is pushed to the map is enough for a segment more.
LEMMA NewMapCapacityIs ==
  ASSUME NEW d, Shaped(d)
  PROVE  NewMapCapacity(d) \in Nat /\ NewMapCapacity(d) > d.map.back - d.map.front
<1>1. /\ d.map.front \in Nat /\ d.map.back \in Nat /\ d.map.front =< d.map.back
      /\ Map!SizeOf(d.map) = d.map.back - d.map.front
  BY MapFacts DEF Shaped
<1> QED
  <2> DEFINE n == d.map.back - d.map.front
  <2>1. n \in Nat
    BY <1>1
  <2>2. NewMapCapacity(d) = IF n = 0 THEN 4 ELSE n + (n \div 2) + 1
    BY <1>1 DEF NewMapCapacity
  <2> HIDE DEF n
  <2>3. n \div 2 \in Nat
    BY <2>1
  <2>4. NewMapCapacity(d) \in Nat /\ NewMapCapacity(d) > n
    BY <2>1, <2>2, <2>3
  <2> QED
    BY <2>4 DEF n

LEMMA ReserveMapFrontGood ==
  ASSUME NEW d, NEW kept, NEW m0, Good(d, kept, m0), NEW n \in Nat,
         Map!ReserveFrontOk(d.map, n)
  PROVE  LET e == ReserveMapFront(d, n)
         IN  /\ Good(e, kept, m0) /\ e.map.back >= n /\ e.allocated = d.allocated
             /\ e.map.back - e.map.front = d.map.back - d.map.front
             /\ Grown(d, e, 0, 0) /\ FreeInFront(e) = FreeInFront(d)
             /\ CellsBehind(e) = CellsBehind(d)
<1> DEFINE r == Map!ReserveFront(d.map, n)
<1>1. MapMoved(d.map, r) /\ r.back >= n
  BY MapReserveFront DEF Good, Shaped
<1>2. ReserveMapFront(d, n)
        = RestoreIterators([d EXCEPT !.map = r], SaveIterators(d))
  <2>1. IsDeque(d)
    BY ShapedNumbers DEF Good
  <2> QED
    BY <2>1 DEF ReserveMapFront, IsDeque
<1> HIDE DEF r
<1> QED
  BY <1>1, <1>2, MovedGood DEF MapMoved

LEMMA ReserveMapBackGood ==
  ASSUME NEW d, NEW kept, NEW m0, Good(d, kept, m0), NEW n \in Nat,
         Map!ReserveBackOk(d.map, n)
  PROVE  LET e == ReserveMapBack(d, n)
         IN  /\ Good(e, kept, m0) /\ e.map.cap - e.map.front >= n
             /\ e.map.front = d.map.front
             /\ e.map.back = d.map.back /\ e.allocated = d.allocated
             /\ Grown(d, e, 0, 0) /\ FreeInFront(e) = FreeInFront(d)
             /\ CellsBehind(e) = CellsBehind(d)
<1> DEFINE r == Map!ReserveBack(d.map, n)
<1>1. MapMoved(d.map, r) /\ r.cap - d.map.front >= n /\ r.front = d.map.front
  BY MapReserveBack DEF Good, Shaped
<1>2. ReserveMapBack(d, n)
        = RestoreIterators([d EXCEPT !.map = r], SaveIterators(d))
  <2>1. IsDeque(d)
    BY ShapedNumbers DEF Good
  <2> QED
    BY <2>1 DEF ReserveMapBack, IsDeque
<1> HIDE DEF r
<1>3. r.back = d.map.back
  <2>1. /\ r.back \in Nat /\ d.map.back \in Nat /\ d.map.front \in Nat
        /\ r.front = d.map.front /\ r.back - r.front = d.map.back - d.map.front
    BY <1>1, MapFacts DEF MapMoved, Good, Shaped
  <2> QED
    BY <2>1
<1> QED
  BY <1>1, <1>2, <1>3, MovedGood

-----------------------------------------------------------------------------
\* One element more at one end

\* What is true of Grown: nothing else happens, one more step of the same.
LEMMA GrownNone ==
  ASSUME NEW d, Shaped(d)
  PROVE  Grown(d, d, 0, 0)
<1>1. First(d) \in Int /\ Past(d) \in Int /\ SegmentSize \in Nat
  BY ShapedNumbers, SegmentAssumption
<1>2. /\ First(d) = First(d) + 0 * SegmentSize - 0
      /\ Past(d) = Past(d) + 0 * SegmentSize + 0
  BY <1>1
<1>3. \A a \in MapSlots(d) : a + 0 = a
  BY ShapedNumbers DEF MapSlots
<1> QED
  BY <1>2, <1>3 DEF Grown

LEMMA GrownTwice ==
  ASSUME NEW d, NEW e, NEW g, Shaped(d), Shaped(e), Shaped(g),
         NEW f1 \in Nat, NEW b1 \in Nat, NEW f2 \in Nat, NEW b2 \in Nat,
         Grown(d, e, f1, b1), Grown(e, g, f2, b2)
  PROVE  Grown(d, g, f1 + f2, b1 + b2)
<1> DEFINE S == SegmentSize
<1>1. PICK s \in Int :
        /\ First(e) = First(d) + s * S - f1 /\ Past(e) = Past(d) + s * S + b1
        /\ \A a \in MapSlots(d), i \in Indices :
             Within(d, a, i) =>
               /\ a + s \in MapSlots(e)
               /\ e.map.slots[a + s] = d.map.slots[a]
               /\ e.mem[d.map.slots[a]][i] = d.mem[d.map.slots[a]][i]
  BY DEF Grown
<1>2. PICK t \in Int :
        /\ First(g) = First(e) + t * S - f2 /\ Past(g) = Past(e) + t * S + b2
        /\ \A a \in MapSlots(e), i \in Indices :
             Within(e, a, i) =>
               /\ a + t \in MapSlots(g)
               /\ g.map.slots[a + t] = e.map.slots[a]
               /\ g.mem[e.map.slots[a]][i] = e.mem[e.map.slots[a]][i]
  BY DEF Grown
<1>3. (s + t) * S = s * S + t * S /\ s * S \in Int /\ t * S \in Int /\ s + t \in Int
  <2>1. s \in Int /\ t \in Int
    BY <1>1, <1>2
  <2>2. (s + t) * S = s * S + t * S /\ s * S \in Int /\ t * S \in Int
    BY <2>1, Distribute, Zenon
  <2>3. s + t \in Int
    BY <2>1
  <2> QED
    BY <2>2, <2>3, Zenon
<1>4. /\ First(d) \in Int /\ Past(d) \in Int /\ First(e) \in Int /\ Past(e) \in Int
      /\ First(d) =< Past(d)
  BY ShapedNumbers DEF Shaped, Bounded
<1>5. /\ First(g) = First(d) + (s + t) * S - (f1 + f2)
      /\ Past(g) = Past(d) + (s + t) * S + (b1 + b2)
  <2> DEFINE x == s * S
             y == t * S
             z == (s + t) * S
  <2>1. /\ First(e) = First(d) + x - f1 /\ Past(e) = Past(d) + x + b1
        /\ First(g) = First(e) + y - f2 /\ Past(g) = Past(e) + y + b2
        /\ z = x + y /\ x \in Int /\ y \in Int
    BY <1>1, <1>2, <1>3
  <2> HIDE DEF x, y, z
  <2>2. /\ First(g) = First(d) + z - (f1 + f2) /\ Past(g) = Past(d) + z + (b1 + b2)
    BY <1>4, <2>1
  <2> QED
    BY <2>2 DEF z
<1>6. ASSUME NEW a \in MapSlots(d), NEW i \in Indices, Within(d, a, i)
      PROVE  /\ a + (s + t) \in MapSlots(g)
             /\ g.map.slots[a + (s + t)] = d.map.slots[a]
             /\ g.mem[d.map.slots[a]][i] = d.mem[d.map.slots[a]][i]
  <2>1. /\ a + s \in MapSlots(e) /\ e.map.slots[a + s] = d.map.slots[a]
        /\ e.mem[d.map.slots[a]][i] = d.mem[d.map.slots[a]][i]
    BY <1>1, <1>6
  <2>2. a \in Int /\ (a + s) + t = a + (s + t)
    BY PlaceInMap
  <2>3. Within(e, a + s, i)
    <3>1. (a + s) * S = a * S + s * S /\ a * S \in Int
      BY <2>2, Distribute
    <3> DEFINE x == a * S
               y == s * S
               z == (a + s) * S
    <3>2. /\ z = x + y /\ x \in Int /\ y \in Int /\ i \in Int
          /\ First(e) = First(d) + y - f1 /\ Past(e) = Past(d) + y + b1
          /\ First(d) =< x + i /\ x + i < Past(d)
      BY <1>1, <1>3, <1>6, <3>1 DEF Within, Indices
    <3> HIDE DEF x, y, z
    <3>3. First(e) =< z + i /\ z + i < Past(e)
      BY <1>4, <3>2
    <3> QED
      BY <3>3 DEF z, Within
  <2>4. /\ (a + s) + t \in MapSlots(g)
        /\ g.map.slots[(a + s) + t] = e.map.slots[a + s]
        /\ g.mem[e.map.slots[a + s]][i] = e.mem[e.map.slots[a + s]][i]
    BY <1>2, <2>1, <2>3
  <2> QED
    BY <2>1, <2>2, <2>4
<1> QED
  BY <1>3, <1>5, <1>6 DEF Grown

\* A new element before the others or behind them: in a free cell of the map, or in a
\* new segment.
PushedFront(d, e, kept, m0) ==
  /\ Good(e, kept, m0) /\ Grown(d, e, 1, 0) /\ CellsBehind(e) = CellsBehind(d)
  /\ FreeInFront(e) = (IF FreeInFront(d) > 0 THEN FreeInFront(d) ELSE SegmentSize) - 1

PushedBack(d, e, kept, m0) ==
  /\ Good(e, kept, m0) /\ Grown(d, e, 0, 1) /\ FreeInFront(e) = FreeInFront(d)
  /\ CellsBehind(e) = (IF CellsBehind(d) > 0 THEN CellsBehind(d) ELSE SegmentSize) - 1

LEMMA OneInFront ==
  ASSUME NEW d, NEW kept, NEW m0, Good(d, kept, m0), NEW x \in Object, Divides,
         FreeInFront(d) > 0
  PROVE  LET at == Advance(d.begin, -1)
             e  == [Construct(d, at, x) EXCEPT !.begin = at]
         IN  PushedFront(d, e, kept, m0) /\ Cell(e, First(e)) = x
<1> DEFINE at == Advance(d.begin, -1)
           f == [p \in {Position(at)} |-> x]
           e == [Construct(d, at, x) EXCEPT !.begin = at]
           b == First(d) - 1
           t == Past(d)
           lo == d.map.front * SegmentSize
           hi == d.map.back * SegmentSize
<1>0. Shaped(d) /\ Owned(d, kept)
  BY DEF Good
<1>1. /\ d.begin \in Iterators /\ First(d) \in Int /\ t \in Int /\ lo \in Int /\ hi \in Int
      /\ lo =< First(d) /\ First(d) =< t /\ t =< hi /\ Locate(t) = d.end
  BY <1>0, ShapedNumbers DEF Shaped, Bounded
<1>2. at = Locate(b) /\ Position(at) = b
  <2>1. d.begin.index - 1 < Word
    BY <1>1, SegmentAssumption DEF Iterators, Indices
  <2>2. at = Locate(First(d) + (-1))
    <3>1. -1 \in Int /\ d.begin.index + (-1) < Word
      BY <1>1, <2>1 DEF Iterators, Indices
    <3> QED
      BY <1>1, <3>1, AdvanceIs DEF First
  <2> QED
    BY <1>1, <2>2, LocatePosition
<1>3. f = [p \in {b} |-> x]
  BY <1>2
<1> HIDE DEF at
<1>4. lo =< b /\ b \in Int /\ b =< t
  BY <1>1 DEF FreeInFront
<1>5. DOMAIN f = {b} /\ f[b] = x /\ x \in Slot /\ x # Raw
  BY <1>3, BatchAssumption DEF Object, Slot
<1>6. /\ e.mem = Store(d, f).mem /\ e.map = d.map /\ e.allocated = d.allocated
      /\ e.begin = at /\ e.end = d.end /\ IsDeque(e)
  <2>1. /\ IsDeque(Store(d, f)) /\ Store(d, f).map = d.map
        /\ Store(d, f).allocated = d.allocated /\ Store(d, f).end = d.end
    BY <1>0, <1>5, StoreIs
  <2> DEFINE s == Store(d, f)
  <2>2. e = [s EXCEPT !.begin = at]
    BY DEF Construct
  <2> HIDE DEF s, e
  <2> QED
    BY <2>1, <2>2 DEF IsDeque, s
<1> HIDE DEF f, e
<1>7. Good(e, kept, m0) /\ First(e) = b /\ Past(e) = t
  <2>1. \A p \in b .. t - 1 :
          IF p \in DOMAIN f THEN f[p] # Raw ELSE First(d) =< p /\ p < Past(d)
    BY <1>1, <1>4, <1>5
  <2>2. \A p \in Int : IF p \in DOMAIN f THEN f[p] # Raw => b =< p /\ p < t
                       ELSE First(d) =< p /\ p < Past(d) => b =< p /\ p < t
    BY <1>1, <1>4, <1>5
  <2>3. \A p \in DOMAIN f : f[p] \in Slot
    BY <1>5
  <2> HIDE DEF b, t
  <2> QED
    BY <1>1, <1>2, <1>4, <1>6, <2>1, <2>2, <2>3, StoredGood
<1>8. Grown(d, e, 1, 0)
  <2>1. /\ \A p \in DOMAIN f : f[p] \in Slot
        /\ \A p \in Int : First(d) =< p /\ p < Past(d) => p \notin DOMAIN f
    BY <1>1, <1>5
  <2>2. Grown(d, e, First(d) - First(e), Past(e) - Past(d))
    BY <1>0, <1>1, <1>4, <1>6, <1>7, <2>1, StoredGrown
  <2>3. First(d) - First(e) = 1 /\ Past(e) - Past(d) = 0
    BY <1>1, <1>7
  <2> QED
    BY <2>2, <2>3
<1>9. /\ FreeInFront(e) = FreeInFront(d) - 1 /\ CellsBehind(e) = CellsBehind(d)
  <2>1. FreeInFront(e) = b - lo /\ FreeInFront(d) = First(d) - lo
    BY <1>6, <1>7 DEF FreeInFront
  <2>2. CellsBehind(e) = CellsBehind(d)
    BY <1>6, <1>7 DEF CellsBehind
  <2> QED
    BY <1>1, <2>1, <2>2
<1>10. Cell(e, First(e)) = x
  <2>1. b < hi /\ \A p \in DOMAIN f : f[p] \in Slot
    BY <1>1, <1>4, <1>5
  <2>2. Cell(e, b) = f[b]
    BY <1>0, <1>4, <1>5, <1>6, <2>1, CellsStored
  <2> QED
    BY <1>5, <1>7, <2>2
<1> QED
  BY <1>7, <1>8, <1>9, <1>10 DEF PushedFront, e, at

LEMMA OneBehind ==
  ASSUME NEW d, NEW kept, NEW m0, Good(d, kept, m0), NEW x \in Object, CellsBehind(d) > 0
  PROVE  LET e == [Construct(d, d.end, x) EXCEPT !.end = Increment(@)]
         IN  PushedBack(d, e, kept, m0) /\ Cell(e, Past(e) - 1) = x
<1> DEFINE at == Increment(d.end)
           f == [p \in {Position(d.end)} |-> x]
           e == [Construct(d, d.end, x) EXCEPT !.end = Increment(@)]
           b == First(d)
           t == Past(d) + 1
           lo == d.map.front * SegmentSize
           hi == d.map.back * SegmentSize
<1>0. Shaped(d) /\ Owned(d, kept)
  BY DEF Good
<1>1. /\ d.end \in Iterators /\ Past(d) \in Int /\ b \in Int /\ lo \in Int /\ hi \in Int
      /\ lo =< b /\ b =< Past(d) /\ Past(d) =< hi /\ Locate(b) = d.begin
  BY <1>0, ShapedNumbers DEF Shaped, Bounded
<1>2. at = Locate(t) /\ t \in Int
  BY <1>1, IncrementIs DEF Past
<1>3. f = [p \in {Past(d)} |-> x]
  BY DEF Past
<1> HIDE DEF at
<1>4. t =< hi /\ b =< t
  BY <1>1 DEF CellsBehind
<1>5. DOMAIN f = {Past(d)} /\ f[Past(d)] = x /\ x \in Slot /\ x # Raw
  BY <1>3, BatchAssumption DEF Object, Slot
<1>6. /\ e.mem = Store(d, f).mem /\ e.map = d.map /\ e.allocated = d.allocated
      /\ e.begin = d.begin /\ e.end = at /\ IsDeque(e)
  <2>1. /\ IsDeque(Store(d, f)) /\ Store(d, f).map = d.map
        /\ Store(d, f).allocated = d.allocated /\ Store(d, f).begin = d.begin
        /\ Store(d, f).end = d.end
    BY <1>0, <1>5, StoreIs
  <2> DEFINE s == Store(d, f)
             i == s.end
  <2>2. e = [s EXCEPT !.end = Increment(i)]
    BY DEF Construct
  <2>3. Increment(i) = at
    BY <2>1 DEF at
  <2> HIDE DEF s, e, i
  <2> QED
    BY <2>1, <2>2, <2>3 DEF IsDeque, s
<1> HIDE DEF f, e
<1>7. Good(e, kept, m0) /\ First(e) = b /\ Past(e) = t
  <2>1. \A p \in b .. t - 1 :
          IF p \in DOMAIN f THEN f[p] # Raw ELSE First(d) =< p /\ p < Past(d)
    BY <1>1, <1>4, <1>5
  <2>2. \A p \in Int : IF p \in DOMAIN f THEN f[p] # Raw => b =< p /\ p < t
                       ELSE First(d) =< p /\ p < Past(d) => b =< p /\ p < t
    BY <1>1, <1>4, <1>5
  <2>3. \A p \in DOMAIN f : f[p] \in Slot
    BY <1>5
  <2> HIDE DEF b, t
  <2> QED
    BY <1>1, <1>2, <1>4, <1>6, <2>1, <2>2, <2>3, StoredGood
<1>8. Grown(d, e, 0, 1)
  <2>1. /\ \A p \in DOMAIN f : f[p] \in Slot
        /\ \A p \in Int : First(d) =< p /\ p < Past(d) => p \notin DOMAIN f
    BY <1>1, <1>5
  <2>2. Grown(d, e, First(d) - First(e), Past(e) - Past(d))
    BY <1>0, <1>1, <1>2, <1>6, <1>7, <2>1, StoredGrown
  <2>3. First(d) - First(e) = 0 /\ Past(e) - Past(d) = 1
    BY <1>1, <1>7
  <2> QED
    BY <2>2, <2>3
<1>9. /\ CellsBehind(e) = CellsBehind(d) - 1 /\ FreeInFront(e) = FreeInFront(d)
  <2>1. CellsBehind(e) = hi - t /\ CellsBehind(d) = hi - Past(d)
    BY <1>6, <1>7 DEF CellsBehind
  <2>2. FreeInFront(e) = FreeInFront(d)
    BY <1>6, <1>7 DEF FreeInFront
  <2> QED
    BY <1>1, <2>1, <2>2
<1>10. Cell(e, Past(e) - 1) = x
  <2>1. Past(d) < hi /\ lo =< Past(d) /\ Past(e) - 1 = Past(d)
    BY <1>1, <1>4, <1>7
  <2>2. \A p \in DOMAIN f : f[p] \in Slot
    BY <1>5
  <2> DEFINE q == Past(d)
  <2>3. q \in Int /\ q \in DOMAIN f /\ lo =< q /\ q < hi
    BY <1>1, <1>5, <2>1
  <2> HIDE DEF q
  <2>4. Cell(e, q) = f[q]
    BY <1>0, <1>6, <2>2, <2>3, CellsStored
  <2> QED
    BY <1>5, <2>1, <2>4 DEF q
<1> QED
  BY <1>7, <1>8, <1>9, <1>10 DEF PushedBack, e

LEMMA AddSegmentIs ==
  ASSUME NEW d, IsDeque(d), NEW s, NEW c, NEW m
  PROVE  AddSegment(d, s, c, m) =
           [map |-> m, allocated |-> d.allocated \cup {s},
            mem |-> [d.mem EXCEPT ![s] = c], begin |-> d.begin, end |-> d.end]
<1> DEFINE al == d.allocated
           mm == d.mem
           b == d.begin
           t == d.end
           dm == d.map
<1>1. d = [map |-> dm, allocated |-> al, mem |-> mm, begin |-> b, end |-> t]
  BY DEF IsDeque
<1>2. AddSegment(d, s, c, m) = [d EXCEPT !.allocated = al \cup {s},
                                         !.mem = [mm EXCEPT ![s] = c], !.map = m]
  <2> HIDE DEF al, mm, b, t, dm
  <2>1. d.allocated = al /\ d.mem = mm
    BY <1>1
  <2> QED
    BY <2>1 DEF AddSegment
<1> HIDE DEF al, mm, b, t, dm
<1>3. AddSegment(d, s, c, m) =
        [map |-> m, allocated |-> al \cup {s}, mem |-> [mm EXCEPT ![s] = c],
         begin |-> b, end |-> t]
  BY <1>1, <1>2
<1> QED
  BY <1>3 DEF al, mm, b, t

LEMMA FrontSlowPath ==
  ASSUME NEW d, NEW kept, NEW m0, Good(d, kept, m0), NEW x \in Object,
         FreeInFront(d) = 0, RoomInMapFront(d), HasSegment(d)
  PROVE  LET e == EmplaceFrontSlowPath(d, x)
         IN  PushedFront(d, e, kept, m0) /\ Cell(e, First(e)) = x
<1> DEFINE S == SegmentSize
           n == NewMapCapacity(d)
           room == ReserveMapFront(d, n)
           new == NewSegment(d)
           c == [EmptySegment EXCEPT ![S - 1] = x]
           r == Map!EmplaceFront(room.map, new)
           at == room.map.front - 1
           e == EmplaceFrontSlowPath(d, x)
           lo == room.map.front * S
           lo1 == at * S
           hi == room.map.back * S
<1>0. Shaped(d) /\ Owned(d, kept) /\ d.allocated \subseteq Segments
  BY DEF Good, Shaped, DequeType
<1>1. n \in Nat /\ n > d.map.back - d.map.front
  BY <1>0, NewMapCapacityIs
<1>2. /\ Good(room, kept, m0) /\ room.map.back >= n /\ room.allocated = d.allocated
      /\ room.map.back - room.map.front = d.map.back - d.map.front
      /\ Grown(d, room, 0, 0) /\ FreeInFront(room) = 0
      /\ CellsBehind(room) = CellsBehind(d)
  BY <1>1, ReserveMapFrontGood DEF RoomInMapFront
<1>3. Shaped(room) /\ Owned(room, kept)
  BY <1>2 DEF Good
<1>4. new \in Segments \ room.allocated
  BY <1>0, <1>2, NewSegmentIs
<1>5. /\ room.map.front \in Nat /\ room.map.back \in Nat
      /\ room.map.front =< room.map.back
      /\ IsDeque(room) /\ First(room) \in Int /\ Past(room) \in Int
      /\ room.begin \in Iterators /\ room.end \in Iterators
      /\ d.map.front \in Nat /\ d.map.back \in Nat
      /\ lo \in Int /\ hi \in Int /\ lo =< First(room) /\ First(room) =< Past(room)
      /\ Past(room) =< hi
  BY <1>0, <1>3, ShapedNumbers DEF Shaped, Bounded
<1>6. room.map.front > 0
  BY <1>1, <1>2, <1>5
<1>7. /\ MapGood(r) /\ r.front = at /\ r.back = room.map.back /\ r.slots[at] = new
      /\ \A a \in room.map.front .. room.map.back - 1 : r.slots[a] = room.map.slots[a]
  <2>1. r = Map!PutFront(room.map, <<new>>)
    BY <1>3, <1>4, <1>6, MapPutFront DEF Shaped
  <2> QED
    BY <1>3, <1>4, <1>6, <2>1, MapPutFront DEF Shaped
<1>8. /\ S - 1 \in Indices /\ at \in Int /\ S \in Nat /\ S > 1
      /\ lo1 = lo - S /\ lo1 \in Int
  BY <1>5, SegmentAssumption, Distribute DEF Indices
<1>9. /\ c \in Segment /\ \A i \in Indices : c[i] # Raw <=> i = S - 1
      /\ c[S - 1] = x
  BY <1>8, BatchAssumption DEF Segment, EmptySegment, Slot, Object
<1>10. /\ e.map = r /\ e.allocated = room.allocated \cup {new} /\ IsDeque(e)
       /\ e.mem = [room.mem EXCEPT ![new] = c]
       /\ e.begin = It(at, S - 1) /\ e.end = room.end
  <2> DEFINE more == AddSegment(room, new, c, r)
  <2>0. e = [more EXCEPT !.begin = It(more.map.front, S - 1)]
    BY DEF EmplaceFrontSlowPath
  <2> HIDE DEF e, r, c, new, room
  <2>1. /\ more.map = r /\ more.allocated = room.allocated \cup {new} /\ IsDeque(more)
        /\ more.mem = [room.mem EXCEPT ![new] = c] /\ more.end = room.end
    BY <1>5, AddSegmentIs DEF IsDeque
  <2>2. e = [more EXCEPT !.begin = It(at, S - 1)]
    BY <1>7, <2>0, <2>1
  <2> HIDE DEF more, S
  <2> QED
    BY <2>1, <2>2 DEF IsDeque
<1> HIDE DEF e, r, c, new, room, n
<1>11. First(e) = lo - 1 /\ Past(e) = Past(room)
  <2>1. First(e) = lo1 + (S - 1) /\ Past(e) = Past(room)
    BY <1>10 DEF First, Past, Position, It
  <2> QED
    BY <1>5, <1>8, <2>1
<1>12. First(room) = lo
  <2>1. First(room) - lo = 0
    BY <1>2 DEF FreeInFront
  <2> HIDE DEF lo
  <2> QED
    BY <1>5, <2>1
<1>13. Bounded(e) /\ e.begin \in Iterators /\ e.end \in Iterators
  <2>1. e.begin \in Iterators /\ e.end \in Iterators
    BY <1>5, <1>8, <1>10 DEF Iterators, It
  <2>2. lo1 =< First(e) /\ First(e) =< Past(e) /\ Past(e) =< hi
    BY <1>5, <1>8, <1>11, <1>12
  <2> QED
    BY <1>7, <1>10, <2>1, <2>2 DEF Bounded
<1>14. ASSUME NEW i \in Indices PROVE c[i] # Raw <=> Within(e, at, i)
  <2>1. Within(e, at, i) <=> lo - 1 =< lo1 + i /\ lo1 + i < Past(room)
    BY <1>11 DEF Within
  <2>2. i \in Nat /\ i =< S - 1
    BY SegmentAssumption DEF Indices
  <2> HIDE DEF lo, lo1, S
  <2> QED
    BY <1>5, <1>8, <1>9, <1>12, <2>1, <2>2
<1>15. ASSUME NEW a \in MapSlots(room), NEW i \in Indices
       PROVE  Within(e, a, i) <=> Within(room, a, i)
  <2>1. lo =< a * S + i /\ a * S + i \in Int
    BY <1>3, PlaceInMap
  <2> DEFINE p == a * S + i
  <2>2. /\ Within(e, a, i) <=> lo - 1 =< p /\ p < Past(room)
        /\ Within(room, a, i) <=> First(room) =< p /\ p < Past(room)
    BY <1>11 DEF Within
  <2> HIDE DEF p, lo, S
  <2> QED
    BY <1>5, <1>12, <2>1, <2>2 DEF p
<1>16. Good(e, kept, m0) /\ Grown(room, e, First(room) - First(e), Past(e) - Past(room))
  <2>1. /\ at \notin MapSlots(room) /\ r.front .. r.back - 1 = MapSlots(room) \cup {at}
        /\ \A a \in MapSlots(room) : r.slots[a] = room.map.slots[a]
    BY <1>5, <1>7 DEF MapSlots
  <2> HIDE DEF at
  <2> QED
    BY <1>2, <1>4, <1>7, <1>8, <1>9, <1>10, <1>13, <1>14, <1>15, <2>1, AddedGood
<1>17. Grown(room, e, 1, 0)
  <2>1. First(room) - First(e) = 1 /\ Past(e) - Past(room) = 0
    BY <1>5, <1>11, <1>12
  <2> QED
    BY <1>16, <2>1
<1>18. Grown(d, e, 1, 0)
  <2>1. Shaped(e)
    BY <1>16 DEF Good
  <2>2. Grown(d, e, 0 + 1, 0 + 0)
    BY <1>0, <1>2, <1>3, <1>17, <2>1, GrownTwice
  <2> QED
    BY <2>2
<1>19. FreeInFront(e) = S - 1 /\ CellsBehind(e) = CellsBehind(d)
  <2>1. FreeInFront(e) = lo - 1 - lo1
    BY <1>7, <1>10, <1>11 DEF FreeInFront
  <2>2. CellsBehind(e) = CellsBehind(room)
    BY <1>7, <1>10, <1>11 DEF CellsBehind
  <2> HIDE DEF lo, lo1, S
  <2> QED
    BY <1>2, <1>5, <1>8, <2>1, <2>2
<1>20. Cell(e, First(e)) = x
  <2>1. Shaped(e) /\ at \in MapSlots(e) /\ e.map.slots[at] = new
    BY <1>5, <1>7, <1>10, <1>16 DEF Good, MapSlots
  <2>2. First(e) = at * S + (S - 1)
    BY <1>10 DEF First, Position, It
  <2>3. Cell(e, at * S + (S - 1)) = e.mem[e.map.slots[at]][S - 1]
    BY <1>8, <2>1, PlaceInMap
  <2>4. room.mem \in [Segments -> Segment] /\ new \in Segments
    BY <1>3, <1>4 DEF Shaped, DequeType
  <2>5. e.mem[new] = c
    BY <1>10, <2>4
  <2> QED
    BY <1>9, <2>1, <2>2, <2>3, <2>5
<1> QED
  BY <1>16, <1>18, <1>19, <1>20 DEF PushedFront, e

LEMMA BackSlowPath ==
  ASSUME NEW d, NEW kept, NEW m0, Good(d, kept, m0), NEW x \in Object,
         CellsBehind(d) = 0, RoomInMapBack(d), HasSegment(d)
  PROVE  LET e == EmplaceBackSlowPath(d, x)
         IN  PushedBack(d, e, kept, m0) /\ Cell(e, Past(e) - 1) = x
<1> DEFINE S == SegmentSize
           n == NewMapCapacity(d)
           room == ReserveMapBack(d, n)
           new == NewSegment(d)
           c == [EmptySegment EXCEPT ![0] = x]
           r == Map!EmplaceBack(room.map, new)
           at == room.map.back
           e == EmplaceBackSlowPath(d, x)
           lo == room.map.front * S
           hi == at * S
           hi1 == (at + 1) * S
<1>0. Shaped(d) /\ Owned(d, kept) /\ d.allocated \subseteq Segments
  BY DEF Good, Shaped, DequeType
<1>1. n \in Nat /\ n > d.map.back - d.map.front
  BY <1>0, NewMapCapacityIs
<1>2. /\ Good(room, kept, m0) /\ room.map.cap - room.map.front >= n
      /\ room.map.front = d.map.front /\ room.map.back = d.map.back
      /\ room.allocated = d.allocated
      /\ Grown(d, room, 0, 0) /\ FreeInFront(room) = FreeInFront(d)
      /\ CellsBehind(room) = 0
  BY <1>1, ReserveMapBackGood DEF RoomInMapBack
<1>3. Shaped(room) /\ Owned(room, kept)
  BY <1>2 DEF Good
<1>4. new \in Segments \ room.allocated
  BY <1>0, <1>2, NewSegmentIs
<1>5. /\ room.map.front \in Nat /\ at \in Nat /\ room.map.cap \in Nat
      /\ room.map.front =< at
      /\ IsDeque(room) /\ First(room) \in Int /\ Past(room) \in Int
      /\ room.begin \in Iterators /\ room.end \in Iterators
      /\ lo \in Int /\ hi \in Int /\ lo =< First(room) /\ First(room) =< Past(room)
      /\ Past(room) =< hi
  BY <1>0, <1>3, ShapedNumbers DEF Shaped, Bounded
<1>6. at < room.map.cap
  BY <1>1, <1>2, <1>5
<1>7. /\ MapGood(r) /\ r.front = room.map.front /\ r.back = at + 1 /\ r.slots[at] = new
      /\ \A a \in room.map.front .. at - 1 : r.slots[a] = room.map.slots[a]
  <2>1. r = Map!PutBack(room.map, <<new>>)
    BY <1>3, <1>4, <1>6, MapPutBack DEF Shaped
  <2> QED
    BY <1>3, <1>4, <1>6, <2>1, MapPutBack DEF Shaped
<1>8. /\ 0 \in Indices /\ 1 \in Indices /\ at \in Int /\ S \in Nat /\ S > 1
      /\ hi1 = hi + S /\ hi1 \in Int
  BY <1>5, SegmentAssumption, Distribute DEF Indices
<1>9. /\ c \in Segment /\ \A i \in Indices : c[i] # Raw <=> i = 0
      /\ c[0] = x
  BY <1>8, BatchAssumption DEF Segment, EmptySegment, Slot, Object
<1>10. /\ e.map = r /\ e.allocated = room.allocated \cup {new} /\ IsDeque(e)
       /\ e.mem = [room.mem EXCEPT ![new] = c]
       /\ e.begin = room.begin /\ e.end = It(at, 1)
  <2> DEFINE more == AddSegment(room, new, c, r)
  <2>0. e = [more EXCEPT !.end = It(more.map.back - 1, 1)]
    BY DEF EmplaceBackSlowPath
  <2> HIDE DEF e, r, c, new, room
  <2>1. /\ more.map = r /\ more.allocated = room.allocated \cup {new} /\ IsDeque(more)
        /\ more.mem = [room.mem EXCEPT ![new] = c] /\ more.begin = room.begin
    BY <1>5, AddSegmentIs DEF IsDeque
  <2>2. e = [more EXCEPT !.end = It(at, 1)]
    <3>1. r.back - 1 = at
      BY <1>5, <1>7
    <3> QED
      BY <2>0, <2>1, <3>1
  <2> HIDE DEF more, S
  <2> QED
    BY <2>1, <2>2 DEF IsDeque
<1> HIDE DEF e, r, c, new, room, n
<1>11. First(e) = First(room) /\ Past(e) = hi + 1
  BY <1>10 DEF First, Past, Position, It
<1>12. Past(room) = hi
  <2>1. hi - Past(room) = 0
    BY <1>2 DEF CellsBehind
  <2> HIDE DEF hi
  <2> QED
    BY <1>5, <2>1
<1>13. Bounded(e) /\ e.begin \in Iterators /\ e.end \in Iterators
  <2>1. e.begin \in Iterators /\ e.end \in Iterators
    BY <1>5, <1>8, <1>10 DEF Iterators, It
  <2>2. lo =< First(e) /\ First(e) =< Past(e) /\ Past(e) =< hi1
    <3> HIDE DEF lo, hi, hi1, S
    <3> QED
      BY <1>5, <1>8, <1>11, <1>12
  <2> QED
    BY <1>7, <1>10, <2>1, <2>2 DEF Bounded
<1>14. ASSUME NEW i \in Indices PROVE c[i] # Raw <=> Within(e, at, i)
  <2>1. Within(e, at, i) <=> First(room) =< hi + i /\ hi + i < hi + 1
    BY <1>11 DEF Within
  <2>2. i \in Nat /\ i =< S - 1
    BY SegmentAssumption DEF Indices
  <2> HIDE DEF hi, S
  <2> QED
    BY <1>5, <1>8, <1>9, <1>12, <2>1, <2>2
<1>15. ASSUME NEW a \in MapSlots(room), NEW i \in Indices
       PROVE  Within(e, a, i) <=> Within(room, a, i)
  <2>1. a * S + i < hi /\ a * S + i \in Int
    BY <1>3, PlaceInMap
  <2> DEFINE p == a * S + i
  <2>2. /\ Within(e, a, i) <=> First(room) =< p /\ p < hi + 1
        /\ Within(room, a, i) <=> First(room) =< p /\ p < Past(room)
    BY <1>11 DEF Within
  <2> HIDE DEF p, hi, S
  <2> QED
    BY <1>5, <1>12, <2>1, <2>2 DEF p
<1>16. Good(e, kept, m0) /\ Grown(room, e, First(room) - First(e), Past(e) - Past(room))
  <2>1. /\ at \notin MapSlots(room) /\ r.front .. r.back - 1 = MapSlots(room) \cup {at}
        /\ \A a \in MapSlots(room) : r.slots[a] = room.map.slots[a]
    BY <1>5, <1>7 DEF MapSlots
  <2> HIDE DEF at
  <2> QED
    BY <1>2, <1>4, <1>7, <1>8, <1>9, <1>10, <1>13, <1>14, <1>15, <2>1, AddedGood
<1>17. Grown(room, e, 0, 1)
  <2>1. First(room) - First(e) = 0 /\ Past(e) - Past(room) = 1
    BY <1>5, <1>11, <1>12
  <2> QED
    BY <1>16, <2>1
<1>18. Grown(d, e, 0, 1)
  <2>1. Shaped(e)
    BY <1>16 DEF Good
  <2>2. Grown(d, e, 0 + 0, 0 + 1)
    BY <1>0, <1>2, <1>3, <1>17, <2>1, GrownTwice
  <2> QED
    BY <2>2
<1>19. FreeInFront(e) = FreeInFront(d) /\ CellsBehind(e) = S - 1
  <2>1. CellsBehind(e) = hi1 - (hi + 1)
    BY <1>7, <1>10, <1>11 DEF CellsBehind
  <2>2. FreeInFront(e) = FreeInFront(room)
    BY <1>7, <1>10, <1>11 DEF FreeInFront
  <2> HIDE DEF hi, hi1, S
  <2> QED
    BY <1>2, <1>5, <1>8, <2>1, <2>2
<1>20. Cell(e, Past(e) - 1) = x
  <2>1. Shaped(e) /\ at \in MapSlots(e) /\ e.map.slots[at] = new
    BY <1>5, <1>7, <1>10, <1>16 DEF Good, MapSlots
  <2>2. Past(e) - 1 = at * S + 0
    BY <1>5, <1>11
  <2>3. Cell(e, at * S + 0) = e.mem[e.map.slots[at]][0]
    BY <1>8, <2>1, PlaceInMap
  <2>4. room.mem \in [Segments -> Segment] /\ new \in Segments
    BY <1>3, <1>4 DEF Shaped, DequeType
  <2>5. e.mem[new] = c
    BY <1>10, <2>4
  <2> QED
    BY <1>9, <2>1, <2>2, <2>3, <2>5
<1> QED
  BY <1>16, <1>18, <1>19, <1>20 DEF PushedBack, e

\* emplace_front and emplace_back.
LEMMA EmplaceFrontGood ==
  ASSUME NEW d, NEW kept, NEW m0, Good(d, kept, m0), NEW x \in Object, Divides,
         EmplaceFrontOk(d)
  PROVE  LET e == EmplaceFront(d, x)
         IN  PushedFront(d, e, kept, m0) /\ Cell(e, First(e)) = x
<1>1. FrontFreeCapacity(d) = FreeInFront(d) /\ FreeInFront(d) \in Nat
  BY FreeCells DEF Good
<1>2. CASE FreeInFront(d) > 0
  <2>1. EmplaceFront(d, x) = LET at == Advance(d.begin, -1)
                             IN  [Construct(d, at, x) EXCEPT !.begin = at]
    BY <1>1, <1>2 DEF EmplaceFront
  <2> QED
    BY <1>2, <2>1, OneInFront
<1>3. CASE FreeInFront(d) = 0
  <2>1. EmplaceFront(d, x) = EmplaceFrontSlowPath(d, x)
    BY <1>1, <1>3 DEF EmplaceFront
  <2>2. RoomInMapFront(d) /\ HasSegment(d)
    BY <1>1, <1>3 DEF EmplaceFrontOk
  <2> QED
    BY <1>3, <2>1, <2>2, FrontSlowPath
<1> QED
  BY <1>1, <1>2, <1>3

LEMMA EmplaceBackGood ==
  ASSUME NEW d, NEW kept, NEW m0, Good(d, kept, m0), NEW x \in Object,
         EmplaceBackOk(d)
  PROVE  LET e == EmplaceBack(d, x)
         IN  PushedBack(d, e, kept, m0) /\ Cell(e, Past(e) - 1) = x
<1>1. /\ BackFreeCapacity(d) > 0 <=> CellsBehind(d) > 0
      /\ CellsBehind(d) \in Nat
  BY FreeCells DEF Good
<1>2. CASE CellsBehind(d) > 0
  <2>1. EmplaceBack(d, x) = [Construct(d, d.end, x) EXCEPT !.end = Increment(@)]
    BY <1>1, <1>2 DEF EmplaceBack
  <2> QED
    BY <1>2, <2>1, OneBehind
<1>3. CASE CellsBehind(d) = 0
  <2>1. EmplaceBack(d, x) = EmplaceBackSlowPath(d, x)
    BY <1>1, <1>3 DEF EmplaceBack
  <2>2. RoomInMapBack(d) /\ HasSegment(d)
    BY <1>1, <1>3 DEF EmplaceBackOk
  <2> QED
    BY <1>3, <2>1, <2>2, BackSlowPath
<1> QED
  BY <1>1, <1>2, <1>3

\* What a throw in one of them leaves behind has the elements of before.
LEMMA EmplaceFrontThrewGood ==
  ASSUME NEW d, NEW kept, NEW m0, Good(d, kept, m0), NEW e \in EmplaceFrontThrew(d)
  PROVE  Good(e, kept, m0) /\ Grown(d, e, 0, 0) /\ FreeInFront(e) = FreeInFront(d)
<1>0. Shaped(d)
  BY DEF Good
<1>1. CASE e = d
  BY <1>0, <1>1, GrownNone
<1>2. CASE e # d
  <2>1. e = ReserveMapFront(d, NewMapCapacity(d)) /\ RoomInMapFront(d)
    BY <1>2 DEF EmplaceFrontThrew
  <2>2. NewMapCapacity(d) \in Nat
    BY <1>0, NewMapCapacityIs
  <2> QED
    BY <2>1, <2>2, ReserveMapFrontGood DEF RoomInMapFront
<1> QED
  BY <1>1, <1>2

LEMMA EmplaceBackThrewGood ==
  ASSUME NEW d, NEW kept, NEW m0, Good(d, kept, m0), NEW e \in EmplaceBackThrew(d)
  PROVE  Good(e, kept, m0) /\ Grown(d, e, 0, 0) /\ FreeInFront(e) = FreeInFront(d)
<1>0. Shaped(d)
  BY DEF Good
<1>1. CASE e = d
  BY <1>0, <1>1, GrownNone
<1>2. CASE e # d
  <2>1. e = ReserveMapBack(d, NewMapCapacity(d)) /\ RoomInMapBack(d)
    BY <1>2 DEF EmplaceBackThrew
  <2>2. NewMapCapacity(d) \in Nat
    BY <1>0, NewMapCapacityIs
  <2> QED
    BY <2>1, <2>2, ReserveMapBackGood DEF RoomInMapBack
<1> QED
  BY <1>1, <1>2

-----------------------------------------------------------------------------
\* Any number of elements more, one after the other

SegmentInFront(e) ==
  AddSegment(e, NewSegment(e), EmptySegment, Map!PutFront(e.map, <<NewSegment(e)>>))

SegmentBehind(e) ==
  AddSegment(e, NewSegment(e), EmptySegment, Map!PutBack(e.map, <<NewSegment(e)>>))

\* The cell i of the segment s
ObjectAt(e, s, i) == e.mem[s][i]

AliasedFront(d, n, s, i) == Prepended(d, n, LAMBDA e, k : e.mem[s][i])
AliasedBack(d, n, s, i)  == Appended(d, n, LAMBDA e, k : e.mem[s][i])

AliasedFrontStep(g, k, s, i) ==
  \A u \in g[k] : \E e \in g[k - 1] :
    EmplaceFrontOk(e) /\ u = EmplaceFront(e, ObjectAt(e, s, i))

AliasedBackStep(g, k, s, i) ==
  \A u \in g[k] : \E e \in g[k - 1] :
    EmplaceBackOk(e) /\ u = EmplaceBack(e, ObjectAt(e, s, i))

\* The objects after each of the pushes of a range.
LEMMA PushFrontSteps ==
  ASSUME NEW d, NEW xs \in Seq(Object), NEW gs, gs = PushFront(d, xs)
  PROVE  /\ gs[0] = {d}
         /\ \A k \in 1 .. Len(xs) : \A u \in gs[k] : \E e \in gs[k - 1] :
              EmplaceFrontOk(e) /\ u = EmplaceFront(e, xs[Len(xs) - k + 1])
<1> DEFINE F(g, m) ==
             [k \in 0 .. m |->
                IF k = 0 THEN {d}
                ELSE {EmplaceFront(e, xs[Len(xs) - k + 1]) :
                       e \in {e \in g[k - 1] : EmplaceFrontOk(e)}}]
           N == Len(xs)
<1>1. N \in Nat
  OBVIOUS
<1>2. \A m \in Nat : \E g : g = F(g, m)
  <2> DEFINE P == {m \in Nat : \E g : g = F(g, m)}
  <2>1. 0 \in P
    <3> DEFINE g == [k \in 0 .. 0 |-> {d}]
    <3>1. g = F(g, 0)
      OBVIOUS
    <3> QED
      BY <3>1
  <2>2. ASSUME NEW m \in P PROVE m + 1 \in P
    <3>1. PICK g : g = F(g, m)
      OBVIOUS
    <3> DEFINE h == [k \in 0 .. m + 1 |->
                       IF k =< m THEN g[k]
                       ELSE {EmplaceFront(e, xs[Len(xs) - (m + 1) + 1]) :
                              e \in {e \in g[m] : EmplaceFrontOk(e)}}]
    <3>2. ASSUME NEW k \in 0 .. m + 1
          PROVE  h[k] = IF k = 0 THEN {d}
                        ELSE {EmplaceFront(e, xs[Len(xs) - k + 1]) :
                               e \in {e \in h[k - 1] : EmplaceFrontOk(e)}}
      <4>1. CASE k = 0
        BY <3>1, <4>1
      <4>2. CASE k # 0 /\ k =< m
        <5>1. h[k] = g[k] /\ h[k - 1] = g[k - 1]
          BY <4>2
        <5>2. g[k] = {EmplaceFront(e, xs[Len(xs) - k + 1]) :
                       e \in {e \in g[k - 1] : EmplaceFrontOk(e)}}
          BY <3>1, <4>2, SMTT(30)
        <5> QED
          BY <4>2, <5>1, <5>2
      <4>3. CASE k = m + 1
        <5>1. h[k - 1] = g[m] /\ k # 0 /\ ~(k =< m)
          BY <4>3
        <5> QED
          BY <4>3, <5>1
      <4> QED
        BY <4>1, <4>2, <4>3
    <3>3. h = F(h, m + 1)
      BY <3>2
    <3>4. m + 1 \in Nat
      OBVIOUS
    <3> HIDE DEF F, h
    <3> QED
      BY <3>3, <3>4
  <2>3. P \in SUBSET Nat
    OBVIOUS
  <2>4. P = Nat
    <3> HIDE DEF P
    <3> QED
      BY <2>1, <2>2, <2>3, Induction
  <2> QED
    BY <2>4
<1> DEFINE G == PushFront(d, xs)
<1>3. G = CHOOSE g : g = F(g, N)
  BY DEF PushFront, Prepended
<1>4. G = F(G, N)
  <2> HIDE DEF F, N, G
  <2> QED
    BY <1>1, <1>2, <1>3
<1> HIDE DEF G
<1>5. G[0] = {d}
  BY <1>1, <1>4
<1>6. ASSUME NEW k \in 1 .. N
      PROVE  \A u \in G[k] : \E e \in G[k - 1] :
               EmplaceFrontOk(e) /\ u = EmplaceFront(e, xs[Len(xs) - k + 1])
  <2>1. k \in 0 .. N /\ k # 0
    BY <1>1
  <2>2. G[k] = {EmplaceFront(e, xs[Len(xs) - k + 1]) :
                 e \in {e \in G[k - 1] : EmplaceFrontOk(e)}}
    BY <1>4, <2>1
  <2> QED
    BY <2>2
<1> QED
  BY <1>5, <1>6 DEF G

LEMMA PushBackSteps ==
  ASSUME NEW d, NEW xs \in Seq(Object), NEW gs, gs = PushBack(d, xs)
  PROVE  /\ gs[0] = {d}
         /\ \A k \in 1 .. Len(xs) : \A u \in gs[k] : \E e \in gs[k - 1] :
              EmplaceBackOk(e) /\ u = EmplaceBack(e, xs[k])
<1> DEFINE F(g, m) ==
             [k \in 0 .. m |->
                IF k = 0 THEN {d}
                ELSE {EmplaceBack(e, xs[k]) :
                       e \in {e \in g[k - 1] : EmplaceBackOk(e)}}]
           N == Len(xs)
<1>1. N \in Nat
  OBVIOUS
<1>2. \A m \in Nat : \E g : g = F(g, m)
  <2> DEFINE P == {m \in Nat : \E g : g = F(g, m)}
  <2>1. 0 \in P
    <3> DEFINE g == [k \in 0 .. 0 |-> {d}]
    <3>1. g = F(g, 0)
      OBVIOUS
    <3> QED
      BY <3>1
  <2>2. ASSUME NEW m \in P PROVE m + 1 \in P
    <3>1. PICK g : g = F(g, m)
      OBVIOUS
    <3> DEFINE h == [k \in 0 .. m + 1 |->
                       IF k =< m THEN g[k]
                       ELSE {EmplaceBack(e, xs[m + 1]) :
                              e \in {e \in g[m] : EmplaceBackOk(e)}}]
    <3>2. ASSUME NEW k \in 0 .. m + 1
          PROVE  h[k] = IF k = 0 THEN {d}
                        ELSE {EmplaceBack(e, xs[k]) :
                               e \in {e \in h[k - 1] : EmplaceBackOk(e)}}
      <4>1. CASE k = 0
        BY <3>1, <4>1
      <4>2. CASE k # 0 /\ k =< m
        <5>1. h[k] = g[k] /\ h[k - 1] = g[k - 1]
          BY <4>2
        <5>2. g[k] = {EmplaceBack(e, xs[k]) : e \in {e \in g[k - 1] : EmplaceBackOk(e)}}
          BY <3>1, <4>2, SMTT(30)
        <5> QED
          BY <4>2, <5>1, <5>2
      <4>3. CASE k = m + 1
        <5>1. h[k - 1] = g[m] /\ k # 0 /\ ~(k =< m)
          BY <4>3
        <5> QED
          BY <4>3, <5>1
      <4> QED
        BY <4>1, <4>2, <4>3
    <3>3. h = F(h, m + 1)
      BY <3>2
    <3>4. m + 1 \in Nat
      OBVIOUS
    <3> HIDE DEF F, h
    <3> QED
      BY <3>3, <3>4
  <2>3. P \in SUBSET Nat
    OBVIOUS
  <2>4. P = Nat
    <3> HIDE DEF P
    <3> QED
      BY <2>1, <2>2, <2>3, Induction
  <2> QED
    BY <2>4
<1> DEFINE G == PushBack(d, xs)
<1>3. G = CHOOSE g : g = F(g, N)
  BY DEF PushBack, Appended
<1>4. G = F(G, N)
  <2> HIDE DEF F, N, G
  <2> QED
    BY <1>1, <1>2, <1>3
<1> HIDE DEF G
<1>5. G[0] = {d}
  BY <1>1, <1>4
<1>6. ASSUME NEW k \in 1 .. N
      PROVE  \A u \in G[k] : \E e \in G[k - 1] :
               EmplaceBackOk(e) /\ u = EmplaceBack(e, xs[k])
  <2>1. k \in 0 .. N /\ k # 0
    BY <1>1
  <2>2. G[k] = {EmplaceBack(e, xs[k]) : e \in {e \in G[k - 1] : EmplaceBackOk(e)}}
    BY <1>4, <2>1
  <2> QED
    BY <2>2
<1> QED
  BY <1>5, <1>6 DEF G

\* The objects after each segment.
LEMMA SegmentsFrontSteps ==
  ASSUME NEW d, NEW n \in Nat, NEW gs, gs = WithSegmentsFront(d, n)
  PROVE  /\ gs[0] = {d}
         /\ \A k \in 1 .. n : \A u \in gs[k] : \E e \in gs[k - 1] :
              HasSegment(e) /\ u = SegmentInFront(e)
<1> DEFINE F(g, m) ==
             [k \in 0 .. m |->
                IF k = 0 THEN {d}
                ELSE {SegmentInFront(e) : e \in {e \in g[k - 1] : HasSegment(e)}}]
           N == n
<1>1. N \in Nat
  OBVIOUS
<1>2. \A m \in Nat : \E g : g = F(g, m)
  <2> DEFINE P == {m \in Nat : \E g : g = F(g, m)}
  <2>1. 0 \in P
    <3> DEFINE g == [k \in 0 .. 0 |-> {d}]
    <3>1. g = F(g, 0)
      OBVIOUS
    <3> QED
      BY <3>1
  <2>2. ASSUME NEW m \in P PROVE m + 1 \in P
    <3>1. PICK g : g = F(g, m)
      OBVIOUS
    <3> DEFINE h == [k \in 0 .. m + 1 |->
                       IF k =< m THEN g[k]
                       ELSE {SegmentInFront(e) : e \in {e \in g[m] : HasSegment(e)}}]
    <3>2. ASSUME NEW k \in 0 .. m + 1
          PROVE  h[k] = IF k = 0 THEN {d}
                        ELSE {SegmentInFront(e) : e \in {e \in h[k - 1] : HasSegment(e)}}
      <4>1. CASE k = 0
        BY <3>1, <4>1
      <4>2. CASE k # 0 /\ k =< m
        <5>1. h[k] = g[k] /\ h[k - 1] = g[k - 1]
          BY <4>2
        <5>2. g[k] = {SegmentInFront(e) : e \in {e \in g[k - 1] : HasSegment(e)}}
          BY <3>1, <4>2, SMTT(30)
        <5> QED
          BY <4>2, <5>1, <5>2
      <4>3. CASE k = m + 1
        <5>1. h[k - 1] = g[m] /\ k # 0 /\ ~(k =< m)
          BY <4>3
        <5> QED
          BY <4>3, <5>1
      <4> QED
        BY <4>1, <4>2, <4>3
    <3>3. h = F(h, m + 1)
      BY <3>2
    <3>4. m + 1 \in Nat
      OBVIOUS
    <3> HIDE DEF F, h
    <3> QED
      BY <3>3, <3>4
  <2>3. P \in SUBSET Nat
    OBVIOUS
  <2>4. P = Nat
    <3> HIDE DEF P
    <3> QED
      BY <2>1, <2>2, <2>3, Induction
  <2> QED
    BY <2>4
<1> DEFINE G == WithSegmentsFront(d, n)
<1>3. G = CHOOSE g : g = F(g, N)
  BY DEF WithSegmentsFront, SegmentInFront
<1>4. G = F(G, N)
  <2> HIDE DEF F, N, G
  <2> QED
    BY <1>1, <1>2, <1>3
<1> HIDE DEF G
<1>5. G[0] = {d}
  BY <1>1, <1>4
<1>6. ASSUME NEW k \in 1 .. N
      PROVE  \A u \in G[k] : \E e \in G[k - 1] :
               HasSegment(e) /\ u = SegmentInFront(e)
  <2>1. k \in 0 .. N /\ k # 0
    BY <1>1
  <2>2. G[k] = {SegmentInFront(e) : e \in {e \in G[k - 1] : HasSegment(e)}}
    BY <1>4, <2>1
  <2> QED
    BY <2>2
<1> QED
  BY <1>5, <1>6 DEF G

LEMMA SegmentsBackSteps ==
  ASSUME NEW d, NEW n \in Nat, NEW gs, gs = WithSegmentsBack(d, n)
  PROVE  /\ gs[0] = {d}
         /\ \A k \in 1 .. n : \A u \in gs[k] : \E e \in gs[k - 1] :
              HasSegment(e) /\ u = SegmentBehind(e)
<1> DEFINE F(g, m) ==
             [k \in 0 .. m |->
                IF k = 0 THEN {d}
                ELSE {SegmentBehind(e) : e \in {e \in g[k - 1] : HasSegment(e)}}]
           N == n
<1>1. N \in Nat
  OBVIOUS
<1>2. \A m \in Nat : \E g : g = F(g, m)
  <2> DEFINE P == {m \in Nat : \E g : g = F(g, m)}
  <2>1. 0 \in P
    <3> DEFINE g == [k \in 0 .. 0 |-> {d}]
    <3>1. g = F(g, 0)
      OBVIOUS
    <3> QED
      BY <3>1
  <2>2. ASSUME NEW m \in P PROVE m + 1 \in P
    <3>1. PICK g : g = F(g, m)
      OBVIOUS
    <3> DEFINE h == [k \in 0 .. m + 1 |->
                       IF k =< m THEN g[k]
                       ELSE {SegmentBehind(e) : e \in {e \in g[m] : HasSegment(e)}}]
    <3>2. ASSUME NEW k \in 0 .. m + 1
          PROVE  h[k] = IF k = 0 THEN {d}
                        ELSE {SegmentBehind(e) : e \in {e \in h[k - 1] : HasSegment(e)}}
      <4>1. CASE k = 0
        BY <3>1, <4>1
      <4>2. CASE k # 0 /\ k =< m
        <5>1. h[k] = g[k] /\ h[k - 1] = g[k - 1]
          BY <4>2
        <5>2. g[k] = {SegmentBehind(e) : e \in {e \in g[k - 1] : HasSegment(e)}}
          BY <3>1, <4>2, SMTT(30)
        <5> QED
          BY <4>2, <5>1, <5>2
      <4>3. CASE k = m + 1
        <5>1. h[k - 1] = g[m] /\ k # 0 /\ ~(k =< m)
          BY <4>3
        <5> QED
          BY <4>3, <5>1
      <4> QED
        BY <4>1, <4>2, <4>3
    <3>3. h = F(h, m + 1)
      BY <3>2
    <3>4. m + 1 \in Nat
      OBVIOUS
    <3> HIDE DEF F, h
    <3> QED
      BY <3>3, <3>4
  <2>3. P \in SUBSET Nat
    OBVIOUS
  <2>4. P = Nat
    <3> HIDE DEF P
    <3> QED
      BY <2>1, <2>2, <2>3, Induction
  <2> QED
    BY <2>4
<1> DEFINE G == WithSegmentsBack(d, n)
<1>3. G = CHOOSE g : g = F(g, N)
  BY DEF WithSegmentsBack, SegmentBehind
<1>4. G = F(G, N)
  <2> HIDE DEF F, N, G
  <2> QED
    BY <1>1, <1>2, <1>3
<1> HIDE DEF G
<1>5. G[0] = {d}
  BY <1>1, <1>4
<1>6. ASSUME NEW k \in 1 .. N
      PROVE  \A u \in G[k] : \E e \in G[k - 1] :
               HasSegment(e) /\ u = SegmentBehind(e)
  <2>1. k \in 0 .. N /\ k # 0
    BY <1>1
  <2>2. G[k] = {SegmentBehind(e) : e \in {e \in G[k - 1] : HasSegment(e)}}
    BY <1>4, <2>1
  <2> QED
    BY <2>2
<1> QED
  BY <1>5, <1>6 DEF G

\* The objects after each push of the cell i of the segment s.
LEMMA AliasedFrontSteps ==
  ASSUME NEW d, NEW n \in Nat, NEW s, NEW i, NEW gs, gs = AliasedFront(d, n, s, i)
  PROVE  /\ gs[0] = {d}
         /\ \A k \in 1 .. n : AliasedFrontStep(gs, k, s, i)
<1> DEFINE F(g, m) ==
             [k \in 0 .. m |->
                IF k = 0 THEN {d}
                ELSE {EmplaceFront(e, ObjectAt(e, s, i)) :
                       e \in {e \in g[k - 1] : EmplaceFrontOk(e)}}]
           N == n
<1>1. N \in Nat
  OBVIOUS
<1>2. \A m \in Nat : \E g : g = F(g, m)
  <2> DEFINE P == {m \in Nat : \E g : g = F(g, m)}
  <2>1. 0 \in P
    <3> DEFINE g == [k \in 0 .. 0 |-> {d}]
    <3>1. g = F(g, 0)
      OBVIOUS
    <3> QED
      BY <3>1
  <2>2. ASSUME NEW m \in P PROVE m + 1 \in P
    <3>1. PICK g : g = F(g, m)
      OBVIOUS
    <3> DEFINE h == [k \in 0 .. m + 1 |->
                       IF k =< m THEN g[k]
                       ELSE {EmplaceFront(e, ObjectAt(e, s, i)) :
                              e \in {e \in g[m] : EmplaceFrontOk(e)}}]
    <3>2. ASSUME NEW k \in 0 .. m + 1
          PROVE  h[k] = IF k = 0 THEN {d}
                        ELSE {EmplaceFront(e, ObjectAt(e, s, i)) :
                               e \in {e \in h[k - 1] : EmplaceFrontOk(e)}}
      <4>1. CASE k = 0
        BY <3>1, <4>1
      <4>2. CASE k # 0 /\ k =< m
        <5>1. h[k] = g[k] /\ h[k - 1] = g[k - 1]
          BY <4>2
        <5>2. g[k] = {EmplaceFront(e, ObjectAt(e, s, i)) :
                       e \in {e \in g[k - 1] : EmplaceFrontOk(e)}}
          BY <3>1, <4>2, SMTT(30)
        <5> QED
          BY <4>2, <5>1, <5>2
      <4>3. CASE k = m + 1
        <5>1. h[k - 1] = g[m] /\ k # 0 /\ ~(k =< m)
          BY <4>3
        <5> QED
          BY <4>3, <5>1
      <4> QED
        BY <4>1, <4>2, <4>3
    <3>3. h = F(h, m + 1)
      BY <3>2
    <3>4. m + 1 \in Nat
      OBVIOUS
    <3> HIDE DEF F, h
    <3> QED
      BY <3>3, <3>4
  <2>3. P \in SUBSET Nat
    OBVIOUS
  <2>4. P = Nat
    <3> HIDE DEF P
    <3> QED
      BY <2>1, <2>2, <2>3, Induction
  <2> QED
    BY <2>4
<1> DEFINE G == AliasedFront(d, n, s, i)
<1>3. G = CHOOSE g : g = F(g, N)
  BY DEF AliasedFront, Prepended, ObjectAt
<1>4. G = F(G, N)
  <2> HIDE DEF F, N, G
  <2> QED
    BY <1>1, <1>2, <1>3
<1> HIDE DEF G
<1>5. G[0] = {d}
  BY <1>1, <1>4
<1>6. ASSUME NEW k \in 1 .. N
      PROVE  \A u \in G[k] : \E e \in G[k - 1] :
               EmplaceFrontOk(e) /\ u = EmplaceFront(e, ObjectAt(e, s, i))
  <2>1. k \in 0 .. N /\ k # 0
    BY <1>1
  <2>2. G[k] = {EmplaceFront(e, ObjectAt(e, s, i)) :
                 e \in {e \in G[k - 1] : EmplaceFrontOk(e)}}
    BY <1>4, <2>1
  <2> QED
    BY <2>2
<1> QED
  BY <1>5, <1>6 DEF G, AliasedFrontStep

LEMMA AliasedBackSteps ==
  ASSUME NEW d, NEW n \in Nat, NEW s, NEW i, NEW gs, gs = AliasedBack(d, n, s, i)
  PROVE  /\ gs[0] = {d}
         /\ \A k \in 1 .. n : AliasedBackStep(gs, k, s, i)
<1> DEFINE F(g, m) ==
             [k \in 0 .. m |->
                IF k = 0 THEN {d}
                ELSE {EmplaceBack(e, ObjectAt(e, s, i)) :
                       e \in {e \in g[k - 1] : EmplaceBackOk(e)}}]
           N == n
<1>1. N \in Nat
  OBVIOUS
<1>2. \A m \in Nat : \E g : g = F(g, m)
  <2> DEFINE P == {m \in Nat : \E g : g = F(g, m)}
  <2>1. 0 \in P
    <3> DEFINE g == [k \in 0 .. 0 |-> {d}]
    <3>1. g = F(g, 0)
      OBVIOUS
    <3> QED
      BY <3>1
  <2>2. ASSUME NEW m \in P PROVE m + 1 \in P
    <3>1. PICK g : g = F(g, m)
      OBVIOUS
    <3> DEFINE h == [k \in 0 .. m + 1 |->
                       IF k =< m THEN g[k]
                       ELSE {EmplaceBack(e, ObjectAt(e, s, i)) :
                              e \in {e \in g[m] : EmplaceBackOk(e)}}]
    <3>2. ASSUME NEW k \in 0 .. m + 1
          PROVE  h[k] = IF k = 0 THEN {d}
                        ELSE {EmplaceBack(e, ObjectAt(e, s, i)) :
                               e \in {e \in h[k - 1] : EmplaceBackOk(e)}}
      <4>1. CASE k = 0
        BY <3>1, <4>1
      <4>2. CASE k # 0 /\ k =< m
        <5>1. h[k] = g[k] /\ h[k - 1] = g[k - 1]
          BY <4>2
        <5>2. g[k] = {EmplaceBack(e, ObjectAt(e, s, i)) :
                       e \in {e \in g[k - 1] : EmplaceBackOk(e)}}
          BY <3>1, <4>2, SMTT(30)
        <5> QED
          BY <4>2, <5>1, <5>2
      <4>3. CASE k = m + 1
        <5>1. h[k - 1] = g[m] /\ k # 0 /\ ~(k =< m)
          BY <4>3
        <5> QED
          BY <4>3, <5>1
      <4> QED
        BY <4>1, <4>2, <4>3
    <3>3. h = F(h, m + 1)
      BY <3>2
    <3>4. m + 1 \in Nat
      OBVIOUS
    <3> HIDE DEF F, h
    <3> QED
      BY <3>3, <3>4
  <2>3. P \in SUBSET Nat
    OBVIOUS
  <2>4. P = Nat
    <3> HIDE DEF P
    <3> QED
      BY <2>1, <2>2, <2>3, Induction
  <2> QED
    BY <2>4
<1> DEFINE G == AliasedBack(d, n, s, i)
<1>3. G = CHOOSE g : g = F(g, N)
  BY DEF AliasedBack, Appended, ObjectAt
<1>4. G = F(G, N)
  <2> HIDE DEF F, N, G
  <2> QED
    BY <1>1, <1>2, <1>3
<1> HIDE DEF G
<1>5. G[0] = {d}
  BY <1>1, <1>4
<1>6. ASSUME NEW k \in 1 .. N
      PROVE  \A u \in G[k] : \E e \in G[k - 1] :
               EmplaceBackOk(e) /\ u = EmplaceBack(e, ObjectAt(e, s, i))
  <2>1. k \in 0 .. N /\ k # 0
    BY <1>1
  <2>2. G[k] = {EmplaceBack(e, ObjectAt(e, s, i)) :
                 e \in {e \in G[k - 1] : EmplaceBackOk(e)}}
    BY <1>4, <2>1
  <2> QED
    BY <2>2
<1> QED
  BY <1>5, <1>6 DEF G, AliasedBackStep

\* g[k] are the objects after k pushes to d, of objects.
PushesToFront(d, kept, m0, n, g) ==
  /\ g[0] = {d}
  /\ \A k \in 1 .. n : \A e \in g[k] : \E h \in g[k - 1] : \E x :
       /\ EmplaceFrontOk(h) /\ e = EmplaceFront(h, x)
       /\ Good(h, kept, m0) /\ Grown(d, h, k - 1, 0) => x \in Object

PushesToBack(d, kept, m0, n, g) ==
  /\ g[0] = {d}
  /\ \A k \in 1 .. n : \A e \in g[k] : \E h \in g[k - 1] : \E x :
       /\ EmplaceBackOk(h) /\ e = EmplaceBack(h, x)
       /\ Good(h, kept, m0) /\ Grown(d, h, 0, k - 1) => x \in Object

\* What was pushed comes on top of what was there.
LEMMA PushesFront ==
  ASSUME NEW d, NEW kept, NEW m0, Good(d, kept, m0), Divides, NEW n \in Nat, NEW g,
         PushesToFront(d, kept, m0, n, g)
  PROVE  \A k \in 0 .. n : \A e \in g[k] :
           /\ Good(e, kept, m0) /\ Grown(d, e, k, 0)
           /\ CellsBehind(e) = CellsBehind(d) /\ FreeInFront(e) + k >= FreeInFront(d)
<1> DEFINE Ok(e, k) ==
             /\ Good(e, kept, m0) /\ Grown(d, e, k, 0)
             /\ CellsBehind(e) = CellsBehind(d) /\ FreeInFront(e) + k >= FreeInFront(d)
           P == {k \in Nat : k =< n => \A e \in g[k] : Ok(e, k)}
<1>1. 0 \in P
  <2>1. Ok(d, 0)
    BY GrownNone, FreeCells DEF Good
  <2> QED
    BY <2>1 DEF PushesToFront
<1>2. ASSUME NEW k \in P PROVE k + 1 \in P
  <2> SUFFICES ASSUME k + 1 =< n, NEW e \in g[k + 1] PROVE Ok(e, k + 1)
    OBVIOUS
  <2>1. k + 1 \in 1 .. n /\ (k + 1) - 1 = k /\ k =< n /\ k \in Nat
    OBVIOUS
  <2>0. PICK h \in g[k] : \E x :
          /\ EmplaceFrontOk(h) /\ e = EmplaceFront(h, x)
          /\ Good(h, kept, m0) /\ Grown(d, h, k, 0) => x \in Object
    BY <2>1 DEF PushesToFront
  <2>2. PICK x :
          /\ EmplaceFrontOk(h) /\ e = EmplaceFront(h, x)
          /\ Good(h, kept, m0) /\ Grown(d, h, k, 0) => x \in Object
    BY <2>0
  <2>3. Ok(h, k)
    BY <2>1
  <2>4. PushedFront(h, e, kept, m0)
    BY <2>2, <2>3, EmplaceFrontGood
  <2>5. Shaped(d) /\ Shaped(h) /\ Shaped(e) /\ Grown(d, h, k, 0) /\ Grown(h, e, 1, 0)
    BY <2>3, <2>4 DEF PushedFront, Good
  <2>6. Grown(d, e, k + 1, 0 + 0)
    BY <2>1, <2>5, GrownTwice
  <2>7. FreeInFront(e) + (k + 1) >= FreeInFront(d)
    <3>1. /\ FreeInFront(h) \in Nat /\ FreeInFront(e) \in Nat /\ FreeInFront(d) \in Nat
          /\ SegmentSize \in Nat /\ SegmentSize > 1
      BY <2>5, FreeCells, SegmentAssumption
    <3>2. FreeInFront(e)
            = (IF FreeInFront(h) > 0 THEN FreeInFront(h) ELSE SegmentSize) - 1
      BY <2>4 DEF PushedFront
    <3> QED
      BY <2>1, <2>3, <3>1, <3>2
  <2> QED
    BY <2>3, <2>4, <2>6, <2>7 DEF PushedFront
<1>3. P = Nat
  <2>1. P \in SUBSET Nat
    OBVIOUS
  <2> HIDE DEF P
  <2> QED
    BY <1>1, <1>2, <2>1, Induction
<1> QED
  BY <1>3

LEMMA PushesBack ==
  ASSUME NEW d, NEW kept, NEW m0, Good(d, kept, m0), NEW n \in Nat, NEW g,
         PushesToBack(d, kept, m0, n, g)
  PROVE  \A k \in 0 .. n : \A e \in g[k] :
           /\ Good(e, kept, m0) /\ Grown(d, e, 0, k)
           /\ FreeInFront(e) = FreeInFront(d)
           /\ CellsBehind(d) < SegmentSize => CellsBehind(e) < SegmentSize
<1> DEFINE Ok(e, k) == /\ Good(e, kept, m0) /\ Grown(d, e, 0, k)
                       /\ FreeInFront(e) = FreeInFront(d)
                       /\ CellsBehind(d) < SegmentSize => CellsBehind(e) < SegmentSize
           P == {k \in Nat : k =< n => \A e \in g[k] : Ok(e, k)}
<1>1. 0 \in P
  <2>1. Ok(d, 0)
    BY GrownNone DEF Good
  <2> QED
    BY <2>1 DEF PushesToBack
<1>2. ASSUME NEW k \in P PROVE k + 1 \in P
  <2> SUFFICES ASSUME k + 1 =< n, NEW e \in g[k + 1] PROVE Ok(e, k + 1)
    OBVIOUS
  <2>1. k + 1 \in 1 .. n /\ (k + 1) - 1 = k /\ k =< n /\ k \in Nat
    OBVIOUS
  <2>0. PICK h \in g[k] : \E x :
          /\ EmplaceBackOk(h) /\ e = EmplaceBack(h, x)
          /\ Good(h, kept, m0) /\ Grown(d, h, 0, k) => x \in Object
    BY <2>1 DEF PushesToBack
  <2>2. PICK x :
          /\ EmplaceBackOk(h) /\ e = EmplaceBack(h, x)
          /\ Good(h, kept, m0) /\ Grown(d, h, 0, k) => x \in Object
    BY <2>0
  <2>3. Ok(h, k)
    BY <2>1
  <2>4. PushedBack(h, e, kept, m0)
    BY <2>2, <2>3, EmplaceBackGood
  <2>5. Shaped(d) /\ Shaped(h) /\ Shaped(e) /\ Grown(d, h, 0, k) /\ Grown(h, e, 0, 1)
    BY <2>3, <2>4 DEF PushedBack, Good
  <2>6. Grown(d, e, 0 + 0, k + 1)
    BY <2>1, <2>5, GrownTwice
  <2>7. CellsBehind(h) < SegmentSize => CellsBehind(e) < SegmentSize
    <3>1. CellsBehind(h) \in Nat /\ SegmentSize \in Nat
      BY <2>5, FreeCells, SegmentAssumption
    <3>2. CellsBehind(e)
            = (IF CellsBehind(h) > 0 THEN CellsBehind(h) ELSE SegmentSize) - 1
      BY <2>4 DEF PushedBack
    <3> QED
      BY <3>1, <3>2
  <2> QED
    BY <2>3, <2>4, <2>6, <2>7 DEF PushedBack
<1>3. P = Nat
  <2>1. P \in SUBSET Nat
    OBVIOUS
  <2> HIDE DEF P
  <2> QED
    BY <1>1, <1>2, <2>1, Induction
<1> QED
  BY <1>3

LEMMA PushFrontGood ==
  ASSUME NEW d, NEW kept, NEW m0, Good(d, kept, m0), Divides, NEW xs \in Seq(Object),
         NEW k \in 0 .. Len(xs), NEW e \in PushFront(d, xs)[k]
  PROVE  /\ Good(e, kept, m0) /\ Grown(d, e, k, 0) /\ CellsBehind(e) = CellsBehind(d)
         /\ FreeInFront(e) + k >= FreeInFront(d)
<1> DEFINE g == PushFront(d, xs)
<1>1. /\ g[0] = {d}
      /\ \A j \in 1 .. Len(xs) : \A u \in g[j] : \E h \in g[j - 1] :
           EmplaceFrontOk(h) /\ u = EmplaceFront(h, xs[Len(xs) - j + 1])
  BY PushFrontSteps
<1> HIDE DEF g
<1>2. ASSUME NEW j \in 1 .. Len(xs), NEW u \in g[j]
      PROVE  \E h \in g[j - 1] : \E x :
               /\ EmplaceFrontOk(h) /\ u = EmplaceFront(h, x)
               /\ Good(h, kept, m0) /\ Grown(d, h, j - 1, 0) => x \in Object
  <2>1. PICK h \in g[j - 1] : /\ EmplaceFrontOk(h)
                              /\ u = EmplaceFront(h, xs[Len(xs) - j + 1])
    BY <1>1
  <2>2. xs[Len(xs) - j + 1] \in Object
    OBVIOUS
  <2> QED
    BY <2>1, <2>2
<1>3. Len(xs) \in Nat
  OBVIOUS
<1>4. PushesToFront(d, kept, m0, Len(xs), g)
  BY <1>1, <1>2 DEF PushesToFront
<1> QED
  BY <1>3, <1>4, PushesFront DEF g

LEMMA PushBackGood ==
  ASSUME NEW d, NEW kept, NEW m0, Good(d, kept, m0), NEW xs \in Seq(Object),
         NEW k \in 0 .. Len(xs), NEW e \in PushBack(d, xs)[k]
  PROVE  /\ Good(e, kept, m0) /\ Grown(d, e, 0, k) /\ FreeInFront(e) = FreeInFront(d)
         /\ CellsBehind(d) < SegmentSize => CellsBehind(e) < SegmentSize
<1> DEFINE g == PushBack(d, xs)
<1>1. /\ g[0] = {d}
      /\ \A j \in 1 .. Len(xs) : \A u \in g[j] : \E h \in g[j - 1] :
           EmplaceBackOk(h) /\ u = EmplaceBack(h, xs[j])
  BY PushBackSteps
<1> HIDE DEF g
<1>2. ASSUME NEW j \in 1 .. Len(xs), NEW u \in g[j]
      PROVE  \E h \in g[j - 1] : \E x :
               /\ EmplaceBackOk(h) /\ u = EmplaceBack(h, x)
               /\ Good(h, kept, m0) /\ Grown(d, h, 0, j - 1) => x \in Object
  <2>1. PICK h \in g[j - 1] : EmplaceBackOk(h) /\ u = EmplaceBack(h, xs[j])
    BY <1>1
  <2>2. xs[j] \in Object
    OBVIOUS
  <2> QED
    BY <2>1, <2>2
<1>3. Len(xs) \in Nat
  OBVIOUS
<1>4. PushesToBack(d, kept, m0, Len(xs), g)
  BY <1>1, <1>2 DEF PushesToBack
<1> QED
  BY <1>3, <1>4, PushesBack DEF g

\* A cell of an element still holds it after the deque has grown.
LEMMA GrownCell ==
  ASSUME NEW d, NEW kept, NEW m0, Good(d, kept, m0), NEW a \in MapSlots(d),
         NEW i \in Indices, Within(d, a, i), NEW e, NEW f, NEW b, Grown(d, e, f, b)
  PROVE  e.mem[d.map.slots[a]][i] \in Object
<1>1. e.mem[d.map.slots[a]][i] = d.mem[d.map.slots[a]][i]
  BY DEF Grown
<1>2. d.map.slots[a] \in Segments /\ d.mem \in [Segments -> Segment]
  BY DEF Good, Owned, Shaped, DequeType
<1>3. d.mem[d.map.slots[a]][i] \in Slot /\ d.mem[d.map.slots[a]][i] # Raw
  BY <1>2 DEF Segment, Good, Filled
<1> QED
  BY <1>1, <1>3 DEF Slot

LEMMA AliasedFrontGood ==
  ASSUME NEW d, NEW kept, NEW m0, Good(d, kept, m0), Divides, NEW n \in Nat,
         NEW a \in MapSlots(d), NEW i \in Indices, Within(d, a, i),
         NEW k \in 0 .. n, NEW e \in AliasedFront(d, n, d.map.slots[a], i)[k]
  PROVE  Good(e, kept, m0) /\ Grown(d, e, k, 0)
<1> DEFINE s == d.map.slots[a]
           g == AliasedFront(d, n, s, i)
<1> HIDE DEF s
<1>1. /\ g[0] = {d}
      /\ \A j \in 1 .. n : AliasedFrontStep(g, j, s, i)
  BY AliasedFrontSteps
<1> HIDE DEF g
<1>2. ASSUME NEW j \in 1 .. n, NEW u \in g[j]
      PROVE  \E h \in g[j - 1] : \E x :
               /\ EmplaceFrontOk(h) /\ u = EmplaceFront(h, x)
               /\ Good(h, kept, m0) /\ Grown(d, h, j - 1, 0) => x \in Object
  <2>1. PICK h \in g[j - 1] : EmplaceFrontOk(h) /\ u = EmplaceFront(h, ObjectAt(h, s, i))
    BY <1>1 DEF AliasedFrontStep
  <2>2. Grown(d, h, j - 1, 0) => ObjectAt(h, s, i) \in Object
    BY GrownCell DEF s, ObjectAt
  <2> QED
    BY <2>1, <2>2
<1>4. PushesToFront(d, kept, m0, n, g)
  BY <1>1, <1>2 DEF PushesToFront
<1> QED
  BY <1>4, PushesFront DEF g, s

LEMMA AliasedBackGood ==
  ASSUME NEW d, NEW kept, NEW m0, Good(d, kept, m0), NEW n \in Nat,
         NEW a \in MapSlots(d), NEW i \in Indices, Within(d, a, i),
         NEW k \in 0 .. n, NEW e \in AliasedBack(d, n, d.map.slots[a], i)[k]
  PROVE  Good(e, kept, m0) /\ Grown(d, e, 0, k)
<1> DEFINE s == d.map.slots[a]
           g == AliasedBack(d, n, s, i)
<1> HIDE DEF s
<1>1. /\ g[0] = {d}
      /\ \A j \in 1 .. n : AliasedBackStep(g, j, s, i)
  BY AliasedBackSteps
<1> HIDE DEF g
<1>2. ASSUME NEW j \in 1 .. n, NEW u \in g[j]
      PROVE  \E h \in g[j - 1] : \E x :
               /\ EmplaceBackOk(h) /\ u = EmplaceBack(h, x)
               /\ Good(h, kept, m0) /\ Grown(d, h, 0, j - 1) => x \in Object
  <2>1. PICK h \in g[j - 1] : EmplaceBackOk(h) /\ u = EmplaceBack(h, ObjectAt(h, s, i))
    BY <1>1 DEF AliasedBackStep
  <2>2. Grown(d, h, 0, j - 1) => ObjectAt(h, s, i) \in Object
    BY GrownCell DEF s, ObjectAt
  <2> QED
    BY <2>1, <2>2
<1>4. PushesToBack(d, kept, m0, n, g)
  BY <1>1, <1>2 DEF PushesToBack
<1> QED
  BY <1>4, PushesBack DEF g, s

-----------------------------------------------------------------------------
\* Segments more: reserve_front and reserve_back

\* What Grown says of the numbers.
LEMMA GrownSize ==
  ASSUME NEW d, NEW e, Shaped(d), Shaped(e), NEW f \in Nat, NEW b \in Nat,
         Grown(d, e, f, b)
  PROVE  Past(e) - First(e) = Past(d) - First(d) + f + b
<1>1. PICK shift \in Int : /\ First(e) = First(d) + shift * SegmentSize - f
                           /\ Past(e) = Past(d) + shift * SegmentSize + b
  BY DEF Grown
<1> DEFINE x == shift * SegmentSize
<1>2. /\ x \in Int /\ First(d) \in Int /\ Past(d) \in Int
      /\ First(e) \in Int /\ Past(e) \in Int
  BY ShapedNumbers, SegmentAssumption
<1>3. First(e) = First(d) + x - f /\ Past(e) = Past(d) + x + b
  BY <1>1
<1> HIDE DEF x
<1> QED
  BY <1>2, <1>3

\* An empty segment more, at one end of the map.
LEMMA SegmentInFrontGood ==
  ASSUME NEW d, NEW kept, NEW m0, Good(d, kept, m0), HasSegment(d), d.map.front > 0
  PROVE  LET e == SegmentInFront(d)
         IN  /\ Good(e, kept, m0) /\ Grown(d, e, 0, 0)
             /\ e.map.front = d.map.front - 1 /\ e.map.back = d.map.back
             /\ FreeInFront(e) = FreeInFront(d) + SegmentSize
<1> DEFINE S == SegmentSize
           new == NewSegment(d)
           r == Map!PutFront(d.map, <<new>>)
           at == d.map.front - 1
           e == SegmentInFront(d)
           lo == d.map.front * S
           lo1 == at * S
           hi == d.map.back * S
<1>0. Shaped(d) /\ Owned(d, kept) /\ d.allocated \subseteq Segments
  BY DEF Good, Shaped, DequeType
<1>1. new \in Segments \ d.allocated
  BY <1>0, NewSegmentIs
<1>2. /\ d.map.front \in Nat /\ d.map.back \in Nat /\ d.map.front =< d.map.back
      /\ IsDeque(d) /\ First(d) \in Int /\ Past(d) \in Int
      /\ d.begin \in Iterators /\ d.end \in Iterators
      /\ lo \in Int /\ hi \in Int /\ lo =< First(d) /\ First(d) =< Past(d)
      /\ Past(d) =< hi
  BY <1>0, ShapedNumbers DEF Shaped, Bounded
<1>3. /\ MapGood(r) /\ r.front = at /\ r.back = d.map.back /\ r.slots[at] = new
      /\ \A a \in d.map.front .. d.map.back - 1 : r.slots[a] = d.map.slots[a]
  BY <1>0, <1>1, MapPutFront DEF Shaped
<1>4. /\ at \in Int /\ S \in Nat /\ S > 1 /\ lo1 = lo - S /\ lo1 \in Int
      /\ \A i \in Indices : i \in Nat /\ i =< S - 1
  <2>1. at \in Int /\ S \in Nat /\ S > 1 /\ lo1 = lo - S /\ lo1 \in Int
    <3>1. d.map.front \in Int
      BY <1>2
    <3> QED
      BY ONLY <3>1, SegmentBeside
  <2>2. \A i \in Indices : i \in Nat /\ i =< S - 1
    BY SegmentAssumption DEF Indices
  <2> QED
    BY <2>1, <2>2
<1>5. EmptySegment \in Segment /\ \A i \in Indices : EmptySegment[i] = Raw
  BY DEF Segment, EmptySegment, Slot
<1>6. /\ e.map = r /\ e.allocated = d.allocated \cup {new} /\ IsDeque(e)
      /\ e.mem = [d.mem EXCEPT ![new] = EmptySegment]
      /\ e.begin = d.begin /\ e.end = d.end
  <2> HIDE DEF r, new
  <2> QED
    BY <1>2, AddSegmentIs DEF IsDeque, SegmentInFront, r, new
<1> HIDE DEF e, r, new
<1>7. First(e) = First(d) /\ Past(e) = Past(d)
  BY <1>6 DEF First, Past
<1>8. Bounded(e)
  <2>1. lo1 =< First(e) /\ First(e) =< Past(e) /\ Past(e) =< hi
    <3> HIDE DEF lo1, lo, hi, S
    <3> QED
      BY <1>2, <1>4, <1>7
  <2> QED
    BY <1>3, <1>6, <2>1 DEF Bounded
<1>9. ASSUME NEW i \in Indices PROVE EmptySegment[i] # Raw <=> Within(e, at, i)
  <2>1. Within(e, at, i) <=> First(d) =< lo1 + i /\ lo1 + i < Past(d)
    BY <1>7 DEF Within
  <2> HIDE DEF lo, lo1, S
  <2> QED
    BY <1>2, <1>4, <1>5, <2>1
<1>10. \A a \in MapSlots(d), i \in Indices : Within(e, a, i) <=> Within(d, a, i)
  BY <1>7 DEF Within
<1>11. Good(e, kept, m0) /\ Grown(d, e, First(d) - First(e), Past(e) - Past(d))
  <2>1. /\ at \notin MapSlots(d) /\ r.front .. r.back - 1 = MapSlots(d) \cup {at}
        /\ \A a \in MapSlots(d) : r.slots[a] = d.map.slots[a]
    BY <1>2, <1>3 DEF MapSlots
  <2> HIDE DEF at
  <2> QED
    BY <1>1, <1>2, <1>3, <1>4, <1>5, <1>6, <1>8, <1>9, <1>10, <2>1, AddedGood
<1>12. Grown(d, e, 0, 0)
  <2>1. First(d) - First(e) = 0 /\ Past(e) - Past(d) = 0
    BY <1>2, <1>7
  <2> QED
    BY <1>11, <2>1
<1>13. FreeInFront(e) = FreeInFront(d) + S
  <2>1. FreeInFront(e) = First(d) - lo1 /\ FreeInFront(d) = First(d) - lo
    BY <1>3, <1>6, <1>7 DEF FreeInFront
  <2> HIDE DEF lo, lo1, S
  <2> QED
    BY <1>2, <1>4, <2>1
<1> QED
  BY <1>3, <1>6, <1>11, <1>12, <1>13 DEF e

LEMMA SegmentBehindGood ==
  ASSUME NEW d, NEW kept, NEW m0, Good(d, kept, m0), HasSegment(d),
         d.map.back < d.map.cap
  PROVE  LET e == SegmentBehind(d)
         IN  /\ Good(e, kept, m0) /\ Grown(d, e, 0, 0)
             /\ e.map.back = d.map.back + 1 /\ e.map.cap = d.map.cap
             /\ FreeInFront(e) = FreeInFront(d)
<1> DEFINE S == SegmentSize
           new == NewSegment(d)
           r == Map!PutBack(d.map, <<new>>)
           at == d.map.back
           e == SegmentBehind(d)
           lo == d.map.front * S
           hi == at * S
           hi1 == (at + 1) * S
<1>0. Shaped(d) /\ Owned(d, kept) /\ d.allocated \subseteq Segments
  BY DEF Good, Shaped, DequeType
<1>1. new \in Segments \ d.allocated
  BY <1>0, NewSegmentIs
<1>2. /\ d.map.front \in Nat /\ at \in Nat /\ d.map.front =< at
      /\ IsDeque(d) /\ First(d) \in Int /\ Past(d) \in Int
      /\ d.begin \in Iterators /\ d.end \in Iterators
      /\ lo \in Int /\ hi \in Int /\ lo =< First(d) /\ First(d) =< Past(d)
      /\ Past(d) =< hi
  BY <1>0, ShapedNumbers DEF Shaped, Bounded
<1>3. /\ MapGood(r) /\ r.front = d.map.front /\ r.back = at + 1 /\ r.slots[at] = new
      /\ r.cap = d.map.cap
      /\ \A a \in d.map.front .. at - 1 : r.slots[a] = d.map.slots[a]
  BY <1>0, <1>1, MapPutBack DEF Shaped
<1>4. /\ at \in Int /\ S \in Nat /\ S > 1 /\ hi1 = hi + S /\ hi1 \in Int
      /\ \A i \in Indices : i \in Nat /\ i =< S - 1
  <2>1. at \in Int /\ S \in Nat /\ S > 1 /\ hi1 = hi + S /\ hi1 \in Int
    <3>1. at \in Int
      BY <1>2
    <3> QED
      BY ONLY <3>1, SegmentBeside
  <2>2. \A i \in Indices : i \in Nat /\ i =< S - 1
    BY SegmentAssumption DEF Indices
  <2> QED
    BY <2>1, <2>2
<1>5. EmptySegment \in Segment /\ \A i \in Indices : EmptySegment[i] = Raw
  BY DEF Segment, EmptySegment, Slot
<1>6. /\ e.map = r /\ e.allocated = d.allocated \cup {new} /\ IsDeque(e)
      /\ e.mem = [d.mem EXCEPT ![new] = EmptySegment]
      /\ e.begin = d.begin /\ e.end = d.end
  <2> HIDE DEF r, new
  <2> QED
    BY <1>2, AddSegmentIs DEF IsDeque, SegmentBehind, r, new
<1> HIDE DEF e, r, new
<1>7. First(e) = First(d) /\ Past(e) = Past(d)
  BY <1>6 DEF First, Past
<1>8. Bounded(e)
  <2>1. lo =< First(e) /\ First(e) =< Past(e) /\ Past(e) =< hi1
    <3> HIDE DEF hi1, lo, hi, S
    <3> QED
      BY <1>2, <1>4, <1>7
  <2> QED
    BY <1>3, <1>6, <2>1 DEF Bounded
<1>9. ASSUME NEW i \in Indices PROVE EmptySegment[i] # Raw <=> Within(e, at, i)
  <2>1. Within(e, at, i) <=> First(d) =< hi + i /\ hi + i < Past(d)
    BY <1>7 DEF Within
  <2> HIDE DEF hi, S, at
  <2> QED
    BY <1>2, <1>4, <1>5, <2>1
<1>10. \A a \in MapSlots(d), i \in Indices : Within(e, a, i) <=> Within(d, a, i)
  BY <1>7 DEF Within
<1>11. Good(e, kept, m0) /\ Grown(d, e, First(d) - First(e), Past(e) - Past(d))
  <2>1. /\ at \notin MapSlots(d) /\ r.front .. r.back - 1 = MapSlots(d) \cup {at}
        /\ \A a \in MapSlots(d) : r.slots[a] = d.map.slots[a]
    BY <1>2, <1>3 DEF MapSlots
  <2> HIDE DEF at
  <2> QED
    BY <1>1, <1>2, <1>3, <1>4, <1>5, <1>6, <1>8, <1>9, <1>10, <2>1, AddedGood
<1>12. Grown(d, e, 0, 0)
  <2>1. First(d) - First(e) = 0 /\ Past(e) - Past(d) = 0
    BY <1>2, <1>7
  <2> QED
    BY <1>11, <2>1
<1>13. FreeInFront(e) = FreeInFront(d)
  BY <1>3, <1>6, <1>7 DEF FreeInFront
<1> QED
  BY <1>3, <1>6, <1>11, <1>12, <1>13 DEF e

LEMMA SegmentCountIs ==
  ASSUME NEW n \in Nat
  PROVE  /\ SegmentCount(n) \in Nat /\ SegmentCount(n) * SegmentSize \in Nat
         /\ n =< SegmentCount(n) * SegmentSize
         /\ SegmentCount(n) * SegmentSize < n + SegmentSize
<1> DEFINE k == SegmentCount(n)
           i == (n + SegmentSize - 1) % SegmentSize
           x == k * SegmentSize
<1>1. SegmentSize \in Nat /\ SegmentSize > 1
  BY SegmentAssumption
<1>2. k \in Int /\ i \in Indices /\ x + i = n + SegmentSize - 1
  <2>1. n + SegmentSize - 1 \in Int
    BY <1>1
  <2> QED
    BY <2>1, PartsOf, SMTT(30) DEF SegmentCount
<1>3. i \in Nat /\ i =< SegmentSize - 1 /\ x \in Int
  BY <1>1, <1>2, Distribute DEF Indices
<1> HIDE DEF i, k
<1>4. n =< x /\ x < n + SegmentSize /\ x \in Nat
  <2> HIDE DEF x
  <2> QED
    BY <1>1, <1>2, <1>3
<1>5. k >= 0
  <2> SUFFICES ASSUME k < 0 PROVE FALSE
    BY <1>2
  <2>1. 0 \in Indices /\ 0 \in Int
    BY <1>1 DEF Indices
  <2>2. k * SegmentSize + 0 < 0 * SegmentSize
    BY <1>2, <2>1, PlaceOrder
  <2> HIDE DEF x
  <2>3. x < 0
    BY <1>1, <1>4, <2>2 DEF x
  <2> QED
    BY <1>4, <2>3
<1> QED
  BY <1>2, <1>4, <1>5 DEF k

LEMMA SegmentsFrontGood ==
  ASSUME NEW d, NEW kept, NEW m0, Good(d, kept, m0), NEW n \in Nat, n =< d.map.front,
         NEW j \in 0 .. n, NEW u \in WithSegmentsFront(d, n)[j]
  PROVE  /\ Good(u, kept, m0) /\ Grown(d, u, 0, 0)
         /\ FreeInFront(u) = FreeInFront(d) + j * SegmentSize
<1> DEFINE g == WithSegmentsFront(d, n)
           Ok(e, k) == /\ Good(e, kept, m0) /\ Grown(d, e, 0, 0)
                       /\ e.map.front = d.map.front - k
                       /\ FreeInFront(e) = FreeInFront(d) + k * SegmentSize
           P == {k \in Nat : k =< n => \A e \in g[k] : Ok(e, k)}
<1>1. /\ g[0] = {d}
      /\ \A k \in 1 .. n : \A v \in g[k] : \E e \in g[k - 1] :
           HasSegment(e) /\ v = SegmentInFront(e)
  BY SegmentsFrontSteps
<1>2. Shaped(d) /\ d.map.front \in Nat /\ FreeInFront(d) \in Nat /\ SegmentSize \in Nat
  BY ShapedNumbers, FreeCells, SegmentAssumption DEF Good
<1> HIDE DEF g
<1>3. 0 \in P
  <2>1. Ok(d, 0)
    BY <1>2, GrownNone
  <2> QED
    BY <1>1, <2>1
<1>4. ASSUME NEW k \in P PROVE k + 1 \in P
  <2> SUFFICES ASSUME k + 1 =< n, NEW e \in g[k + 1] PROVE Ok(e, k + 1)
    OBVIOUS
  <2>1. k + 1 \in 1 .. n /\ (k + 1) - 1 = k /\ k =< n /\ k \in Nat
    OBVIOUS
  <2>2. PICK h \in g[k] : HasSegment(h) /\ e = SegmentInFront(h)
    BY <1>1, <2>1
  <2>3. Ok(h, k)
    BY <2>1
  <2>4. h.map.front > 0
    BY <1>2, <2>1, <2>3
  <2>5. /\ Good(e, kept, m0) /\ Grown(h, e, 0, 0) /\ e.map.front = h.map.front - 1
        /\ FreeInFront(e) = FreeInFront(h) + SegmentSize
    BY <2>2, <2>3, <2>4, SegmentInFrontGood
  <2>6. Grown(d, e, 0 + 0, 0 + 0)
    BY <1>2, <2>3, <2>5, GrownTwice DEF Good
  <2>7. (k + 1) * SegmentSize = k * SegmentSize + SegmentSize /\ k * SegmentSize \in Int
    BY <1>2, <2>1, Distribute
  <2>8. FreeInFront(e) = FreeInFront(d) + (k + 1) * SegmentSize
    <3> DEFINE x == k * SegmentSize
               y == (k + 1) * SegmentSize
    <3>1. /\ FreeInFront(h) = FreeInFront(d) + x /\ y = x + SegmentSize /\ x \in Int
      BY <2>3, <2>7
    <3> HIDE DEF x, y
    <3>2. FreeInFront(e) = FreeInFront(d) + y
      BY <1>2, <2>5, <3>1
    <3> QED
      BY <3>2 DEF y
  <2>9. e.map.front = d.map.front - (k + 1)
    BY <1>2, <2>1, <2>3, <2>5
  <2> QED
    BY <2>5, <2>6, <2>8, <2>9
<1>5. P = Nat
  <2>1. P \in SUBSET Nat
    OBVIOUS
  <2> HIDE DEF P
  <2> QED
    BY <1>3, <1>4, <2>1, Induction
<1> QED
  BY <1>5 DEF g

LEMMA SegmentsBackGood ==
  ASSUME NEW d, NEW kept, NEW m0, Good(d, kept, m0), NEW n \in Nat,
         n =< d.map.cap - d.map.back,
         NEW j \in 0 .. n, NEW u \in WithSegmentsBack(d, n)[j]
  PROVE  /\ Good(u, kept, m0) /\ Grown(d, u, 0, 0) /\ FreeInFront(u) = FreeInFront(d)
<1> DEFINE g == WithSegmentsBack(d, n)
           Ok(e, k) == /\ Good(e, kept, m0) /\ Grown(d, e, 0, 0)
                       /\ e.map.back = d.map.back + k /\ e.map.cap = d.map.cap
                       /\ FreeInFront(e) = FreeInFront(d)
           P == {k \in Nat : k =< n => \A e \in g[k] : Ok(e, k)}
<1>1. /\ g[0] = {d}
      /\ \A k \in 1 .. n : \A v \in g[k] : \E e \in g[k - 1] :
           HasSegment(e) /\ v = SegmentBehind(e)
  BY SegmentsBackSteps
<1>2. Shaped(d) /\ d.map.back \in Nat /\ d.map.cap \in Nat
  BY ShapedNumbers DEF Good
<1> HIDE DEF g
<1>3. 0 \in P
  <2>1. Ok(d, 0)
    BY <1>2, GrownNone
  <2> QED
    BY <1>1, <2>1
<1>4. ASSUME NEW k \in P PROVE k + 1 \in P
  <2> SUFFICES ASSUME k + 1 =< n, NEW e \in g[k + 1] PROVE Ok(e, k + 1)
    OBVIOUS
  <2>1. k + 1 \in 1 .. n /\ (k + 1) - 1 = k /\ k =< n /\ k \in Nat
    OBVIOUS
  <2>2. PICK h \in g[k] : HasSegment(h) /\ e = SegmentBehind(h)
    BY <1>1, <2>1
  <2>3. Ok(h, k)
    BY <2>1
  <2>4. h.map.back < h.map.cap
    BY <1>2, <2>1, <2>3
  <2>5. /\ Good(e, kept, m0) /\ Grown(h, e, 0, 0) /\ e.map.back = h.map.back + 1
        /\ e.map.cap = h.map.cap /\ FreeInFront(e) = FreeInFront(h)
    BY <2>2, <2>3, <2>4, SegmentBehindGood
  <2>6. Grown(d, e, 0 + 0, 0 + 0)
    BY <1>2, <2>3, <2>5, GrownTwice DEF Good
  <2>7. e.map.back = d.map.back + (k + 1)
    BY <1>2, <2>1, <2>3, <2>5
  <2> QED
    BY <2>3, <2>5, <2>6, <2>7
<1>5. P = Nat
  <2>1. P \in SUBSET Nat
    OBVIOUS
  <2> HIDE DEF P
  <2> QED
    BY <1>3, <1>4, <2>1, Induction
<1> QED
  BY <1>5 DEF g

\* reserve_front and reserve_back, whether they return or throw.
LEMMA ReserveFrontStepsGood ==
  ASSUME NEW d, NEW kept, NEW m0, Good(d, kept, m0), NEW n \in Nat,
         ~ReserveFrontSuffices(d, n)
  PROVE  /\ MissingFront(d, n) \in Nat
         /\ n =< FreeInFront(d) + SizeOf(d) + MissingFront(d, n) * SegmentSize
         /\ \A k \in 0 .. MissingFront(d, n) : \A e \in ReserveFrontSteps(d, n)[k] :
              /\ Good(e, kept, m0) /\ Grown(d, e, 0, 0)
              /\ FreeInFront(e) = FreeInFront(d) + k * SegmentSize
<1> DEFINE m == MissingFront(d, n)
           wish == Map!SizeOf(d.map) + m
           room == ReserveMapFront(d, wish)
           q == n - (FrontFreeCapacity(d) + SizeOf(d))
<1>0. Shaped(d) /\ Owned(d, kept)
  BY DEF Good
<1>1. /\ FreeInFront(d) \in Nat /\ FrontFreeCapacity(d) = FreeInFront(d)
      /\ SizeOf(d) \in Nat
  BY <1>0, FreeCells, SizeIs
<1>2. q \in Nat
  BY <1>1 DEF ReserveFrontSuffices
<1>3. m \in Nat /\ q =< m * SegmentSize /\ m * SegmentSize \in Nat
  BY <1>2, SegmentCountIs DEF MissingFront
<1>4. n =< FreeInFront(d) + SizeOf(d) + m * SegmentSize
  <2> DEFINE x == m * SegmentSize
  <2>1. x \in Nat /\ q =< x
    BY <1>3
  <2> HIDE DEF x, m
  <2>2. n =< FreeInFront(d) + SizeOf(d) + x
    BY <1>1, <2>1
  <2> QED
    BY <2>2 DEF x
<1> HIDE DEF m, q
<1>5. /\ d.map.front \in Nat /\ d.map.back \in Nat /\ d.map.front =< d.map.back
      /\ Map!SizeOf(d.map) = d.map.back - d.map.front /\ wish \in Nat
  <2>1. /\ d.map.front \in Nat /\ d.map.back \in Nat /\ d.map.front =< d.map.back
        /\ Map!SizeOf(d.map) = d.map.back - d.map.front
    BY <1>0, MapFacts DEF Shaped
  <2> QED
    BY <1>3, <2>1
<1>6. ASSUME NEW k \in 0 .. m, NEW e \in ReserveFrontSteps(d, n)[k]
      PROVE  /\ Good(e, kept, m0) /\ Grown(d, e, 0, 0)
             /\ FreeInFront(e) = FreeInFront(d) + k * SegmentSize
  <2>1. Map!ReserveFrontOk(d.map, wish)
    <3> SUFFICES ASSUME ~Map!ReserveFrontOk(d.map, wish) PROVE FALSE
      OBVIOUS
    <3>1. ReserveFrontSteps(d, n) = [j \in 0 .. m |-> {}]
      BY DEF ReserveFrontSteps, m
    <3> QED
      BY <1>6, <3>1
  <2>2. ReserveFrontSteps(d, n) = WithSegmentsFront(room, m)
    BY <2>1 DEF ReserveFrontSteps, m
  <2>3. /\ Good(room, kept, m0) /\ room.map.back >= wish
        /\ room.map.back - room.map.front = d.map.back - d.map.front
        /\ Grown(d, room, 0, 0) /\ FreeInFront(room) = FreeInFront(d)
    BY <1>5, <2>1, ReserveMapFrontGood
  <2> HIDE DEF room
  <2>4. Shaped(room) /\ room.map.front \in Nat /\ room.map.back \in Nat
    BY <2>3, ShapedNumbers DEF Good
  <2>5. m =< room.map.front
    BY <1>3, <1>5, <2>3, <2>4
  <2>6. /\ Good(e, kept, m0) /\ Grown(room, e, 0, 0)
        /\ FreeInFront(e) = FreeInFront(room) + k * SegmentSize
    BY <1>3, <1>6, <2>2, <2>3, <2>5, SegmentsFrontGood
  <2>7. Grown(d, e, 0 + 0, 0 + 0)
    BY <1>0, <2>3, <2>4, <2>6, GrownTwice DEF Good
  <2> QED
    BY <2>3, <2>6, <2>7
<1> QED
  BY <1>3, <1>4, <1>6 DEF m

LEMMA ReserveFrontGood ==
  ASSUME NEW d, NEW kept, NEW m0, Good(d, kept, m0), NEW n \in Nat,
         NEW e \in ReserveFront(d, n)
  PROVE  /\ Good(e, kept, m0) /\ Grown(d, e, 0, 0)
         /\ FreeInFront(e) >= FreeInFront(d) /\ n =< FreeInFront(e) + SizeOf(d)
<1>0. Shaped(d) /\ Owned(d, kept) /\ FreeInFront(d) \in Nat /\ SizeOf(d) \in Nat
      /\ FrontFreeCapacity(d) = FreeInFront(d)
  BY FreeCells, SizeIs DEF Good
<1>1. CASE ReserveFrontSuffices(d, n)
  <2>1. e = d
    BY <1>1 DEF ReserveFront
  <2> QED
    BY <1>0, <1>1, <2>1, GrownNone DEF ReserveFrontSuffices
<1>2. CASE ~ReserveFrontSuffices(d, n)
  <2> DEFINE m == MissingFront(d, n)
  <2>1. e \in ReserveFrontSteps(d, n)[m]
    BY <1>2 DEF ReserveFront
  <2>2. /\ m \in Nat /\ n =< FreeInFront(d) + SizeOf(d) + m * SegmentSize
        /\ \A k \in 0 .. m : \A h \in ReserveFrontSteps(d, n)[k] :
             /\ Good(h, kept, m0) /\ Grown(d, h, 0, 0)
             /\ FreeInFront(h) = FreeInFront(d) + k * SegmentSize
    BY <1>2, ReserveFrontStepsGood
  <2> HIDE DEF m
  <2>3. m \in 0 .. m
    BY <2>2
  <2> DEFINE x == m * SegmentSize
  <2>4. /\ Good(e, kept, m0) /\ Grown(d, e, 0, 0) /\ FreeInFront(e) = FreeInFront(d) + x
    BY <2>1, <2>2, <2>3
  <2>5. x \in Nat
    BY <2>2, SegmentAssumption
  <2>6. n =< FreeInFront(d) + SizeOf(d) + x
    BY <2>2
  <2> HIDE DEF x
  <2> QED
    BY <1>0, <2>4, <2>5, <2>6
<1> QED
  BY <1>1, <1>2

LEMMA ReserveFrontThrewGood ==
  ASSUME NEW d, NEW kept, NEW m0, Good(d, kept, m0), NEW n \in Nat,
         NEW e \in ReserveFrontThrew(d, n)
  PROVE  Good(e, kept, m0) /\ Grown(d, e, 0, 0) /\ FreeInFront(e) >= FreeInFront(d)
<1>0. Shaped(d) /\ FreeInFront(d) \in Nat /\ SegmentSize \in Nat
  BY FreeCells, SegmentAssumption DEF Good
<1>1. ~ReserveFrontSuffices(d, n)
  BY DEF ReserveFrontThrew
<1>2. CASE e = d
  BY <1>0, <1>2, GrownNone
<1>3. CASE e # d
  <2> DEFINE m == MissingFront(d, n)
  <2>1. PICK k \in 0 .. m - 1 : e \in ReserveFrontSteps(d, n)[k]
    BY <1>1, <1>3 DEF ReserveFrontThrew
  <2>2. /\ m \in Nat
        /\ \A j \in 0 .. m : \A h \in ReserveFrontSteps(d, n)[j] :
             /\ Good(h, kept, m0) /\ Grown(d, h, 0, 0)
             /\ FreeInFront(h) = FreeInFront(d) + j * SegmentSize
    BY <1>1, ReserveFrontStepsGood
  <2> HIDE DEF m
  <2>3. k \in 0 .. m /\ k \in Nat
    BY <2>2
  <2>4. /\ Good(e, kept, m0) /\ Grown(d, e, 0, 0)
        /\ FreeInFront(e) = FreeInFront(d) + k * SegmentSize
    BY <2>1, <2>2, <2>3
  <2> DEFINE x == k * SegmentSize
  <2>5. x \in Nat /\ FreeInFront(e) = FreeInFront(d) + x
    BY <1>0, <2>3, <2>4
  <2> HIDE DEF x
  <2> QED
    BY <1>0, <2>4, <2>5
<1> QED
  BY <1>2, <1>3

LEMMA ReserveBackStepsGood ==
  ASSUME NEW d, NEW kept, NEW m0, Good(d, kept, m0), NEW n \in Nat,
         ~ReserveBackSuffices(d, n)
  PROVE  /\ MissingBack(d, n) \in Nat
         /\ \A k \in 0 .. MissingBack(d, n) : \A e \in ReserveBackSteps(d, n)[k] :
              /\ Good(e, kept, m0) /\ Grown(d, e, 0, 0)
              /\ FreeInFront(e) = FreeInFront(d)
<1> DEFINE m == MissingBack(d, n)
           wish == Map!SizeOf(d.map) + m
           room == ReserveMapBack(d, wish)
           q == n - (BackFreeCapacity(d) + SizeOf(d))
<1>0. Shaped(d) /\ Owned(d, kept)
  BY DEF Good
<1>1. BackFreeCapacity(d) \in Nat /\ SizeOf(d) \in Nat
  BY <1>0, FreeCells, SizeIs
<1>2. q \in Nat
  BY <1>1 DEF ReserveBackSuffices
<1>3. m \in Nat
  BY <1>2, SegmentCountIs DEF MissingBack
<1> HIDE DEF m, q
<1>5. /\ d.map.front \in Nat /\ d.map.back \in Nat /\ d.map.front =< d.map.back
      /\ Map!SizeOf(d.map) = d.map.back - d.map.front /\ wish \in Nat
  <2>1. /\ d.map.front \in Nat /\ d.map.back \in Nat /\ d.map.front =< d.map.back
        /\ Map!SizeOf(d.map) = d.map.back - d.map.front
    BY <1>0, MapFacts DEF Shaped
  <2> QED
    BY <1>3, <2>1
<1>6. ASSUME NEW k \in 0 .. m, NEW e \in ReserveBackSteps(d, n)[k]
      PROVE  /\ Good(e, kept, m0) /\ Grown(d, e, 0, 0)
             /\ FreeInFront(e) = FreeInFront(d)
  <2>1. Map!ReserveBackOk(d.map, wish)
    <3> SUFFICES ASSUME ~Map!ReserveBackOk(d.map, wish) PROVE FALSE
      OBVIOUS
    <3>1. ReserveBackSteps(d, n) = [j \in 0 .. m |-> {}]
      BY DEF ReserveBackSteps, m
    <3> QED
      BY <1>6, <3>1
  <2>2. ReserveBackSteps(d, n) = WithSegmentsBack(room, m)
    BY <2>1 DEF ReserveBackSteps, m
  <2>3. /\ Good(room, kept, m0) /\ room.map.cap - room.map.front >= wish
        /\ room.map.front = d.map.front /\ room.map.back = d.map.back
        /\ Grown(d, room, 0, 0) /\ FreeInFront(room) = FreeInFront(d)
    BY <1>5, <2>1, ReserveMapBackGood
  <2> HIDE DEF room
  <2>4. Shaped(room) /\ room.map.cap \in Nat
    BY <2>3, ShapedNumbers DEF Good
  <2>5. m =< room.map.cap - room.map.back
    BY <1>3, <1>5, <2>3, <2>4
  <2>6. /\ Good(e, kept, m0) /\ Grown(room, e, 0, 0)
        /\ FreeInFront(e) = FreeInFront(room)
    BY <1>3, <1>6, <2>2, <2>3, <2>5, SegmentsBackGood
  <2>7. Grown(d, e, 0 + 0, 0 + 0)
    BY <1>0, <2>3, <2>4, <2>6, GrownTwice DEF Good
  <2> QED
    BY <2>3, <2>6, <2>7
<1> QED
  BY <1>3, <1>6 DEF m

LEMMA ReserveBackGood ==
  ASSUME NEW d, NEW kept, NEW m0, Good(d, kept, m0), NEW n \in Nat,
         NEW e \in ReserveBack(d, n) \cup ReserveBackThrew(d, n)
  PROVE  Good(e, kept, m0) /\ Grown(d, e, 0, 0) /\ FreeInFront(e) = FreeInFront(d)
<1>0. Shaped(d)
  BY DEF Good
<1>1. CASE e = d
  BY <1>0, <1>1, GrownNone
<1>2. CASE e # d
  <2> DEFINE m == MissingBack(d, n)
  <2>1. ~ReserveBackSuffices(d, n)
    BY <1>2 DEF ReserveBack, ReserveBackThrew
  <2>2. /\ m \in Nat
        /\ \A j \in 0 .. m : \A h \in ReserveBackSteps(d, n)[j] :
             /\ Good(h, kept, m0) /\ Grown(d, h, 0, 0)
             /\ FreeInFront(h) = FreeInFront(d)
    BY <2>1, ReserveBackStepsGood
  <2>3. \E k \in 0 .. m : e \in ReserveBackSteps(d, n)[k]
    <3>1. CASE e \in ReserveBack(d, n)
      <4>1. e \in ReserveBackSteps(d, n)[m]
        BY <2>1, <3>1 DEF ReserveBack
      <4>2. m \in 0 .. m
        BY <2>2
      <4> HIDE DEF m
      <4> QED
        BY <4>1, <4>2
    <3>2. CASE e \in ReserveBackThrew(d, n)
      <4>1. PICK k \in 0 .. m - 1 : e \in ReserveBackSteps(d, n)[k]
        BY <1>2, <2>1, <3>2 DEF ReserveBackThrew
      <4> HIDE DEF m
      <4>2. k \in 0 .. m
        BY <2>2
      <4> QED
        BY <4>1, <4>2
    <3> QED
      BY <3>1, <3>2
  <2> QED
    BY <2>2, <2>3
<1> QED
  BY <1>1, <1>2

-----------------------------------------------------------------------------
\* Elements taken from one end, and resize

\* An iterator that advance(n) leaves in the map is at the place n further on.
LEMMA AdvanceInside ==
  ASSUME NEW d, NEW kept, NEW m0, Good(d, kept, m0), Divides, NEW i \in Iterators,
         NEW n \in Int,
         d.map.front * SegmentSize =< Position(i), Position(i) =< d.map.back * SegmentSize,
         d.map.front * SegmentSize =< Position(i) + n,
         Position(i) + n =< d.map.back * SegmentSize
  PROVE  Advance(i, n) = Locate(Position(i) + n)
<1> DEFINE lo == d.map.front * SegmentSize
           hi == d.map.back * SegmentSize
           p == Position(i)
           slots == d.map.back - d.map.front
<1>0. Shaped(d) /\ Owned(d, kept)
  BY DEF Good
<1>1. /\ lo \in Int /\ hi \in Int /\ d.map.front \in Nat /\ d.map.back \in Nat
      /\ d.map.front =< d.map.back
  BY <1>0, ShapedNumbers
<1>2. p \in Int /\ i.index \in Int /\ 0 =< i.index /\ i.index < SegmentSize
  BY PositionLocates, SegmentAssumption DEF Iterators, Indices
<1>3. slots =< MaxSegments /\ slots \in Nat
  BY <1>0, <1>1, SegmentsFit
<1>4. hi - lo = slots * SegmentSize
  <2>1. d.map.back \in Int /\ d.map.front \in Int
    BY <1>1
  <2>2. (d.map.back - d.map.front) * SegmentSize = hi - lo
    BY <2>1, Distribute
  <2> QED
    BY <2>2
<1>5. /\ slots * SegmentSize =< SegmentSize * MaxSegments
      /\ slots > 0 => SegmentSize =< SegmentSize * MaxSegments
      /\ SegmentSize * MaxSegments \in Nat
  BY <1>3, SegmentAssumption, BatchAssumption, SMTT(30)
<1>6. /\ SegmentSize * MaxSegments < Word \div 2 /\ Word \in Nat
      /\ 2 * SegmentSize =< Word /\ SegmentSize \in Nat
  BY SegmentAssumption, BatchAssumption
<1>7. n =< slots * SegmentSize /\ slots * SegmentSize \in Int
  <2> DEFINE x == slots * SegmentSize
  <2>1. x = hi - lo
    BY <1>4
  <2> HIDE DEF x, lo, hi, slots, p
  <2>2. n =< x /\ x \in Int
    BY <1>1, <1>2, <2>1 DEF lo, hi, p
  <2> QED
    BY <2>2 DEF x
<1>8. i.index + n < Word
  <2> DEFINE x == slots * SegmentSize
             y == SegmentSize * MaxSegments
  <2>1. /\ n =< x /\ x =< y /\ y < Word \div 2 /\ x \in Int /\ y \in Int
        /\ (slots > 0 => SegmentSize =< y) /\ (slots = 0 => x = 0)
    BY <1>3, <1>5, <1>6, <1>7, SegmentAssumption
  <2> HIDE DEF x, y, slots
  <2> QED
    BY <1>2, <1>3, <1>6, <2>1
<1> QED
  BY <1>8, AdvanceIs

\* A deque with other iterators.
LEMMA WithBegin ==
  ASSUME NEW d, IsDeque(d), NEW b, NEW e, e = [d EXCEPT !.begin = b]
  PROVE  /\ IsDeque(e) /\ e.map = d.map /\ e.allocated = d.allocated
         /\ e.mem = d.mem /\ e.begin = b /\ e.end = d.end
<1>1. \E m, al, mm, i, j : d = [map |-> m, allocated |-> al, mem |-> mm,
                              begin |-> i, end |-> j]
  BY DEF IsDeque
<1> QED
  BY <1>1 DEF IsDeque

LEMMA WithEnd ==
  ASSUME NEW d, IsDeque(d), NEW t, NEW e, e = [d EXCEPT !.end = t]
  PROVE  /\ IsDeque(e) /\ e.map = d.map /\ e.allocated = d.allocated
         /\ e.mem = d.mem /\ e.begin = d.begin /\ e.end = t
<1>1. \E m, al, mm, i, j : d = [map |-> m, allocated |-> al, mem |-> mm,
                              begin |-> i, end |-> j]
  BY DEF IsDeque
<1> QED
  BY <1>1 DEF IsDeque

\* Elements at one end are destroyed, and begin or end is moved behind or before them.
LEMMA TrimmedGood ==
  ASSUME NEW d, NEW kept, NEW m0, Good(d, kept, m0), NEW lo \in Int, NEW hi \in Int,
         NEW e, IsDeque(e), e.map = d.map, e.allocated = d.allocated,
         e.mem = Destroy(d, lo, hi).mem, NEW b \in Int, NEW t \in Int,
         e.begin = Locate(b), e.end = Locate(t),
         d.map.front * SegmentSize =< b, b =< t, t =< d.map.back * SegmentSize,
         \A p \in Int : b =< p /\ p < t <=>
                        First(d) =< p /\ p < Past(d) /\ ~(lo =< p /\ p < hi)
  PROVE  Good(e, kept, m0) /\ First(e) = b /\ Past(e) = t
<1> DEFINE f == [p \in lo .. hi - 1 |-> Raw]
<1>1. \A p \in Int : p \in DOMAIN f <=> lo =< p /\ p < hi
  OBVIOUS
<1>2. \A p \in DOMAIN f : f[p] = Raw /\ f[p] \in Slot /\ p \in Int
  BY DEF Slot
<1>3. e.mem = Store(d, f).mem
  BY DEF Destroy
<1> HIDE DEF f
<1>4. \A p \in b .. t - 1 :
        IF p \in DOMAIN f THEN f[p] # Raw ELSE First(d) =< p /\ p < Past(d)
  BY <1>1
<1>5. \A p \in Int : IF p \in DOMAIN f THEN f[p] # Raw => b =< p /\ p < t
                     ELSE First(d) =< p /\ p < Past(d) => b =< p /\ p < t
  BY <1>1, <1>2
<1> QED
  BY <1>2, <1>3, <1>4, <1>5, StoredGood

\* Destroying leaves everything else.
LEMMA DestroyIs ==
  ASSUME NEW d, NEW kept, NEW m0, Good(d, kept, m0), NEW lo, NEW hi
  PROVE  LET e == Destroy(d, lo, hi)
         IN  /\ IsDeque(e) /\ e.map = d.map /\ e.allocated = d.allocated
             /\ e.begin = d.begin /\ e.end = d.end
<1> DEFINE f == [p \in lo .. hi - 1 |-> Raw]
<1>1. \A p \in DOMAIN f : f[p] \in Slot
  BY DEF Slot
<1>2. Destroy(d, lo, hi) = Store(d, f)
  BY DEF Destroy
<1> HIDE DEF f
<1> QED
  BY <1>1, <1>2, StoreIs DEF Good

\* What holds after begin and end were moved in the map.
MovedTo(d, e, kept, m0, b, t) ==
  /\ Good(e, kept, m0) /\ First(e) = b /\ Past(e) = t /\ e.map = d.map

LEMMA EraseAtBeginGood ==
  ASSUME NEW d, NEW kept, NEW m0, Good(d, kept, m0), Divides,
         NEW n \in Nat, n =< SizeOf(d)
  PROVE  MovedTo(d, EraseAtBegin(d, n), kept, m0, First(d) + n, Past(d))
<1> DEFINE lo == d.map.front * SegmentSize
           hi == d.map.back * SegmentSize
           b == First(d) + n
           s == Destroy(d, First(d), b)
           e == EraseAtBegin(d, n)
<1>0. Shaped(d) /\ Owned(d, kept)
  BY DEF Good
<1>1. /\ lo \in Int /\ hi \in Int /\ First(d) \in Int /\ Past(d) \in Int
      /\ lo =< First(d) /\ First(d) =< Past(d) /\ Past(d) =< hi
      /\ d.begin \in Iterators /\ Locate(Past(d)) = d.end
  BY <1>0, ShapedNumbers DEF Shaped, Bounded
<1>2. SizeOf(d) = Past(d) - First(d)
  BY <1>0, SizeIs
<1>3. b \in Int /\ lo =< b /\ b =< Past(d) /\ b =< hi
  BY <1>1, <1>2
<1>4. Advance(d.begin, n) = Locate(b)
  <2>1. n \in Int
    OBVIOUS
  <2> QED
    BY <1>1, <1>3, <2>1, AdvanceInside DEF First
<1>5. /\ IsDeque(s) /\ s.map = d.map /\ s.allocated = d.allocated
      /\ s.begin = d.begin /\ s.end = d.end
  BY DestroyIs
<1>6. e = [s EXCEPT !.begin = Locate(b)]
  <2>1. e = [s EXCEPT !.begin = Advance(@, n)]
    BY DEF EraseAtBegin
  <2> HIDE DEF s, e
  <2> QED
    BY <1>4, <1>5, <2>1
<1> HIDE DEF e
<1>7. /\ IsDeque(e) /\ e.map = d.map /\ e.allocated = d.allocated
      /\ e.mem = s.mem /\ e.begin = Locate(b) /\ e.end = Locate(Past(d))
  <2> HIDE DEF s
  <2> QED
    BY <1>1, <1>5, <1>6, WithBegin
<1>8. \A p \in Int : b =< p /\ p < Past(d) <=>
        First(d) =< p /\ p < Past(d) /\ ~(First(d) =< p /\ p < b)
  BY <1>1, <1>3
<1>9. Good(e, kept, m0) /\ First(e) = b /\ Past(e) = Past(d)
  <2> HIDE DEF b, lo, hi
  <2> QED
    BY <1>1, <1>3, <1>7, <1>8, TrimmedGood DEF lo, hi
<1> QED
  BY <1>7, <1>9 DEF MovedTo, e

LEMMA EraseAtEndGood ==
  ASSUME NEW d, NEW kept, NEW m0, Good(d, kept, m0), Divides,
         NEW n \in Nat, n =< SizeOf(d)
  PROVE  MovedTo(d, EraseAtEnd(d, n), kept, m0, First(d), First(d) + n)
<1> DEFINE lo == d.map.front * SegmentSize
           hi == d.map.back * SegmentSize
           t == First(d) + n
           s == Destroy(d, t, Past(d))
           e == EraseAtEnd(d, n)
<1>0. Shaped(d) /\ Owned(d, kept)
  BY DEF Good
<1>1. /\ lo \in Int /\ hi \in Int /\ First(d) \in Int /\ Past(d) \in Int
      /\ lo =< First(d) /\ First(d) =< Past(d) /\ Past(d) =< hi
      /\ d.begin \in Iterators /\ Locate(First(d)) = d.begin
  BY <1>0, ShapedNumbers DEF Shaped, Bounded
<1>2. SizeOf(d) = Past(d) - First(d)
  BY <1>0, SizeIs
<1>3. t \in Int /\ lo =< t /\ t =< Past(d) /\ t =< hi /\ First(d) =< t
  BY <1>1, <1>2
<1>4. Advance(d.begin, n) = Locate(t)
  <2>1. n \in Int
    OBVIOUS
  <2> QED
    BY <1>1, <1>3, <2>1, AdvanceInside DEF First
<1>5. /\ IsDeque(s) /\ s.map = d.map /\ s.allocated = d.allocated
      /\ s.begin = d.begin /\ s.end = d.end
  BY DestroyIs
<1>6. e = [s EXCEPT !.end = Locate(t)]
  <2>1. e = [s EXCEPT !.end = Advance(d.begin, n)]
    BY DEF EraseAtEnd
  <2> HIDE DEF s, e
  <2> QED
    BY <1>4, <1>5, <2>1
<1> HIDE DEF e
<1>7. /\ IsDeque(e) /\ e.map = d.map /\ e.allocated = d.allocated
      /\ e.mem = s.mem /\ e.begin = Locate(First(d)) /\ e.end = Locate(t)
  <2> HIDE DEF s
  <2> QED
    BY <1>1, <1>5, <1>6, WithEnd
<1>8. \A p \in Int : First(d) =< p /\ p < t <=>
        First(d) =< p /\ p < Past(d) /\ ~(t =< p /\ p < Past(d))
  BY <1>1, <1>3
<1>9. Good(e, kept, m0) /\ First(e) = First(d) /\ Past(e) = t
  <2> HIDE DEF t, lo, hi
  <2> QED
    BY <1>1, <1>3, <1>7, <1>8, TrimmedGood DEF lo, hi
<1> QED
  BY <1>7, <1>9 DEF MovedTo, e

LEMMA NotEmpty ==
  ASSUME NEW d, Shaped(d), d.begin # d.end
  PROVE  First(d) < Past(d)
  BY ShapedNumbers DEF Shaped, Bounded

LEMMA PopFrontGood ==
  ASSUME NEW d, NEW kept, NEW m0, Good(d, kept, m0), d.begin # d.end
  PROVE  MovedTo(d, PopFront(d), kept, m0, First(d) + 1, Past(d))
<1> DEFINE lo == d.map.front * SegmentSize
           hi == d.map.back * SegmentSize
           b == First(d) + 1
           s == Destroy(d, First(d), b)
           e == PopFront(d)
<1>0. Shaped(d) /\ Owned(d, kept)
  BY DEF Good
<1>1. /\ lo \in Int /\ hi \in Int /\ First(d) \in Int /\ Past(d) \in Int
      /\ lo =< First(d) /\ First(d) < Past(d) /\ Past(d) =< hi
      /\ d.begin \in Iterators /\ Locate(Past(d)) = d.end
  BY <1>0, ShapedNumbers, NotEmpty DEF Shaped, Bounded
<1>3. b \in Int /\ lo =< b /\ b =< Past(d) /\ b =< hi
  BY <1>1
<1>4. Increment(d.begin) = Locate(b)
  BY <1>1, IncrementIs DEF First
<1>5. /\ IsDeque(s) /\ s.map = d.map /\ s.allocated = d.allocated
      /\ s.begin = d.begin /\ s.end = d.end
  BY DestroyIs
<1>6. e = [s EXCEPT !.begin = Locate(b)]
  <2>1. e = [s EXCEPT !.begin = Increment(@)]
    BY DEF PopFront
  <2> HIDE DEF s, e
  <2> QED
    BY <1>4, <1>5, <2>1
<1> HIDE DEF e
<1>7. /\ IsDeque(e) /\ e.map = d.map /\ e.allocated = d.allocated
      /\ e.mem = s.mem /\ e.begin = Locate(b) /\ e.end = Locate(Past(d))
  <2> HIDE DEF s
  <2> QED
    BY <1>1, <1>5, <1>6, WithBegin
<1>8. \A p \in Int : b =< p /\ p < Past(d) <=>
        First(d) =< p /\ p < Past(d) /\ ~(First(d) =< p /\ p < b)
  BY <1>1, <1>3
<1>9. Good(e, kept, m0) /\ First(e) = b /\ Past(e) = Past(d)
  <2> HIDE DEF b, lo, hi
  <2> QED
    BY <1>1, <1>3, <1>7, <1>8, TrimmedGood DEF lo, hi
<1> QED
  BY <1>7, <1>9 DEF MovedTo, e

LEMMA PopBackGood ==
  ASSUME NEW d, NEW kept, NEW m0, Good(d, kept, m0), d.begin # d.end
  PROVE  MovedTo(d, PopBack(d), kept, m0, First(d), Past(d) - 1)
<1> DEFINE lo == d.map.front * SegmentSize
           hi == d.map.back * SegmentSize
           t == Past(d) - 1
           s == Destroy(d, t, Past(d))
           e == PopBack(d)
<1>0. Shaped(d) /\ Owned(d, kept)
  BY DEF Good
<1>1. /\ lo \in Int /\ hi \in Int /\ First(d) \in Int /\ Past(d) \in Int
      /\ lo =< First(d) /\ First(d) < Past(d) /\ Past(d) =< hi
      /\ d.end \in Iterators /\ Locate(First(d)) = d.begin
  BY <1>0, ShapedNumbers, NotEmpty DEF Shaped, Bounded
<1>3. t \in Int /\ lo =< t /\ t =< Past(d) /\ t =< hi /\ First(d) =< t
  BY <1>1
<1>4. Decrement(d.end) = Locate(t)
  BY <1>1, DecrementIs DEF Past
<1>5. /\ IsDeque(s) /\ s.map = d.map /\ s.allocated = d.allocated
      /\ s.begin = d.begin /\ s.end = d.end
  BY DestroyIs
<1>6. e = [s EXCEPT !.end = Locate(t)]
  <2>1. e = [s EXCEPT !.end = Decrement(@)]
    BY DEF PopBack
  <2> HIDE DEF s, e
  <2> QED
    BY <1>4, <1>5, <2>1
<1> HIDE DEF e
<1>7. /\ IsDeque(e) /\ e.map = d.map /\ e.allocated = d.allocated
      /\ e.mem = s.mem /\ e.begin = Locate(First(d)) /\ e.end = Locate(t)
  <2> HIDE DEF s
  <2> QED
    BY <1>1, <1>5, <1>6, WithEnd
<1>8. \A p \in Int : First(d) =< p /\ p < t <=>
        First(d) =< p /\ p < Past(d) /\ ~(t =< p /\ p < Past(d))
  BY <1>1, <1>3
<1>9. Good(e, kept, m0) /\ First(e) = First(d) /\ Past(e) = t
  <2> HIDE DEF t, lo, hi
  <2> QED
    BY <1>1, <1>3, <1>7, <1>8, TrimmedGood DEF lo, hi
<1> QED
  BY <1>7, <1>9 DEF MovedTo, e

LEMMA ClearGood ==
  ASSUME NEW d, NEW kept, NEW m0, Good(d, kept, m0)
  PROVE  MovedTo(d, Clear(d), kept, m0, d.map.front * SegmentSize,
                 d.map.front * SegmentSize)
<1> DEFINE lo == d.map.front * SegmentSize
           hi == d.map.back * SegmentSize
           s == Destroy(d, First(d), Past(d))
           i == It(d.map.front, 0)
           e == Clear(d)
<1>0. Shaped(d) /\ Owned(d, kept)
  BY DEF Good
<1>1. /\ lo \in Int /\ hi \in Int /\ First(d) \in Int /\ Past(d) \in Int
      /\ lo =< First(d) /\ First(d) =< Past(d) /\ Past(d) =< hi
      /\ d.map.front \in Int
  BY <1>0, ShapedNumbers DEF Shaped, Bounded
<1>2. i = Locate(lo)
  <2>1. 0 \in Indices
    BY SegmentAssumption DEF Indices
  <2>2. Locate(lo + 0) = i
    BY <1>1, <2>1, LocatePlace
  <2> QED
    BY <1>1, <2>2
<1>5. /\ IsDeque(s) /\ s.map = d.map /\ s.allocated = d.allocated
      /\ s.begin = d.begin /\ s.end = d.end
  BY DestroyIs
<1>6. e = [s EXCEPT !.begin = i, !.end = i]
  BY DEF Clear
<1> HIDE DEF e, i
<1>7. /\ IsDeque(e) /\ e.map = d.map /\ e.allocated = d.allocated
      /\ e.mem = s.mem /\ e.begin = i /\ e.end = i
  <2> HIDE DEF s
  <2>1. \E m, al, mm, b, t : s = [map |-> m, allocated |-> al, mem |-> mm,
                                 begin |-> b, end |-> t]
    BY <1>5 DEF IsDeque
  <2> QED
    BY <1>5, <1>6, <2>1 DEF IsDeque
<1>8. \A p \in Int : lo =< p /\ p < lo <=>
        First(d) =< p /\ p < Past(d) /\ ~(First(d) =< p /\ p < Past(d))
  BY <1>1
<1>9. Good(e, kept, m0) /\ First(e) = lo /\ Past(e) = lo
  <2> HIDE DEF lo, hi
  <2>1. /\ lo \in Int /\ d.map.front * SegmentSize =< lo /\ lo =< lo
        /\ lo =< d.map.back * SegmentSize
    BY <1>1 DEF lo, hi
  <2> QED
    BY <1>1, <1>2, <1>7, <1>8, <2>1, TrimmedGood
<1> QED
  BY <1>7, <1>9 DEF MovedTo, e

\* A throw during the pushes of a range leaves the elements pushed before it.
LEMMA PushFrontThrewGood ==
  ASSUME NEW d, NEW kept, NEW m0, Good(d, kept, m0), Divides, NEW xs \in Seq(Object),
         NEW e \in PushFrontThrew(d, xs)
  PROVE  \E k \in 0 .. Len(xs) :
           /\ Good(e, kept, m0) /\ Grown(d, e, k, 0)
           /\ FreeInFront(e) + k >= FreeInFront(d)
<1>1. PICK k \in 0 .. Len(xs) - 1 :
         \E h \in PushFront(d, xs)[k] : e \in EmplaceFrontThrew(h)
  BY DEF PushFrontThrew
<1>2. PICK h \in PushFront(d, xs)[k] : e \in EmplaceFrontThrew(h)
  BY <1>1
<1>3. k \in 0 .. Len(xs) /\ k \in Nat
  OBVIOUS
<1>4. Good(h, kept, m0) /\ Grown(d, h, k, 0) /\ FreeInFront(h) + k >= FreeInFront(d)
  BY <1>3, PushFrontGood
<1>5. Good(e, kept, m0) /\ Grown(h, e, 0, 0) /\ FreeInFront(e) = FreeInFront(h)
  BY <1>2, <1>4, EmplaceFrontThrewGood
<1>6. Grown(d, e, k + 0, 0 + 0)
  BY <1>3, <1>4, <1>5, GrownTwice DEF Good
<1>7. k + 0 = k /\ 0 + 0 = 0
  BY <1>3
<1> QED
  BY <1>3, <1>4, <1>5, <1>6, <1>7

LEMMA PushBackThrewGood ==
  ASSUME NEW d, NEW kept, NEW m0, Good(d, kept, m0), NEW xs \in Seq(Object),
         NEW e \in PushBackThrew(d, xs)
  PROVE  \E k \in 0 .. Len(xs) :
           /\ Good(e, kept, m0) /\ Grown(d, e, 0, k)
           /\ FreeInFront(e) = FreeInFront(d)
<1>1. PICK k \in 0 .. Len(xs) - 1 : \E h \in PushBack(d, xs)[k] : e \in EmplaceBackThrew(h)
  BY DEF PushBackThrew
<1>2. PICK h \in PushBack(d, xs)[k] : e \in EmplaceBackThrew(h)
  BY <1>1
<1>3. k \in 0 .. Len(xs) /\ k \in Nat
  OBVIOUS
<1>4. Good(h, kept, m0) /\ Grown(d, h, 0, k) /\ FreeInFront(h) = FreeInFront(d)
  BY <1>3, PushBackGood
<1>5. Good(e, kept, m0) /\ Grown(h, e, 0, 0) /\ FreeInFront(e) = FreeInFront(h)
  BY <1>2, <1>4, EmplaceBackThrewGood
<1>6. Grown(d, e, 0 + 0, k + 0)
  BY <1>3, <1>4, <1>5, GrownTwice DEF Good
<1>7. k + 0 = k /\ 0 + 0 = 0
  BY <1>3
<1> QED
  BY <1>3, <1>4, <1>5, <1>6, <1>7

LEMMA CopiesAre ==
  ASSUME NEW n \in Nat, NEW x \in Object
  PROVE  Copies(n, x) \in Seq(Object) /\ Len(Copies(n, x)) = n
  BY DEF Copies

\* e has at least as many cells in front and elements, together, as d.
FrontKept(d, e) ==
  /\ SizeOf(e) \in Nat /\ FreeInFront(e) \in Nat
  /\ FreeInFront(e) + SizeOf(e) >= FreeInFront(d) + SizeOf(d)

\* The numbers of a good deque.
LEMMA GoodNumbers ==
  ASSUME NEW d, NEW kept, NEW m0, Good(d, kept, m0)
  PROVE  /\ Shaped(d) /\ First(d) \in Int /\ Past(d) \in Int
         /\ SizeOf(d) = Past(d) - First(d) /\ SizeOf(d) \in Nat
         /\ FreeInFront(d) \in Nat /\ d.map.front * SegmentSize \in Int
         /\ FreeInFront(d) = First(d) - d.map.front * SegmentSize
  BY ShapedNumbers, SizeIs, FreeCells DEF Good, FreeInFront

\* What growing does to the number of elements.
LEMMA GrownSizeOf ==
  ASSUME NEW d, NEW kept, NEW m0, Good(d, kept, m0), NEW e, Good(e, kept, m0),
         NEW f \in Nat, NEW b \in Nat, Grown(d, e, f, b)
  PROVE  SizeOf(e) = SizeOf(d) + f + b
<1>1. Past(e) - First(e) = Past(d) - First(d) + f + b
  BY GrownSize DEF Good
<1>2. SizeOf(e) = Past(e) - First(e) /\ SizeOf(d) = Past(d) - First(d)
  BY GoodNumbers
<1> QED
  BY <1>1, <1>2

\* resize_front, whether it returns or throws.
LEMMA ResizeFrontGood ==
  ASSUME NEW d, NEW kept, NEW m0, Good(d, kept, m0), Divides, NEW sz \in Nat,
         NEW x \in Object, NEW e \in ResizeFront(d, sz, x)
  PROVE  Good(e, kept, m0) /\ FrontKept(d, e)
<1>0. SizeOf(d) \in Nat /\ First(d) \in Int /\ Past(d) \in Int /\ FreeInFront(d) \in Nat
      /\ SizeOf(d) = Past(d) - First(d)
      /\ FreeInFront(d) = First(d) - d.map.front * SegmentSize
  BY GoodNumbers
<1>1. CASE sz >= SizeOf(d)
  <2> DEFINE n == sz - SizeOf(d)
  <2>1. n \in Nat /\ e \in PushFront(d, Copies(n, x))[n]
    BY <1>0, <1>1 DEF ResizeFront
  <2> HIDE DEF n
  <2>2. Copies(n, x) \in Seq(Object) /\ n \in 0 .. Len(Copies(n, x))
    BY <2>1, CopiesAre
  <2>3. Good(e, kept, m0) /\ Grown(d, e, n, 0) /\ FreeInFront(e) + n >= FreeInFront(d)
    BY <2>1, <2>2, PushFrontGood
  <2>4. SizeOf(e) = SizeOf(d) + n + 0
    BY <2>1, <2>3, GrownSizeOf
  <2>5. SizeOf(e) \in Nat /\ FreeInFront(e) \in Nat
    BY <2>3, GoodNumbers
  <2> QED
    BY <1>0, <2>1, <2>3, <2>4, <2>5 DEF FrontKept
<1>2. CASE ~(sz >= SizeOf(d))
  <2> DEFINE n == SizeOf(d) - sz
  <2>1. n \in Nat /\ n =< SizeOf(d) /\ e = EraseAtBegin(d, n)
    BY <1>0, <1>2 DEF ResizeFront
  <2> HIDE DEF n
  <2>2. MovedTo(d, e, kept, m0, First(d) + n, Past(d))
    BY <2>1, EraseAtBeginGood
  <2>3. Good(e, kept, m0) /\ First(e) = First(d) + n /\ Past(e) = Past(d) /\ e.map = d.map
    BY <2>2 DEF MovedTo
  <2>4. /\ SizeOf(e) = Past(e) - First(e) /\ SizeOf(e) \in Nat /\ FreeInFront(e) \in Nat
        /\ FreeInFront(e) = First(e) - d.map.front * SegmentSize
    BY <2>3, GoodNumbers
  <2>5. d.map.front * SegmentSize \in Int
    BY GoodNumbers
  <2> DEFINE z == d.map.front * SegmentSize
  <2>6. FreeInFront(e) + SizeOf(e) = FreeInFront(d) + SizeOf(d)
    <3>1. /\ FreeInFront(e) = First(e) - z /\ FreeInFront(d) = First(d) - z /\ z \in Int
      BY <1>0, <2>4, <2>5
    <3> HIDE DEF z
    <3> QED
      BY <1>0, <2>1, <2>3, <2>4, <3>1
  <2> QED
    BY <1>0, <2>3, <2>4, <2>6 DEF FrontKept
<1> QED
  BY <1>1, <1>2

LEMMA ResizeFrontThrewGood ==
  ASSUME NEW d, NEW kept, NEW m0, Good(d, kept, m0), Divides, NEW sz \in Nat,
         sz > SizeOf(d), NEW x \in Object, NEW e \in ResizeFrontThrew(d, sz, x)
  PROVE  Good(e, kept, m0) /\ SizeOf(e) = SizeOf(d) /\ FrontKept(d, e)
<1> DEFINE xs == Copies(sz - SizeOf(d), x)
<1>0. SizeOf(d) \in Nat /\ FreeInFront(d) \in Nat
  BY GoodNumbers
<1>1. xs \in Seq(Object)
  <2>1. sz - SizeOf(d) \in Nat
    BY <1>0
  <2> QED
    BY <2>1, CopiesAre
<1>2. PICK h \in PushFrontThrew(d, xs) : e = EraseAtBegin(h, SizeOf(h) - SizeOf(d))
  BY DEF ResizeFrontThrew
<1> HIDE DEF xs
<1>3. PICK k \in 0 .. Len(xs) : /\ Good(h, kept, m0) /\ Grown(d, h, k, 0)
                                /\ FreeInFront(h) + k >= FreeInFront(d)
  BY <1>1, PushFrontThrewGood
<1>4. k \in Nat
  OBVIOUS
<1>5. SizeOf(h) = SizeOf(d) + k + 0
  BY <1>3, <1>4, GrownSizeOf
<1>6. SizeOf(h) - SizeOf(d) = k /\ k =< SizeOf(h)
  BY <1>0, <1>4, <1>5
<1>7. MovedTo(h, e, kept, m0, First(h) + k, Past(h))
  BY <1>2, <1>3, <1>4, <1>6, EraseAtBeginGood
<1>8. Good(e, kept, m0) /\ First(e) = First(h) + k /\ Past(e) = Past(h) /\ e.map = h.map
  BY <1>7 DEF MovedTo
<1> DEFINE z == h.map.front * SegmentSize
<1>9. /\ SizeOf(e) = Past(e) - First(e) /\ SizeOf(e) \in Nat /\ FreeInFront(e) \in Nat
      /\ FreeInFront(e) = First(e) - z
  BY <1>8, GoodNumbers
<1>10. /\ SizeOf(h) = Past(h) - First(h) /\ First(h) \in Int /\ Past(h) \in Int
       /\ FreeInFront(h) = First(h) - z /\ z \in Int
  BY <1>3, GoodNumbers
<1> HIDE DEF z
<1>11. SizeOf(e) = SizeOf(d)
  BY <1>0, <1>4, <1>5, <1>8, <1>9, <1>10, SMTT(30)
<1>12. FreeInFront(e) = FreeInFront(h) + k
  BY <1>4, <1>8, <1>9, <1>10
<1> QED
  BY <1>0, <1>3, <1>8, <1>9, <1>11, <1>12 DEF FrontKept

\* resize_back.
LEMMA ResizeBackGood ==
  ASSUME NEW d, NEW kept, NEW m0, Good(d, kept, m0), Divides, NEW sz \in Nat,
         NEW x \in Object, NEW e \in ResizeBack(d, sz, x)
  PROVE  Good(e, kept, m0) /\ FreeInFront(e) = FreeInFront(d)
<1>0. SizeOf(d) \in Nat
  BY GoodNumbers
<1>1. CASE sz >= SizeOf(d)
  <2> DEFINE n == sz - SizeOf(d)
  <2>1. n \in Nat /\ e \in PushBack(d, Copies(n, x))[n]
    BY <1>0, <1>1 DEF ResizeBack
  <2> HIDE DEF n
  <2>2. Copies(n, x) \in Seq(Object) /\ n \in 0 .. Len(Copies(n, x))
    BY <2>1, CopiesAre
  <2> QED
    BY <2>1, <2>2, PushBackGood
<1>2. CASE ~(sz >= SizeOf(d))
  <2>1. sz =< SizeOf(d) /\ e = EraseAtEnd(d, sz)
    BY <1>0, <1>2 DEF ResizeBack
  <2>2. MovedTo(d, e, kept, m0, First(d), First(d) + sz)
    BY <2>1, EraseAtEndGood
  <2> QED
    BY <2>2 DEF MovedTo, FreeInFront
<1> QED
  BY <1>1, <1>2

LEMMA ResizeBackThrewGood ==
  ASSUME NEW d, NEW kept, NEW m0, Good(d, kept, m0), Divides, NEW sz \in Nat,
         sz > SizeOf(d), NEW x \in Object, NEW e \in ResizeBackThrew(d, sz, x)
  PROVE  Good(e, kept, m0) /\ FreeInFront(e) = FreeInFront(d)
<1> DEFINE xs == Copies(sz - SizeOf(d), x)
           n == SizeOf(d)
<1>0. n \in Nat
  BY GoodNumbers
<1>1. xs \in Seq(Object)
  <2>1. sz - SizeOf(d) \in Nat
    BY <1>0
  <2> QED
    BY <2>1, CopiesAre
<1>2. PICK h \in PushBackThrew(d, xs) : e = EraseAtEnd(h, n)
  BY DEF ResizeBackThrew
<1> HIDE DEF xs
<1>3. PICK k \in 0 .. Len(xs) : /\ Good(h, kept, m0) /\ Grown(d, h, 0, k)
                                /\ FreeInFront(h) = FreeInFront(d)
  BY <1>1, PushBackThrewGood
<1>4. k \in Nat
  OBVIOUS
<1>5. SizeOf(h) = n + 0 + k
  BY <1>3, <1>4, GrownSizeOf
<1> HIDE DEF n
<1>6. n =< SizeOf(h)
  BY <1>0, <1>4, <1>5
<1>7. MovedTo(h, e, kept, m0, First(h), First(h) + n)
  BY <1>0, <1>2, <1>3, <1>6, EraseAtEndGood
<1> QED
  BY <1>3, <1>7 DEF MovedTo, FreeInFront

-----------------------------------------------------------------------------
\* Free segments given back: shrink_to_fit

\* Segments at the ends of the map, without elements, are taken out of it and freed.
Dropped(d, e) ==
  /\ IsDeque(e) /\ MapGood(e.map) /\ e.mem = d.mem
  /\ e.begin = d.begin /\ e.end = d.end
  /\ MapSlots(e) \subseteq MapSlots(d)
  /\ \A a \in MapSlots(e) : e.map.slots[a] = d.map.slots[a]
  /\ e.allocated = d.allocated \ {d.map.slots[a] : a \in MapSlots(d) \ MapSlots(e)}
  /\ e.map.front * SegmentSize =< First(d) /\ Past(d) =< e.map.back * SegmentSize

LEMMA DroppedGood ==
  ASSUME NEW d, NEW kept, NEW m0, Good(d, kept, m0), NEW e, Dropped(d, e)
  PROVE  Good(e, kept, m0) /\ First(e) = First(d) /\ Past(e) = Past(d)
<1> DEFINE r == e.map
<1>d. /\ IsDeque(e) /\ MapGood(r) /\ e.mem = d.mem
      /\ e.begin = d.begin /\ e.end = d.end /\ e.map = r
      /\ MapSlots(e) \subseteq MapSlots(d)
      /\ \A a \in MapSlots(e) : r.slots[a] = d.map.slots[a]
      /\ e.allocated = d.allocated \ {d.map.slots[a] : a \in MapSlots(d) \ MapSlots(e)}
      /\ r.front * SegmentSize =< First(d) /\ Past(d) =< r.back * SegmentSize
  BY DEF Dropped
<1> HIDE DEF r
<1>0. Shaped(d) /\ Owned(d, kept) /\ d.mem \in [Segments -> Segment]
      /\ d.allocated \subseteq Segments /\ First(d) =< Past(d)
  BY DEF Good, Shaped, DequeType, Bounded
<1>1. First(e) = First(d) /\ Past(e) = Past(d)
  BY <1>d DEF First, Past
<1>2. Shaped(e)
  <2>1. e.begin \in Iterators /\ e.end \in Iterators
    BY <1>d, <1>0, ShapedNumbers
  <2>2. Bounded(e)
    BY <1>d, <1>0, <1>1 DEF Bounded
  <2>3. e.allocated \subseteq Segments /\ e.mem \in [Segments -> Segment]
    BY <1>d, <1>0
  <2> QED
    BY <1>d, <2>1, <2>2, <2>3, ShapedIf
<1>3. \A a \in MapSlots(d), i \in Indices : Within(e, a, i) <=> Within(d, a, i)
  BY <1>1 DEF Within
<1>4. ASSUME NEW a \in MapSlots(d), NEW i \in Indices, Within(d, a, i)
      PROVE  a \in MapSlots(e)
  <2> DEFINE p == a * SegmentSize + i
             lo == r.front * SegmentSize
             hi == r.back * SegmentSize
  <2>1. a \in Int /\ p \in Int /\ First(d) =< p /\ p < Past(d) /\ First(d) \in Int
        /\ Past(d) \in Int
    BY <1>0, <1>4, PlaceInMap, ShapedNumbers DEF Within
  <2>2. r.front \in Int /\ r.back \in Int /\ lo \in Int /\ hi \in Int
    BY <1>d, <1>2, ShapedNumbers
  <2>3. /\ p < hi <=> a < r.back
        /\ lo =< p <=> r.front =< a
    BY <2>1, <2>2, PlaceOrder
  <2>4. lo =< First(d) /\ Past(d) =< hi
    BY <1>d
  <2> HIDE DEF p, lo, hi
  <2>5. r.front =< a /\ a < r.back
    BY <2>1, <2>2, <2>3, <2>4
  <2> QED
    BY <1>d, <2>1, <2>2, <2>5 DEF MapSlots
<1>5. Owned(e, kept)
  <2>1. kept \subseteq e.allocated
    BY <1>d, <1>0 DEF Owned
  <2>2. ASSUME NEW a \in MapSlots(e)
        PROVE  e.map.slots[a] \in e.allocated \ kept
    BY <1>d, <1>0 DEF Owned
  <2>3. ASSUME NEW s \in e.allocated \ kept
        PROVE  \E a \in MapSlots(e) : e.map.slots[a] = s
    BY <1>d, <1>0 DEF Owned
  <2>4. ASSUME NEW a \in MapSlots(e), NEW b \in MapSlots(e),
               e.map.slots[a] = e.map.slots[b]
        PROVE  a = b
    BY <1>d, <1>0, <2>4 DEF Owned
  <2> QED
    BY <2>1, <2>2, <2>3, <2>4 DEF Owned
<1>6. Filled(e)
  BY <1>d, <1>3 DEF Good, Filled
<1>7. \A t \in kept : e.mem[t] = m0[t]
  BY <1>d DEF Good
<1>8. ASSUME ~ShiftMayThrow PROVE Tidy(e)
  <2>1. Tidy(d)
    BY <1>8 DEF Good
  <2>2. ASSUME NEW a \in MapSlots(e), NEW i \in Indices,
               e.mem[e.map.slots[a]][i] # Raw
        PROVE  Within(e, a, i)
    BY <1>d, <1>3, <2>1, <2>2 DEF Tidy
  <2>3. ASSUME NEW t \in Segments \ e.allocated PROVE e.mem[t] = EmptySegment
    <3>1. CASE t \notin d.allocated
      BY <1>d, <2>1, <3>1 DEF Tidy
    <3>2. CASE t \in d.allocated
      <4>1. PICK a \in MapSlots(d) \ MapSlots(e) : t = d.map.slots[a]
        BY <1>d, <3>2
      <4>2. \A i \in Indices : d.mem[t][i] = Raw
        BY <1>d, <1>4, <2>1, <4>1 DEF Tidy
      <4>3. d.mem[t] \in [Indices -> Slot]
        BY <1>0 DEF Segment
      <4> QED
        BY <1>d, <4>2, <4>3 DEF EmptySegment
    <3> QED
      BY <3>1, <3>2
  <2> QED
    BY <1>d, <2>2, <2>3 DEF Tidy
<1> QED
  BY <1>1, <1>2, <1>5, <1>6, <1>7, <1>8 DEF Good

\* deallocate_segments of the last ones
LEMMA DeallocateSegmentsGood ==
  ASSUME NEW d, NEW kept, NEW m0, Good(d, kept, m0), NEW lo \in d.map.front .. d.map.back,
         Past(d) =< lo * SegmentSize
  PROVE  LET e == DeallocateSegments(d, lo, d.map.back)
         IN  /\ Good(e, kept, m0) /\ First(e) = First(d) /\ Past(e) = Past(d)
             /\ e.map.front = d.map.front /\ Dropped(d, e)
<1> DEFINE e == DeallocateSegments(d, lo, d.map.back)
           r == Map!EraseRange(d.map, lo, d.map.back)
           freed == {d.map.slots[a] : a \in lo .. d.map.back - 1}
<1>0. Shaped(d) /\ IsDeque(d) /\ MapGood(d.map)
  BY ShapedNumbers DEF Good, Shaped
<1>1. /\ d.map.front \in Nat /\ d.map.back \in Nat /\ lo \in Int
      /\ d.map.front =< lo /\ lo =< d.map.back
  BY <1>0, ShapedNumbers
<1>2. /\ MapGood(r) /\ r.front = d.map.front /\ r.back = lo
      /\ \A a \in d.map.front .. lo - 1 : r.slots[a] = d.map.slots[a]
  BY <1>0, MapEraseTail
<1>3. e = [d EXCEPT !.allocated = @ \ freed, !.map = Map!EraseRange(@, lo, d.map.back)]
  BY DEF DeallocateSegments
<1>4. /\ IsDeque(e) /\ e.map = r /\ e.mem = d.mem /\ e.begin = d.begin /\ e.end = d.end
      /\ e.allocated = d.allocated \ freed
  <2> HIDE DEF freed, e
  <2>1. PICK m, al, mm, b, t : d = [map |-> m, allocated |-> al, mem |-> mm,
                                   begin |-> b, end |-> t]
    BY <1>0 DEF IsDeque
  <2> DEFINE hi == d.map.back
  <2>2. e = [d EXCEPT !.allocated = @ \ freed, !.map = Map!EraseRange(@, lo, hi)]
    BY <1>3
  <2>3. r = Map!EraseRange(m, lo, hi)
    BY <2>1
  <2> HIDE DEF hi, r
  <2>4. e = [map |-> r, allocated |-> al \ freed, mem |-> mm, begin |-> b, end |-> t]
    BY <2>1, <2>2, <2>3
  <2> QED
    BY <2>1, <2>4 DEF IsDeque
<1>5. MapSlots(e) = d.map.front .. lo - 1
  BY <1>2, <1>4 DEF MapSlots
<1> HIDE DEF e, r
<1> DEFINE S == MapSlots(e)
           f == d.map.front
           b == d.map.back
<1>6. S \subseteq MapSlots(d) /\ MapSlots(d) \ S = lo .. b - 1
  <2>1. S = f .. lo - 1 /\ MapSlots(d) = f .. b - 1
    BY <1>5 DEF MapSlots
  <2>2. f \in Int /\ b \in Int /\ lo \in Int /\ f =< lo /\ lo =< b
    BY <1>1
  <2> HIDE DEF S, f, b
  <2> QED
    BY <2>1, <2>2
<1>7. MapSlots(e) \subseteq MapSlots(d) /\ MapSlots(d) \ MapSlots(e) = lo .. d.map.back - 1
  BY <1>6
<1>8. d.map.front * SegmentSize =< First(d)
  BY <1>0 DEF Shaped, Bounded
<1>9. /\ Good(e, kept, m0) /\ First(e) = First(d) /\ Past(e) = Past(d)
      /\ Dropped(d, e)
  <2>1. \A a \in MapSlots(e) : e.map.slots[a] = d.map.slots[a]
    BY <1>2, <1>4, <1>5
  <2>2. e.map.front * SegmentSize =< First(d) /\ Past(d) =< e.map.back * SegmentSize
    BY <1>2, <1>4, <1>8
  <2>3. e.allocated
          = d.allocated \ {d.map.slots[a] : a \in MapSlots(d) \ MapSlots(e)}
    BY <1>4, <1>7
  <2>4. Dropped(d, e)
    BY <1>2, <1>4, <1>7, <2>1, <2>2, <2>3 DEF Dropped
  <2> QED
    BY <2>4, DroppedGood
<1> QED
  BY <1>2, <1>4, <1>9 DEF e

\* shrink_to_fit
LEMMA ShrinkToFitGood ==
  ASSUME NEW d, NEW kept, NEW m0, Good(d, kept, m0)
  PROVE  /\ Good(ShrinkToFit(d), kept, m0)
         /\ First(ShrinkToFit(d)) = First(d) /\ Past(ShrinkToFit(d)) = Past(d)
         /\ \E e : Good(e, kept, m0) /\ Dropped(d, e) /\ Dropped(e, ShrinkToFit(d))
<1> DEFINE n == d.begin.at - d.map.front
           r == Map!PopFront(d.map, n)
           freed == {d.map.slots[a] : a \in d.map.front .. d.begin.at - 1}
           e == [d EXCEPT !.allocated = @ \ freed, !.map = Map!PopFront(@, n)]
           lo == SegmentEnd(d.end).at
           ba == d.begin.at
           ea == d.end.at
           bi == d.begin.index
           ei == d.end.index
<1>0. Shaped(d) /\ IsDeque(d) /\ MapGood(d.map)
  BY ShapedNumbers DEF Good, Shaped
<1>1. /\ d.map.front \in Nat /\ d.map.back \in Nat /\ d.map.front =< d.map.back
      /\ ba \in Int /\ ea \in Int /\ bi \in Indices /\ ei \in Indices
      /\ d.map.front =< ba /\ ea =< d.map.back /\ (ea = d.map.back => ei = 0)
  BY <1>0, ShapedNumbers, FreeCells
<1>2. /\ First(d) = ba * SegmentSize + bi /\ Past(d) = ea * SegmentSize + ei
      /\ First(d) =< Past(d) /\ First(d) \in Int /\ Past(d) \in Int
      /\ Past(d) =< d.map.back * SegmentSize
  BY <1>0, ShapedNumbers DEF First, Past, Position, Shaped, Bounded
<1>3. /\ lo = (IF ei > 0 THEN ea + 1 ELSE ea) /\ lo \in Int
      /\ 0 =< bi /\ 0 =< ei /\ bi \in Int /\ ei \in Int /\ ei < SegmentSize
      /\ lo =< d.map.back
  BY <1>1, SegmentAssumption DEF SegmentEnd, It, Indices
<1> HIDE DEF ba, ea, bi, ei, lo
<1> DEFINE x == ba * SegmentSize
           y == ea * SegmentSize
<1>4. x \in Int /\ y \in Int /\ (ea + 1) * SegmentSize = y + SegmentSize
      /\ SegmentSize \in Nat
  BY <1>1, Distribute, SegmentAssumption
<1>5. ba =< ea /\ ba =< lo
  <2>1. x =< y + ei <=> ba =< ea
    BY <1>1, PlaceOrder
  <2>2. First(d) = x + bi /\ Past(d) = y + ei
    BY <1>2
  <2> HIDE DEF x, y
  <2>3. ba =< ea
    BY <1>2, <1>3, <1>4, <2>1, <2>2
  <2> QED
    BY <1>1, <1>3, <2>3
<1>6. x =< First(d) /\ Past(d) =< lo * SegmentSize
  <2>1. First(d) = x + bi /\ Past(d) = y + ei
    BY <1>2
  <2>2. lo * SegmentSize = (IF ei > 0 THEN y + SegmentSize ELSE y)
    BY <1>3, <1>4
  <2> DEFINE w == lo * SegmentSize
  <2>3. w = (IF ei > 0 THEN y + SegmentSize ELSE y)
    BY <2>2
  <2> HIDE DEF x, y, w
  <2>4. x =< First(d) /\ Past(d) =< w
    BY <1>2, <1>3, <1>4, <2>1, <2>3
  <2> QED
    BY <2>4 DEF w
<1>7. n \in Nat /\ n = ba - d.map.front /\ d.map.front + n = ba /\ ba =< d.map.back
  <2>1. n = ba - d.map.front
    BY DEF ba
  <2> HIDE DEF n
  <2> QED
    BY <1>1, <1>5, <2>1
<1>8. /\ MapGood(r) /\ r.front = ba /\ r.back = d.map.back
      /\ \A a \in ba .. d.map.back - 1 : r.slots[a] = d.map.slots[a]
  <2> HIDE DEF n
  <2>1. d.map.front + n =< d.map.back
    BY <1>7
  <2>2. /\ MapGood(r) /\ r.front = d.map.front + n /\ r.back = d.map.back
        /\ \A a \in d.map.front + n .. d.map.back - 1 : r.slots[a] = d.map.slots[a]
    BY <1>0, <1>7, <2>1, MapPopFront
  <2> QED
    BY <1>7, <2>2
<1>9. /\ IsDeque(e) /\ e.map = r /\ e.mem = d.mem /\ e.begin = d.begin /\ e.end = d.end
      /\ e.allocated = d.allocated \ freed
  <2>2. e = [d EXCEPT !.allocated = @ \ freed, !.map = Map!PopFront(@, n)]
    OBVIOUS
  <2> HIDE DEF freed, n, e
  <2>1. PICK m, al, mm, b, t : d = [map |-> m, allocated |-> al, mem |-> mm,
                                   begin |-> b, end |-> t]
    BY <1>0 DEF IsDeque
  <2>3. r = Map!PopFront(m, n)
    BY <2>1
  <2> HIDE DEF r
  <2>4. e = [map |-> r, allocated |-> al \ freed, mem |-> mm, begin |-> b, end |-> t]
    BY <2>1, <2>2, <2>3
  <2> QED
    BY <2>1, <2>4 DEF IsDeque
<1>10. ShrinkToFit(d) = DeallocateSegments(e, lo, d.map.back)
  BY DEF ShrinkToFit, lo
<1>11. /\ Good(e, kept, m0) /\ First(e) = First(d) /\ Past(e) = Past(d)
       /\ Dropped(d, e)
  <2> HIDE DEF e, r, n
  <2>1. MapSlots(e) = ba .. d.map.back - 1 /\ MapSlots(e) \subseteq MapSlots(d)
    BY <1>1, <1>8, <1>9 DEF MapSlots
  <2>2. MapSlots(d) \ MapSlots(e) = d.map.front .. d.begin.at - 1
    <3>1. MapSlots(d) \ MapSlots(e) = d.map.front .. ba - 1
      <4> DEFINE S == MapSlots(e)
                 f == d.map.front
                 b == d.map.back
      <4>1. S = ba .. b - 1 /\ MapSlots(d) = f .. b - 1
        BY <2>1 DEF MapSlots
      <4>2. f \in Int /\ b \in Int /\ ba \in Int /\ f =< ba /\ ba =< b
        BY <1>1, <1>7
      <4> HIDE DEF S, f, b
      <4>3. MapSlots(d) \ S = f .. ba - 1
        BY <4>1, <4>2
      <4> QED
        BY <4>3 DEF S, f
    <3> QED
      BY <3>1 DEF ba
  <2>3. e.map.front * SegmentSize =< First(d) /\ Past(d) =< e.map.back * SegmentSize
    BY <1>2, <1>6, <1>8, <1>9
  <2>4. e.allocated
          = d.allocated \ {d.map.slots[a] : a \in MapSlots(d) \ MapSlots(e)}
    BY <1>9, <2>2
  <2>5. \A a \in MapSlots(e) : e.map.slots[a] = d.map.slots[a]
    BY <1>8, <1>9, <2>1
  <2>6. Dropped(d, e)
    BY <1>8, <1>9, <2>1, <2>3, <2>4, <2>5 DEF Dropped
  <2> QED
    BY <2>6, DroppedGood
<1> HIDE DEF e, r
<1>12. lo \in e.map.front .. e.map.back /\ e.map.back = d.map.back
  BY <1>1, <1>3, <1>5, <1>8, <1>9
<1>13. Past(e) =< lo * SegmentSize
  BY <1>6, <1>11
<1> QED
  BY <1>10, <1>11, <1>12, <1>13, DeallocateSegmentsGood

-----------------------------------------------------------------------------
\* Elements changed in place: rotations, emplace, insert, erase

\* Elements are given other values.
Rearranged(d, e, kept, m0) ==
  /\ Good(e, kept, m0) /\ First(e) = First(d) /\ Past(e) = Past(d)
  /\ IsDeque(e) /\ e.map = d.map

LEMMA RearrangedGood ==
  ASSUME NEW d, NEW kept, NEW m0, Good(d, kept, m0),
         NEW f, \A p \in DOMAIN f : p \in Int /\ First(d) =< p /\ p < Past(d)
                                     /\ f[p] \in Object
  PROVE  Rearranged(d, Store(d, f), kept, m0)
<1> DEFINE e == Store(d, f)
<1>0. Shaped(d) /\ Owned(d, kept) /\ First(d) \in Int /\ Past(d) \in Int
  BY GoodNumbers DEF Good
<1>1. /\ d.map.front * SegmentSize =< First(d) /\ First(d) =< Past(d)
      /\ Past(d) =< d.map.back * SegmentSize
      /\ Locate(First(d)) = d.begin /\ Locate(Past(d)) = d.end
  BY <1>0, ShapedNumbers DEF Shaped, Bounded
<1>2. \A p \in DOMAIN f : f[p] \in Slot /\ f[p] # Raw
  BY BatchAssumption DEF Object, Slot
<1>3. /\ IsDeque(e) /\ e.map = d.map /\ e.allocated = d.allocated
      /\ e.begin = d.begin /\ e.end = d.end
  BY <1>0, <1>2, StoreIs
<1>4. \A p \in First(d) .. Past(d) - 1 :
        IF p \in DOMAIN f THEN f[p] # Raw ELSE First(d) =< p /\ p < Past(d)
  BY <1>0, <1>2
<1>5. \A p \in Int : IF p \in DOMAIN f THEN f[p] # Raw => First(d) =< p /\ p < Past(d)
                     ELSE First(d) =< p /\ p < Past(d) => First(d) =< p /\ p < Past(d)
  OBVIOUS
<1>6. e.mem = Store(d, f).mem
  OBVIOUS
<1> HIDE DEF e
<1>7. Good(e, kept, m0) /\ First(e) = First(d) /\ Past(e) = Past(d)
  BY <1>0, <1>1, <1>2, <1>3, <1>4, <1>5, <1>6, StoredGood
<1> QED
  BY <1>3, <1>7 DEF Rearranged, e

\* std::rotate of a part of the elements, and what a throw in it leaves.
LEMMA RotateGood ==
  ASSUME NEW d, NEW kept, NEW m0, Good(d, kept, m0),
         NEW lo \in Int, NEW mid \in Int, NEW hi \in Int,
         First(d) =< lo, lo =< mid, mid =< hi, hi =< Past(d)
  PROVE  Rearranged(d, Rotate(d, lo, mid, hi), kept, m0)
<1> DEFINE f == [p \in lo .. hi - 1 |->
                   Cell(d, IF p + (mid - lo) < hi THEN p + (mid - lo)
                           ELSE p - (hi - mid))]
<1>0. Shaped(d) /\ Owned(d, kept) /\ Filled(d) /\ First(d) \in Int /\ Past(d) \in Int
  BY GoodNumbers DEF Good
<1>1. ASSUME NEW p \in lo .. hi - 1
      PROVE  p \in Int /\ First(d) =< p /\ p < Past(d) /\ f[p] \in Object
  <2> DEFINE q == IF p + (mid - lo) < hi THEN p + (mid - lo) ELSE p - (hi - mid)
  <2>1. q \in Int /\ First(d) =< q /\ q < Past(d)
    BY <1>0
  <2>2. f[p] = Cell(d, q)
    OBVIOUS
  <2> HIDE DEF q
  <2>3. Cell(d, q) \in Object
    BY <1>0, <2>1, ElementObject
  <2> QED
    BY <1>0, <2>2, <2>3
<1>2. Rotate(d, lo, mid, hi) = Store(d, f) /\ DOMAIN f = lo .. hi - 1
  BY DEF Rotate
<1> HIDE DEF f
<1> QED
  BY <1>1, <1>2, RearrangedGood

LEMMA ScrambleGood ==
  ASSUME NEW d, NEW kept, NEW m0, Good(d, kept, m0),
         NEW lo \in Int, NEW hi \in Int, First(d) =< lo, hi =< Past(d)
  PROVE  Rearranged(d, Scramble(d, lo, hi), kept, m0)
<1> DEFINE f == [p \in lo .. hi - 1 |-> Unspec]
<1>1. First(d) \in Int /\ Past(d) \in Int
  BY GoodNumbers
<1>2. /\ Scramble(d, lo, hi) = Store(d, f)
      /\ \A p \in DOMAIN f : p \in Int /\ First(d) =< p /\ p < Past(d) /\ f[p] \in Object
  BY <1>1 DEF Scramble, Object
<1> HIDE DEF f
<1> QED
  BY <1>2, RearrangedGood

\* std::move and std::move_backward within the elements.
LEMMA SlideGood ==
  ASSUME NEW d, NEW kept, NEW m0, Good(d, kept, m0),
         NEW lo \in Int, NEW hi \in Int, NEW at \in Int,
         First(d) =< lo, hi =< Past(d), First(d) =< at, at + (hi - lo) =< Past(d)
  PROVE  Rearranged(d, Slide(d, lo, hi, at), kept, m0)
<1> DEFINE f == [p \in (lo .. hi - 1) \cup (at .. at + (hi - lo) - 1) |->
                   IF at = lo THEN IF SelfMoveKeeps THEN Cell(d, p) ELSE Unspec
                   ELSE IF at =< p /\ p < at + (hi - lo) THEN Cell(d, p - at + lo)
                   ELSE Unspec]
<1>0. Shaped(d) /\ Owned(d, kept) /\ Filled(d) /\ First(d) \in Int /\ Past(d) \in Int
  BY GoodNumbers DEF Good
<1>1. ASSUME NEW p \in (lo .. hi - 1) \cup (at .. at + (hi - lo) - 1)
      PROVE  p \in Int /\ First(d) =< p /\ p < Past(d) /\ f[p] \in Object
  <2>1. p \in Int /\ First(d) =< p /\ p < Past(d)
    BY <1>0
  <2>2. Cell(d, p) \in Object
    BY <1>0, <2>1, ElementObject
  <2>3. Unspec \in Object
    BY DEF Object
  <2>4. ASSUME at =< p /\ p < at + (hi - lo) PROVE Cell(d, p - at + lo) \in Object
    <3> DEFINE q == p - at + lo
    <3>1. q \in Int /\ First(d) =< q /\ q < Past(d)
      BY <1>0, <2>1, <2>4
    <3> HIDE DEF q
    <3>2. Cell(d, q) \in Object
      BY <1>0, <3>1, ElementObject
    <3> QED
      BY <3>2 DEF q
  <2> QED
    BY <2>1, <2>2, <2>3, <2>4
<1>2. /\ Slide(d, lo, hi, at) = Store(d, f)
      /\ DOMAIN f = (lo .. hi - 1) \cup (at .. at + (hi - lo) - 1)
  BY DEF Slide
<1> HIDE DEF f
<1> QED
  BY <1>1, <1>2, RearrangedGood

LEMMA RearrangedIsGood ==
  ASSUME NEW d, NEW e, NEW kept, NEW m0, Rearranged(d, e, kept, m0)
  PROVE  Good(e, kept, m0)
  BY DEF Rearranged

\* emplace: one more element, rotated into place.
LEMMA EmplaceGood ==
  ASSUME NEW d, NEW kept, NEW m0, Good(d, kept, m0), Divides, NEW x \in Object,
         NEW index \in 0 .. SizeOf(d), EmplaceOk(d, index)
  PROVE  Good(Emplace(d, index, x), kept, m0)
<1>0. SizeOf(d) \in Nat /\ index \in Int
  BY GoodNumbers
<1>1. CASE EmplaceAtBack(d, index)
  <2> DEFINE e == EmplaceBack(d, x)
  <2>1. EmplaceBackOk(d)
    BY <1>1 DEF EmplaceOk
  <2>2. Good(e, kept, m0) /\ Grown(d, e, 0, 1)
    BY <2>1, EmplaceBackGood DEF PushedBack
  <2>3. CASE index = SizeOf(d)
    BY <2>2, <2>3 DEF Emplace
  <2>4. CASE index # SizeOf(d)
    <3>1. Emplace(d, index, x) = Rotate(e, First(e) + index, Past(e) - 1, Past(e))
      BY <1>0, <1>1, <2>4 DEF Emplace, EmplaceAtBack, EmplaceNearBack
    <3> HIDE DEF e
    <3>2. /\ SizeOf(e) = SizeOf(d) + 0 + 1 /\ SizeOf(e) = Past(e) - First(e)
          /\ First(e) \in Int /\ Past(e) \in Int
      BY <2>2, GrownSizeOf, GoodNumbers
    <3> DEFINE lo == First(e) + index
               mid == Past(e) - 1
               hi == Past(e)
    <3>3. /\ First(e) =< lo /\ lo =< mid /\ mid =< hi /\ hi =< Past(e)
          /\ lo \in Int /\ mid \in Int /\ hi \in Int
      BY <1>0, <3>2
    <3> HIDE DEF lo, mid, hi
    <3>4. Good(Rotate(e, lo, mid, hi), kept, m0)
      BY <2>2, <3>3, RotateGood, RearrangedIsGood
    <3> QED
      BY <3>1, <3>4 DEF lo, mid, hi
  <2> QED
    BY <2>3, <2>4
<1>2. CASE ~EmplaceAtBack(d, index)
  <2> DEFINE e == EmplaceFront(d, x)
  <2>1. EmplaceFrontOk(d)
    BY <1>2 DEF EmplaceOk
  <2>2. Good(e, kept, m0) /\ Grown(d, e, 1, 0)
    BY <2>1, EmplaceFrontGood DEF PushedFront
  <2>3. CASE index = 0
    BY <1>2, <2>2, <2>3 DEF Emplace, EmplaceAtBack
  <2>4. CASE index # 0
    <3>1. Emplace(d, index, x) = Rotate(e, First(e), First(e) + 1, First(e) + index + 1)
      BY <1>0, <1>2, <2>4 DEF Emplace, EmplaceAtBack, EmplaceNearFront
    <3> HIDE DEF e
    <3>2. /\ SizeOf(e) = SizeOf(d) + 1 + 0 /\ SizeOf(e) = Past(e) - First(e)
          /\ First(e) \in Int /\ Past(e) \in Int
      BY <2>2, GrownSizeOf, GoodNumbers
    <3> DEFINE lo == First(e)
               mid == First(e) + 1
               hi == First(e) + index + 1
    <3>3. /\ First(e) =< lo /\ lo =< mid /\ mid =< hi /\ hi =< Past(e)
          /\ lo \in Int /\ mid \in Int /\ hi \in Int
      BY <1>0, <2>4, <3>2
    <3> HIDE DEF lo, mid, hi
    <3>4. Good(Rotate(e, lo, mid, hi), kept, m0)
      BY <2>2, <3>3, RotateGood, RearrangedIsGood
    <3> QED
      BY <3>1, <3>4 DEF lo, mid, hi
  <2> QED
    BY <2>3, <2>4
<1> QED
  BY <1>1, <1>2

LEMMA EmplaceThrewGood ==
  ASSUME NEW d, NEW kept, NEW m0, Good(d, kept, m0), Divides, NEW x \in Object,
         NEW index \in 0 .. SizeOf(d), NEW e \in EmplaceThrew(d, index, x)
  PROVE  Good(e, kept, m0)
<1>0. SizeOf(d) \in Nat /\ index \in Int
  BY GoodNumbers
<1>1. CASE EmplaceAtBack(d, index)
  <2> DEFINE h == EmplaceBack(d, x)
  <2>1. \/ e \in EmplaceBackThrew(d)
        \/ EmplaceOk(d, index) /\ e = Scramble(h, First(h) + index, Past(h))
    BY <1>1 DEF EmplaceThrew
  <2>2. CASE e \in EmplaceBackThrew(d)
    BY <2>2, EmplaceBackThrewGood
  <2>3. CASE EmplaceOk(d, index) /\ e = Scramble(h, First(h) + index, Past(h))
    <3>1. EmplaceBackOk(d)
      BY <1>1, <2>3 DEF EmplaceOk
    <3>2. Good(h, kept, m0)
      BY <3>1, EmplaceBackGood DEF PushedBack
    <3> HIDE DEF h
    <3>3. First(h) \in Int /\ Past(h) \in Int
      BY <3>2, GoodNumbers
    <3> DEFINE lo == First(h) + index
    <3>4. lo \in Int /\ First(h) =< lo /\ Past(h) =< Past(h) /\ e = Scramble(h, lo, Past(h))
      BY <1>0, <2>3, <3>3
    <3> HIDE DEF lo
    <3> QED
      BY <3>2, <3>3, <3>4, ScrambleGood, RearrangedIsGood
  <2> QED
    BY <2>1, <2>2, <2>3
<1>2. CASE ~EmplaceAtBack(d, index)
  <2> DEFINE h == EmplaceFront(d, x)
  <2>1. \/ e \in EmplaceFrontThrew(d)
        \/ EmplaceOk(d, index) /\ e = Scramble(h, First(h), First(h) + index + 1)
    BY <1>2 DEF EmplaceThrew
  <2>2. CASE e \in EmplaceFrontThrew(d)
    BY <2>2, EmplaceFrontThrewGood
  <2>3. CASE EmplaceOk(d, index) /\ e = Scramble(h, First(h), First(h) + index + 1)
    <3>1. EmplaceFrontOk(d)
      BY <1>2, <2>3 DEF EmplaceOk
    <3>2. Good(h, kept, m0) /\ Grown(d, h, 1, 0)
      BY <3>1, EmplaceFrontGood DEF PushedFront
    <3> HIDE DEF h
    <3>3. /\ SizeOf(h) = SizeOf(d) + 1 + 0 /\ SizeOf(h) = Past(h) - First(h)
          /\ First(h) \in Int /\ Past(h) \in Int
      BY <3>2, GrownSizeOf, GoodNumbers
    <3> DEFINE hi == First(h) + index + 1
    <3>4. /\ hi \in Int /\ hi =< Past(h) /\ First(h) =< First(h)
          /\ e = Scramble(h, First(h), hi)
      BY <1>0, <2>3, <3>3
    <3> HIDE DEF hi
    <3> QED
      BY <3>2, <3>3, <3>4, ScrambleGood, RearrangedIsGood
  <2> QED
    BY <2>1, <2>2, <2>3
<1> QED
  BY <1>1, <1>2

\* Elements were pushed; those at the end pushed to are rotated into place.
LEMMA RotatedFromFront ==
  ASSUME NEW d, NEW kept, NEW m0, Good(d, kept, m0), NEW index \in 0 .. SizeOf(d),
         NEW n \in Nat, NEW e, Good(e, kept, m0), Grown(d, e, n, 0)
  PROVE  /\ Good(Rotate(e, First(e), First(e) + n, First(e) + n + index), kept, m0)
         /\ Good(Scramble(e, First(e), First(e) + n + index), kept, m0)
<1>1. /\ SizeOf(e) = SizeOf(d) + n + 0 /\ SizeOf(e) = Past(e) - First(e)
      /\ First(e) \in Int /\ Past(e) \in Int /\ SizeOf(d) \in Nat /\ index \in Int
  BY GrownSizeOf, GoodNumbers
<1> DEFINE lo == First(e)
           mid == First(e) + n
           hi == First(e) + n + index
<1>2. /\ First(e) =< lo /\ lo =< mid /\ mid =< hi /\ hi =< Past(e)
      /\ lo \in Int /\ mid \in Int /\ hi \in Int
  BY <1>1
<1> HIDE DEF lo, mid, hi
<1>3. Good(Rotate(e, lo, mid, hi), kept, m0) /\ Good(Scramble(e, lo, hi), kept, m0)
  BY <1>2, RotateGood, ScrambleGood, RearrangedIsGood
<1> QED
  BY <1>3 DEF lo, mid, hi

LEMMA RotatedFromBack ==
  ASSUME NEW d, NEW kept, NEW m0, Good(d, kept, m0), NEW index \in 0 .. SizeOf(d),
         NEW n \in Nat, NEW e, Good(e, kept, m0), Grown(d, e, 0, n)
  PROVE  /\ Good(Rotate(e, First(e) + index, First(e) + SizeOf(d), Past(e)), kept, m0)
         /\ Good(Scramble(e, First(e) + index, Past(e)), kept, m0)
<1>1. /\ SizeOf(e) = SizeOf(d) + 0 + n /\ SizeOf(e) = Past(e) - First(e)
      /\ First(e) \in Int /\ Past(e) \in Int /\ SizeOf(d) \in Nat /\ index \in Int
  BY GrownSizeOf, GoodNumbers
<1> DEFINE lo == First(e) + index
           mid == First(e) + SizeOf(d)
           hi == Past(e)
<1>2. /\ First(e) =< lo /\ lo =< mid /\ mid =< hi /\ hi =< Past(e)
      /\ lo \in Int /\ mid \in Int /\ hi \in Int
  BY <1>1
<1> HIDE DEF lo, mid, hi
<1>3. Good(Rotate(e, lo, mid, hi), kept, m0) /\ Good(Scramble(e, lo, hi), kept, m0)
  BY <1>2, RotateGood, ScrambleGood, RearrangedIsGood
<1> QED
  BY <1>3 DEF lo, mid, hi

\* insert of a range.
LEMMA InsertNearBackIs ==
  ASSUME NEW d, NEW index, NEW xs
  PROVE  InsertNearBack(d, index, xs) =
           {Rotate(e, First(e) + index, First(e) + SizeOf(d), Past(e)) :
              e \in PushBack(d, xs)[Len(xs)]}
  BY DEF InsertNearBack, InsertNearBackOf, PushBack, Appended

LEMMA InsertRangeGood ==
  ASSUME NEW d, NEW kept, NEW m0, Good(d, kept, m0), Divides, NEW xs \in Seq(Object),
         NEW index \in 0 .. SizeOf(d), NEW bidirectional,
         NEW e \in InsertRange(d, index, xs, bidirectional)
  PROVE  Good(e, kept, m0)
<1> DEFINE n == Len(xs)
<1>0. n \in Nat /\ n \in 0 .. Len(xs)
  OBVIOUS
<1> HIDE DEF n
<1>1. CASE e \in InsertNearFront(d, index, xs)
  <2>1. PICK h \in PushFront(d, xs)[n] :
          e = Rotate(h, First(h), First(h) + n, First(h) + n + index)
    BY <1>1 DEF InsertNearFront, n
  <2>2. Good(h, kept, m0) /\ Grown(d, h, n, 0)
    BY <1>0, <2>1, PushFrontGood
  <2> QED
    BY <1>0, <2>1, <2>2, RotatedFromFront
<1>2. CASE e \in InsertNearBack(d, index, xs)
  <2>1. PICK h \in PushBack(d, xs)[n] :
          e = Rotate(h, First(h) + index, First(h) + SizeOf(d), Past(h))
    BY <1>2, InsertNearBackIs DEF n
  <2>2. Good(h, kept, m0) /\ Grown(d, h, 0, n)
    BY <1>0, <2>1, PushBackGood
  <2> QED
    BY <1>0, <2>1, <2>2, RotatedFromBack
<1> QED
  BY <1>1, <1>2 DEF InsertRange

LEMMA InsertRangeThrewGood ==
  ASSUME NEW d, NEW kept, NEW m0, Good(d, kept, m0), Divides, NEW xs \in Seq(Object),
         NEW index \in 0 .. SizeOf(d), NEW bidirectional,
         NEW e \in InsertRangeThrew(d, index, xs, bidirectional)
  PROVE  Good(e, kept, m0)
<1> DEFINE n == Len(xs)
<1>0. n \in Nat /\ n \in 0 .. Len(xs)
  OBVIOUS
<1> HIDE DEF n
<1>1. CASE e \in PushFrontThrew(d, xs)
  BY <1>1, PushFrontThrewGood
<1>2. CASE e \in PushBackThrew(d, xs)
  BY <1>2, PushBackThrewGood
<1>3. CASE \E h \in PushFront(d, xs)[n] :
             e = Scramble(h, First(h), First(h) + n + index)
  <2>1. PICK h \in PushFront(d, xs)[n] : e = Scramble(h, First(h), First(h) + n + index)
    BY <1>3
  <2>2. Good(h, kept, m0) /\ Grown(d, h, n, 0)
    BY <1>0, <2>1, PushFrontGood
  <2> QED
    BY <1>0, <2>1, <2>2, RotatedFromFront
<1>4. CASE \E h \in PushBack(d, xs)[n] : e = Scramble(h, First(h) + index, Past(h))
  <2>1. PICK h \in PushBack(d, xs)[n] : e = Scramble(h, First(h) + index, Past(h))
    BY <1>4
  <2>2. Good(h, kept, m0) /\ Grown(d, h, 0, n)
    BY <1>0, <2>1, PushBackGood
  <2> QED
    BY <1>0, <2>1, <2>2, RotatedFromBack
<1>5. \/ e \in PushFrontThrew(d, xs) \/ e \in PushBackThrew(d, xs)
      \/ \E h \in PushFront(d, xs)[n] : e = Scramble(h, First(h), First(h) + n + index)
      \/ \E h \in PushBack(d, xs)[n] : e = Scramble(h, First(h) + index, Past(h))
  BY DEF InsertRangeThrew, n
<1> QED
  BY <1>1, <1>2, <1>3, <1>4, <1>5

\* insert of copies of an element: its address is that of a cell of the map.
LEMMA AddressIs ==
  ASSUME NEW d, NEW kept, NEW m0, Good(d, kept, m0), NEW i \in 1 .. SizeOf(d)
  PROVE  \E a \in MapSlots(d), j \in Indices :
           Within(d, a, j) /\ Addresses(d)[i] = <<d.map.slots[a], j>>
<1> DEFINE p == First(d) + i - 1
           a == p \div SegmentSize
           j == p % SegmentSize
<1>0. Shaped(d)
  BY DEF Good
<1>1. /\ First(d) \in Int /\ Past(d) \in Int /\ SizeOf(d) = Past(d) - First(d)
      /\ d.map.front * SegmentSize \in Int /\ d.map.back * SegmentSize \in Int
      /\ d.map.front * SegmentSize =< First(d) /\ Past(d) =< d.map.back * SegmentSize
  BY <1>0, GoodNumbers, ShapedNumbers DEF Shaped, Bounded
<1>2. p \in Int /\ First(d) =< p /\ p < Past(d)
  BY <1>1
<1>3. d.map.front * SegmentSize =< p /\ p < d.map.back * SegmentSize
  BY <1>1, <1>2
<1>4. Addresses(d)[i] = <<d.map.slots[a], j>>
  BY DEF Addresses
<1> HIDE DEF p
<1>5. a \in MapSlots(d) /\ j \in Indices /\ Within(d, a, j)
  BY <1>0, <1>2, <1>3, SlotAt
<1> QED
  BY <1>4, <1>5

LEMMA InsertAliasedIs ==
  ASSUME NEW d, NEW index, NEW n, NEW i, NEW s, NEW j, Addresses(d)[i] = <<s, j>>
  PROVE  InsertAliased(d, index, n, i) =
           IF PreferBack(d, index)
           THEN {Rotate(e, First(e) + index, First(e) + SizeOf(d), Past(e)) :
                   e \in AliasedBack(d, n, s, j)[n]}
           ELSE {Rotate(e, First(e), First(e) + n, First(e) + n + index) :
                   e \in AliasedFront(d, n, s, j)[n]}
<1> DEFINE A == Addresses(d)[i]
<1>1. A[1] = s /\ A[2] = j
  OBVIOUS
<1>2. InsertAliased(d, index, n, i) =
        IF PreferBack(d, index)
        THEN {Rotate(e, First(e) + index, First(e) + SizeOf(d), Past(e)) :
                e \in AliasedBack(d, n, A[1], A[2])[n]}
        ELSE {Rotate(e, First(e), First(e) + n, First(e) + n + index) :
                e \in AliasedFront(d, n, A[1], A[2])[n]}
  BY DEF InsertAliased, InsertNearBackOf, AliasedBack, AliasedFront, Appended, Prepended
<1> HIDE DEF A
<1> QED
  BY <1>1, <1>2

LEMMA InsertAliasedGood ==
  ASSUME NEW d, NEW kept, NEW m0, Good(d, kept, m0), Divides, NEW n \in Nat,
         NEW index \in 0 .. SizeOf(d), NEW i \in 1 .. SizeOf(d),
         NEW e \in InsertAliased(d, index, n, i)
  PROVE  Good(e, kept, m0)
<1>1. PICK a \in MapSlots(d), j \in Indices :
        Within(d, a, j) /\ Addresses(d)[i] = <<d.map.slots[a], j>>
  BY AddressIs
<1> DEFINE s == d.map.slots[a]
<1>2. n \in 0 .. n
  OBVIOUS
<1>3. CASE PreferBack(d, index)
  <2>1. PICK h \in AliasedBack(d, n, s, j)[n] :
          e = Rotate(h, First(h) + index, First(h) + SizeOf(d), Past(h))
    BY <1>1, <1>3, InsertAliasedIs
  <2>2. Good(h, kept, m0) /\ Grown(d, h, 0, n)
    BY <1>1, <1>2, <2>1, AliasedBackGood
  <2> QED
    BY <2>1, <2>2, RotatedFromBack
<1>4. CASE ~PreferBack(d, index)
  <2>1. PICK h \in AliasedFront(d, n, s, j)[n] :
          e = Rotate(h, First(h), First(h) + n, First(h) + n + index)
    BY <1>1, <1>4, InsertAliasedIs
  <2>2. Good(h, kept, m0) /\ Grown(d, h, n, 0)
    BY <1>1, <1>2, <2>1, AliasedFrontGood
  <2> QED
    BY <2>1, <2>2, RotatedFromFront
<1> QED
  BY <1>3, <1>4

\* erase
LEMMA EraseRangeGood ==
  ASSUME NEW d, NEW kept, NEW m0, Good(d, kept, m0), Divides,
         NEW index \in Nat, NEW n \in Nat, index + n =< SizeOf(d)
  PROVE  Good(EraseRange(d, index, n), kept, m0)
<1> DEFINE first == First(d) + index
           last == first + n
           sz == SizeOf(d) - n
<1>0. /\ First(d) \in Int /\ Past(d) \in Int /\ SizeOf(d) \in Nat
      /\ SizeOf(d) = Past(d) - First(d)
  BY GoodNumbers
<1>1. /\ first \in Int /\ last \in Int /\ First(d) =< first /\ first =< last
      /\ last =< Past(d) /\ sz \in Nat /\ sz =< SizeOf(d)
      /\ first + (Past(d) - last) =< Past(d)
      /\ First(d) + n + (first - First(d)) =< Past(d)
      /\ First(d) =< First(d) + n /\ First(d) + n \in Int
  BY <1>0
<1>2. CASE EraseMovesBack(d, index, n)
  <2> DEFINE e == Slide(d, last, Past(d), first)
  <2>1. EraseRange(d, index, n) = EraseAtEnd(e, sz)
    BY <1>2 DEF EraseRange
  <2> HIDE DEF first, last, sz
  <2>2. Rearranged(d, e, kept, m0)
    BY <1>0, <1>1, SlideGood
  <2> HIDE DEF e
  <2>3. Good(e, kept, m0) /\ SizeOf(e) = SizeOf(d)
    BY <1>0, <2>2, GoodNumbers DEF Rearranged
  <2>4. MovedTo(e, EraseAtEnd(e, sz), kept, m0, First(e), First(e) + sz)
    BY <1>1, <2>3, EraseAtEndGood
  <2> QED
    BY <2>1, <2>4 DEF MovedTo
<1>3. CASE ~EraseMovesBack(d, index, n)
  <2> DEFINE at == First(d) + n
             e == Slide(d, First(d), first, at)
  <2>1. EraseRange(d, index, n) = EraseAtBegin(e, n)
    BY <1>3 DEF EraseRange
  <2>a. at \in Int /\ First(d) =< at /\ at + (first - First(d)) =< Past(d)
    BY <1>1
  <2> HIDE DEF first, last, sz, at
  <2>b. First(d) =< First(d) /\ first =< Past(d)
    BY <1>0, <1>1
  <2>2. Rearranged(d, e, kept, m0)
    BY <1>0, <1>1, <2>a, <2>b, SlideGood
  <2> HIDE DEF e
  <2>3. Good(e, kept, m0) /\ SizeOf(e) = SizeOf(d)
    BY <1>0, <2>2, GoodNumbers DEF Rearranged
  <2>c. n =< SizeOf(e)
    BY <1>0, <2>3
  <2>4. MovedTo(e, EraseAtBegin(e, n), kept, m0, First(e) + n, Past(e))
    BY <2>3, <2>c, EraseAtBeginGood
  <2> QED
    BY <2>1, <2>4 DEF MovedTo
<1> QED
  BY <1>2, <1>3

LEMMA EraseThrewGood ==
  ASSUME NEW d, NEW kept, NEW m0, Good(d, kept, m0),
         NEW index \in Nat, NEW n \in Nat, index + n =< SizeOf(d),
         NEW e \in EraseThrew(d, index, n)
  PROVE  Good(e, kept, m0)
<1> DEFINE first == First(d) + index
           last == first + n
<1>0. /\ First(d) \in Int /\ Past(d) \in Int /\ SizeOf(d) \in Nat
      /\ SizeOf(d) = Past(d) - First(d)
  BY GoodNumbers
<1>1. /\ first \in Int /\ last \in Int /\ First(d) =< first /\ first =< last
      /\ last =< Past(d)
  BY <1>0
<1>2. \/ \E k \in last .. Past(d) - 1 : e = Slide(d, last, k, first)
      \/ \E k \in First(d) + 1 .. first : e = Slide(d, k, first, k + n)
  BY DEF EraseThrew
<1>e. last = first + n /\ last =< Past(d)
  BY <1>1
<1> HIDE DEF first, last
<1>3. CASE \E k \in last .. Past(d) - 1 : e = Slide(d, last, k, first)
  <2>1. PICK k \in last .. Past(d) - 1 : e = Slide(d, last, k, first)
    BY <1>3
  <2>2. /\ k \in Int /\ First(d) =< last /\ k =< Past(d)
        /\ first + (k - last) =< Past(d)
    BY <1>0, <1>1, <2>1
  <2> QED
    BY <1>1, <2>1, <2>2, SlideGood, RearrangedIsGood
<1>4. CASE \E k \in First(d) + 1 .. first : e = Slide(d, k, first, k + n)
  <2>1. PICK k \in First(d) + 1 .. first : e = Slide(d, k, first, k + n)
    BY <1>4
  <2> DEFINE at == k + n
  <2>2. /\ k \in Int /\ First(d) =< k /\ first =< Past(d) /\ at \in Int /\ First(d) =< at
        /\ at + (first - k) =< Past(d) /\ e = Slide(d, k, first, at)
    BY <1>0, <1>1, <1>e, <2>1
  <2> HIDE DEF at
  <2> QED
    BY <1>1, <2>2, SlideGood, RearrangedIsGood
<1> QED
  BY <1>2, <1>3, <1>4

-----------------------------------------------------------------------------
\* assign: how many elements are taken over, and where they then lie

LEMMA OverwrittenIs ==
  ASSUME NEW d, NEW kept, NEW m0, Good(d, kept, m0), NEW n \in Nat, NEW bytes,
         BeginsInFirstSegment(d)
  PROVE  /\ Overwritten(d, n, bytes) \in Nat /\ Overwritten(d, n, bytes) =< n
         /\ MapStart(d) \in Int /\ MapStart(d) =< First(d)
         /\ MapStart(d) + Overwritten(d, n, bytes) =< d.map.back * SegmentSize
         /\ ~bytes /\ d.begin # d.end => MapStart(d) + Overwritten(d, n, bytes) =< Past(d)
<1> DEFINE lo == d.map.front * SegmentSize
           hi == d.map.back * SegmentSize
           s == Map!SizeOf(d.map)
           w == s * SegmentSize
           m == Overwritten(d, n, bytes)
<1>0. Shaped(d) /\ MapGood(d.map)
  BY DEF Good, Shaped
<1>1. /\ lo \in Int /\ hi \in Int /\ First(d) \in Int /\ Past(d) \in Int
      /\ lo =< First(d) /\ First(d) =< Past(d) /\ Past(d) =< hi
      /\ d.map.front \in Int /\ d.map.back \in Int
  BY <1>0, ShapedNumbers DEF Shaped, Bounded
<1>2. s = d.map.back - d.map.front
  BY <1>0, MapFacts
<1>3. w = hi - lo
  <2>1. (d.map.back - d.map.front) * SegmentSize = hi - lo
    BY <1>1, Distribute
  <2> QED
    BY <1>2, <2>1
<1>4. MapStart(d) = lo
  BY DEF MapStart
<1>5. m = (IF bytes THEN IF n < w THEN n ELSE w
           ELSE IF d.begin = d.end THEN 0
           ELSE IF n < Past(d) - lo THEN n ELSE Past(d) - lo)
  BY <1>4 DEF Overwritten, Smaller
<1> HIDE DEF lo, hi, w, s, m
<1>6. /\ m \in Nat /\ m =< n /\ lo + m =< hi
      /\ ~bytes /\ d.begin # d.end => lo + m =< Past(d)
  BY <1>1, <1>3, <1>5
<1> QED
  BY <1>1, <1>4, <1>6 DEF m, hi

LEMMA OverwriteGood ==
  ASSUME NEW d, NEW kept, NEW m0, Good(d, kept, m0), Divides, BeginsInFirstSegment(d),
         NEW xs \in Seq(Object), NEW n \in 0 .. Len(xs),
         MapStart(d) + n =< d.map.back * SegmentSize
  PROVE  LET e == [Overwrite(d, n, xs) EXCEPT !.begin.index = 0,
                                              !.end = Advance(It(d.begin.at, 0), n)]
         IN  /\ MovedTo(d, e, kept, m0, MapStart(d), MapStart(d) + n)
             /\ e.mem = Overwrite(d, n, xs).mem
<1> DEFINE lo == MapStart(d)
           t == lo + n
           new == lo .. lo + n - 1
           old == First(d) .. Past(d) - 1
           f == [p \in new \cup old |-> IF p \in new THEN xs[p - lo + 1] ELSE Raw]
           s == Store(d, f)
           i == It(d.begin.at, 0)
           e == [Overwrite(d, n, xs) EXCEPT !.begin.index = 0,
                                            !.end = Advance(It(d.begin.at, 0), n)]
<1>0. Shaped(d) /\ Owned(d, kept)
  BY DEF Good
<1>1. /\ lo \in Int /\ First(d) \in Int /\ Past(d) \in Int /\ n \in Int /\ n \in Nat
      /\ lo =< First(d) /\ First(d) =< Past(d) /\ Past(d) =< d.map.back * SegmentSize
      /\ d.map.front \in Int /\ d.begin \in Iterators /\ d.map.back * SegmentSize \in Int
      /\ lo = d.map.front * SegmentSize
  BY <1>0, ShapedNumbers DEF Shaped, Bounded, MapStart
<1>2. i \in Iterators /\ Position(i) = lo /\ i = Locate(lo)
  <2>1. 0 \in Indices
    BY SegmentAssumption DEF Indices
  <2>2. d.begin.at = d.map.front
    BY DEF BeginsInFirstSegment
  <2>3. i \in Iterators
    BY <1>1, <2>1, <2>2 DEF It, Iterators
  <2>4. Locate(d.map.front * SegmentSize + 0) = i
    BY <1>1, <2>1, <2>2, LocatePlace
  <2>5. Locate(lo) = i
    BY <1>1, <2>4
  <2> QED
    BY <1>1, <2>3, <2>5, LocatePosition
<1>3. Advance(i, n) = Locate(t) /\ t \in Int
  <2>1. Position(i) + n =< d.map.back * SegmentSize
    BY <1>2
  <2>2. /\ d.map.front * SegmentSize =< Position(i)
        /\ Position(i) =< d.map.back * SegmentSize
        /\ d.map.front * SegmentSize =< Position(i) + n
    BY <1>1, <1>2
  <2> HIDE DEF i, lo
  <2>3. Advance(i, n) = Locate(Position(i) + n)
    BY <1>1, <1>2, <2>1, <2>2, AdvanceInside
  <2> QED
    BY <1>1, <1>2, <2>3
<1>4. /\ \A p \in new : p \in DOMAIN f /\ f[p] \in Object
      /\ \A p \in old \ new : p \in DOMAIN f /\ f[p] = Raw
      /\ DOMAIN f = new \cup old
  <2>1. ASSUME NEW p \in new PROVE xs[p - lo + 1] \in Object
    <3> DEFINE len == Len(xs)
    <3>1. lo \in Int /\ n \in Int /\ n =< len /\ len \in Nat
      BY <1>1
    <3> HIDE DEF lo, len
    <3>2. p - lo + 1 \in 1 .. len
      BY <3>1
    <3>3. p - lo + 1 \in 1 .. Len(xs)
      BY <3>2 DEF len
    <3> QED
      BY <3>3
  <2> QED
    BY <2>1
<1>5. Raw \notin Object /\ Object \subseteq Slot /\ Raw \in Slot
  BY BatchAssumption DEF Object, Slot
<1>6. Overwrite(d, n, xs) = s
  BY DEF Overwrite
<1> HIDE DEF f
<1>7. \A p \in DOMAIN f : f[p] \in Slot /\ p \in Int
  BY <1>1, <1>4, <1>5
<1>8. /\ IsDeque(s) /\ s.map = d.map /\ s.allocated = d.allocated /\ s.begin = d.begin
  BY <1>0, <1>7, StoreIs
<1>9. /\ IsDeque(e) /\ e.map = d.map /\ e.allocated = d.allocated /\ e.mem = s.mem
      /\ e.begin = i /\ e.end = Advance(i, n)
  <2>1. e = [s EXCEPT !.begin.index = 0, !.end = Advance(i, n)]
    BY <1>6
  <2> DEFINE q == Advance(i, n)
  <2> HIDE DEF s, e, q
  <2>2. PICK m, al, mm, b, tt : s = [map |-> m, allocated |-> al, mem |-> mm,
                                    begin |-> b, end |-> tt]
    BY <1>8 DEF IsDeque
  <2>3. b = d.begin
    BY <1>8, <2>2
  <2>4. [b EXCEPT !.index = 0] = i
    BY <1>1, <2>3 DEF Iterators, It
  <2>5. e = [s EXCEPT !.begin.index = 0, !.end = q]
    BY <2>1 DEF q
  <2>6. e = [map |-> m, allocated |-> al, mem |-> mm,
             begin |-> [b EXCEPT !.index = 0], end |-> q]
    BY <2>2, <2>5
  <2> HIDE DEF i
  <2> QED
    BY <1>8, <2>2, <2>4, <2>6 DEF IsDeque, q
<1> HIDE DEF e, i, s
<1>10. \A p \in lo .. t - 1 :
         IF p \in DOMAIN f THEN f[p] # Raw ELSE First(d) =< p /\ p < Past(d)
  BY <1>1, <1>4, <1>5
<1>11. \A p \in Int : IF p \in DOMAIN f THEN f[p] # Raw => lo =< p /\ p < t
                      ELSE First(d) =< p /\ p < Past(d) => lo =< p /\ p < t
  BY <1>1, <1>4, <1>5
<1>12. lo =< t /\ d.map.front * SegmentSize =< lo /\ t =< d.map.back * SegmentSize
  BY <1>1
<1>13. e.mem = Store(d, f).mem /\ e.begin = Locate(lo) /\ e.end = Locate(t)
  BY <1>2, <1>3, <1>9 DEF s
<1> HIDE DEF lo, t
<1>14. Good(e, kept, m0) /\ First(e) = lo /\ Past(e) = t
  BY <1>1, <1>3, <1>7, <1>9, <1>10, <1>11, <1>12, <1>13, StoredGood, SMTT(60)
<1>15. MovedTo(d, e, kept, m0, lo, t) /\ e.mem = Overwrite(d, n, xs).mem
  BY <1>6, <1>9, <1>14 DEF MovedTo
<1> QED
  BY <1>15 DEF lo, t, e, i

\* overwrite_buffer: the elements are those that were written, or d is empty.
OverwrittenWith(d, kept, m0, xs, bytes) ==
  LET n == Overwritten(d, Len(xs), bytes)
      u == OverwriteBuffer(d, xs, bytes)
  IN  \/ d.begin = d.end /\ u = d /\ n = 0
      \/ \E e : /\ MovedTo(d, e, kept, m0, MapStart(d), MapStart(d) + n)
                /\ e.mem = Overwrite(d, n, xs).mem
                /\ MapStart(d) + n =< d.map.back * SegmentSize
                /\ u = e \/ Dropped(e, u)

LEMMA OverwriteBufferGood ==
  ASSUME NEW d, NEW kept, NEW m0, Good(d, kept, m0), Divides, NEW xs \in Seq(Object),
         NEW bytes, BeginsInFirstSegment(d) \/ (~bytes /\ d.begin = d.end)
  PROVE  /\ Good(OverwriteBuffer(d, xs, bytes), kept, m0)
         /\ Overwritten(d, Len(xs), bytes) \in 0 .. Len(xs)
         /\ OverwrittenWith(d, kept, m0, xs, bytes)
<1> DEFINE n == Overwritten(d, Len(xs), bytes)
           u == OverwriteBuffer(d, xs, bytes)
           e == [Overwrite(d, n, xs) EXCEPT !.begin.index = 0,
                                            !.end = Advance(It(d.begin.at, 0), n)]
           lo == d.map.front + SegmentCount(n)
           len == Len(xs)
<1>0. len \in Nat
  OBVIOUS
<1> HIDE DEF len
<1>1. CASE ~bytes /\ d.begin = d.end
  <2>1. u = d /\ n = 0
    BY <1>1 DEF OverwriteBuffer, Overwritten
  <2> QED
    BY <1>0, <1>1, <2>1 DEF len, OverwrittenWith
<1>2. CASE ~(~bytes /\ d.begin = d.end)
  <2>1. BeginsInFirstSegment(d)
    BY <1>2
  <2>2. /\ n \in Nat /\ n =< len /\ MapStart(d) \in Int
        /\ MapStart(d) + n =< d.map.back * SegmentSize
    BY <1>0, <2>1, OverwrittenIs DEF len
  <2>3. n \in 0 .. len
    BY <1>0, <2>2
  <2>4. u = IF bytes THEN DeallocateSegments(e, lo, d.map.back) ELSE e
    BY <1>2 DEF OverwriteBuffer
  <2> HIDE DEF n, u
  <2>5. /\ MovedTo(d, e, kept, m0, MapStart(d), MapStart(d) + n)
        /\ e.mem = Overwrite(d, n, xs).mem
    BY <2>1, <2>2, <2>3, OverwriteGood DEF len
  <2> HIDE DEF e
  <2>6. Good(e, kept, m0) /\ Past(e) = MapStart(d) + n /\ e.map = d.map
    BY <2>5 DEF MovedTo
  <2>a. u = e \/ Dropped(e, u) => OverwrittenWith(d, kept, m0, xs, bytes)
    <3> SUFFICES ASSUME u = e \/ Dropped(e, u)
                 PROVE  OverwrittenWith(d, kept, m0, xs, bytes)
      OBVIOUS
    <3>1. /\ MovedTo(d, e, kept, m0, MapStart(d), MapStart(d) + n)
          /\ e.mem = Overwrite(d, n, xs).mem
          /\ MapStart(d) + n =< d.map.back * SegmentSize
          /\ u = e \/ Dropped(e, u)
      BY <2>2, <2>5
    <3> QED
      BY <3>1 DEF OverwrittenWith, n, u
  <2>7. CASE ~bytes
    <3>1. u = e
      BY <2>4, <2>7
    <3> QED
      BY <2>3, <2>6, <2>a, <3>1 DEF n, u, len
  <2>8. CASE bytes
    <3> DEFINE c == SegmentCount(n)
               f == d.map.front
               b == d.map.back
               x == c * SegmentSize
               y == f * SegmentSize
               z == b * SegmentSize
    <3>1. /\ f \in Int /\ b \in Int /\ f =< b /\ y \in Int /\ z \in Int
          /\ SegmentSize \in Nat /\ MapStart(d) = y
      BY ShapedNumbers, SegmentAssumption DEF Good, MapStart
    <3>2. /\ c \in Nat /\ x \in Nat /\ n =< x /\ x < n + SegmentSize
      BY <2>2, SegmentCountIs
    <3>3. /\ (f + c) * SegmentSize = y + x
          /\ (b + 1) * SegmentSize = z + 1 * SegmentSize
      <4>1. f \in Int /\ c \in Int /\ b \in Int /\ 1 \in Int
        BY <3>1, <3>2
      <4> HIDE DEF f, b, c
      <4> QED
        BY <4>1, Distribute
    <3>4. (f + c) * SegmentSize + 0 < (b + 1) * SegmentSize <=> f + c < b + 1
      <4>1. 0 \in Indices
        BY SegmentAssumption DEF Indices
      <4>2. f + c \in Int /\ b + 1 \in Int
        BY <3>1, <3>2, SMTT(30)
      <4> QED
        BY <4>1, <4>2, PlaceOrder
    <3>5. lo = f + c /\ e.map.front = f /\ e.map.back = b
      BY <2>6
    <3>6. y + n =< z
      BY <2>2, <3>1
    <3>7. (f + c) * SegmentSize + 0 = y + x /\ (b + 1) * SegmentSize = z + SegmentSize
      <4> DEFINE v == (f + c) * SegmentSize
                 w == (b + 1) * SegmentSize
      <4>1. v = y + x /\ w = z + 1 * SegmentSize /\ x \in Int /\ y \in Int
            /\ 1 * SegmentSize = SegmentSize
        BY <3>1, <3>2, <3>3
      <4> HIDE DEF v, w, x, y, z
      <4>2. v + 0 = y + x /\ w = z + SegmentSize
        BY <4>1
      <4> QED
        BY <4>2 DEF v, w
    <3> HIDE DEF c, x, y, z
    <3>8. f + c < b + 1
      BY <2>2, <3>1, <3>2, <3>4, <3>6, <3>7
    <3> HIDE DEF f, b, lo
    <3>9. lo \in e.map.front .. e.map.back
      BY <3>1, <3>2, <3>5, <3>8
    <3>10. Past(e) =< lo * SegmentSize
      <4>1. lo * SegmentSize = y + x
        BY <3>3, <3>5
      <4> QED
        BY <2>2, <2>6, <3>1, <3>2, <4>1
    <3>11. u = DeallocateSegments(e, lo, e.map.back)
      BY <2>4, <2>8, <3>5 DEF b
    <3>12. Good(u, kept, m0) /\ Dropped(e, u)
      BY <2>6, <3>9, <3>10, <3>11, DeallocateSegmentsGood
    <3> QED
      BY <2>3, <2>a, <3>12 DEF n, u, len
  <2> QED
    BY <2>7, <2>8
<1> QED
  BY <1>1, <1>2

LEMMA RestIs ==
  ASSUME NEW S, NEW xs \in Seq(S), NEW n \in 0 .. Len(xs)
  PROVE  /\ SubSeq(xs, n + 1, Len(xs)) \in Seq(S)
         /\ Len(SubSeq(xs, n + 1, Len(xs))) = Len(xs) - n
  OBVIOUS

\* assign, whether it returns or throws
LEMMA AssignGood ==
  ASSUME NEW d, NEW kept, NEW m0, Good(d, kept, m0), Divides, NEW xs \in Seq(Object),
         NEW bytes, BeginsInFirstSegment(d) \/ (~bytes /\ d.begin = d.end),
         NEW e \in Assign(d, xs, bytes)
  PROVE  Good(e, kept, m0)
<1> DEFINE u == OverwriteBuffer(d, xs, bytes)
           rest == RestToPush(d, xs, bytes)
<1>1. Good(u, kept, m0) /\ Overwritten(d, Len(xs), bytes) \in 0 .. Len(xs)
  BY OverwriteBufferGood
<1>2. rest \in Seq(Object)
  BY <1>1, RestIs DEF RestToPush
<1>3. e \in PushBack(u, rest)[Len(rest)]
  BY DEF Assign
<1> HIDE DEF u, rest
<1>4. Len(rest) \in 0 .. Len(rest)
  BY <1>2
<1> QED
  BY <1>1, <1>2, <1>3, <1>4, PushBackGood

LEMMA AssignThrewGood ==
  ASSUME NEW d, NEW kept, NEW m0, Good(d, kept, m0), Divides, NEW xs \in Seq(Object),
         NEW bytes, BeginsInFirstSegment(d) \/ (~bytes /\ d.begin = d.end),
         NEW e \in AssignThrew(d, xs, bytes)
  PROVE  Good(e, kept, m0)
<1> DEFINE u == OverwriteBuffer(d, xs, bytes)
           rest == RestToPush(d, xs, bytes)
           lo == MapStart(d)
           len == Len(xs)
           filled == Smaller(len, First(d) - lo)
           n == Overwritten(d, len, bytes)
           assigned(k) == Store(d, [p \in lo .. lo + filled + k - 1 |-> xs[p - lo + 1]])
<1>1. Good(u, kept, m0) /\ n \in 0 .. len
  BY OverwriteBufferGood
<1>2. rest \in Seq(Object)
  BY <1>1, RestIs DEF RestToPush
<1>3. \/ e \in PushBackThrew(u, rest) \/ e = d
      \/ /\ ShiftMayThrow /\ ~bytes /\ d.begin # d.end
         /\ \E k \in 0 .. n - filled - 1 : e = assigned(k)
  BY DEF AssignThrew
<1> HIDE DEF u, rest
<1>4. CASE e \in PushBackThrew(u, rest)
  BY <1>1, <1>2, <1>4, PushBackThrewGood
<1>5. CASE /\ ShiftMayThrow /\ ~bytes /\ d.begin # d.end
           /\ \E k \in 0 .. n - filled - 1 : e = assigned(k)
  <2>0. Shaped(d) /\ Owned(d, kept)
    BY DEF Good
  <2>1. PICK k \in 0 .. n - filled - 1 : e = assigned(k)
    BY <1>5
  <2> DEFINE f == [p \in lo .. lo + filled + k - 1 |-> xs[p - lo + 1]]
  <2>2. len \in Nat
    OBVIOUS
  <2>3. /\ lo \in Int /\ lo =< First(d) /\ lo + n =< Past(d) /\ n \in Nat /\ n =< len
    <3>1. BeginsInFirstSegment(d) /\ len \in Nat
      BY <1>5, <2>2
    <3> QED
      BY <1>5, <3>1, OverwrittenIs
  <2>4. /\ First(d) \in Int /\ Past(d) \in Int /\ First(d) =< Past(d)
        /\ d.map.front * SegmentSize =< First(d) /\ Past(d) =< d.map.back * SegmentSize
        /\ Locate(First(d)) = d.begin /\ Locate(Past(d)) = d.end
    BY <2>0, ShapedNumbers DEF Shaped, Bounded
  <2>5. filled \in Int /\ k \in Int /\ filled + k < n
    <3> HIDE DEF n, len, lo
    <3>1. filled \in Int
      BY <2>2, <2>3, <2>4 DEF Smaller
    <3> HIDE DEF filled
    <3> QED
      BY <2>1, <2>3, <3>1
  <2> HIDE DEF lo, filled, n
  <2>6. ASSUME NEW p \in DOMAIN f
        PROVE  p \in Int /\ p < Past(d) /\ f[p] \in Object
    <3>1. p \in Int /\ lo =< p /\ p < lo + n
      BY <2>3, <2>5
    <3>2. p - lo + 1 \in 1 .. Len(xs)
      BY <2>2, <2>3, <3>1 DEF len
    <3>3. xs[p - lo + 1] \in Object
      BY <3>2
    <3>4. f[p] = xs[p - lo + 1]
      OBVIOUS
    <3> QED
      BY <2>3, <2>4, <3>1, <3>3, <3>4
  <2>7. e = Store(d, f)
    BY <2>1
  <2> HIDE DEF f
  <2>8. \A p \in DOMAIN f : f[p] \in Slot /\ f[p] # Raw
    BY <2>6, BatchAssumption DEF Object, Slot
  <2>9. /\ IsDeque(e) /\ e.map = d.map /\ e.allocated = d.allocated
        /\ e.begin = d.begin /\ e.end = d.end
    BY <2>0, <2>7, <2>8, StoreIs
  <2>10. \A p \in First(d) .. Past(d) - 1 :
           IF p \in DOMAIN f THEN f[p] # Raw ELSE First(d) =< p /\ p < Past(d)
    BY <2>4, <2>8
  <2> QED
    BY <1>5, <2>4, <2>7, <2>8, <2>9, <2>10, StoredGood
<1> QED
  BY <1>3, <1>4, <1>5

-----------------------------------------------------------------------------
\* stable_insert: a second deque, and its segments spliced in

\* A second deque that owns no segment
LEMMA BesideGood ==
  ASSUME NEW d, NEW kept, NEW m0, Good(d, kept, m0)
  PROVE  /\ Good(Beside(d), d.allocated, d.mem)
         /\ FreeInFront(Beside(d)) = 0 /\ CellsBehind(Beside(d)) = 0
<1> DEFINE e == Beside(d)
           m == Map!Reserved(0, 0)
           i == It(0, 0)
<1>0. Shaped(d) /\ IsDeque(d) /\ d.allocated \subseteq Segments
      /\ d.mem \in [Segments -> Segment]
  BY ShapedNumbers DEF Good, Shaped, DequeType
<1>1. MapGood(m) /\ m.front = 0 /\ m.back = 0
  <2>1. 0 =< MapMax
    BY BatchAssumption
  <2> QED
    BY <2>1, MapReserved
<1>2. /\ IsDeque(e) /\ e.map = m /\ e.begin = i /\ e.end = i
      /\ e.allocated = d.allocated /\ e.mem = d.mem
  <2>1. e = [d EXCEPT !.map = m, !.begin = i, !.end = i]
    BY DEF Beside
  <2> HIDE DEF m, i, e
  <2>2. PICK mm, al, me, b, t : d = [map |-> mm, allocated |-> al, mem |-> me,
                                    begin |-> b, end |-> t]
    BY <1>0 DEF IsDeque
  <2> QED
    BY <2>1, <2>2 DEF IsDeque
<1>3. i \in Iterators /\ Position(i) = 0
  BY SegmentAssumption DEF It, Iterators, Indices, Position
<1>4. m.front * SegmentSize = 0 /\ m.back * SegmentSize = 0
  BY <1>1, SegmentAssumption
<1> HIDE DEF e, m, i
<1>5. First(e) = 0 /\ Past(e) = 0
  BY <1>2, <1>3 DEF First, Past
<1>6. MapSlots(e) = {}
  BY <1>1, <1>2 DEF MapSlots
<1>7. Shaped(e)
  <2>1. Bounded(e)
    BY <1>2, <1>4, <1>5 DEF Bounded
  <2> QED
    BY <1>0, <1>1, <1>2, <1>3, <2>1, ShapedIf
<1>8. Owned(e, d.allocated) /\ Filled(e)
  BY <1>2, <1>6 DEF Owned, Filled
<1>9. ~ShiftMayThrow => Tidy(e)
  BY <1>2, <1>6 DEF Good, Tidy
<1>10. FreeInFront(e) = 0 /\ CellsBehind(e) = 0
  BY <1>2, <1>4, <1>5 DEF FreeInFront, CellsBehind
<1> QED
  BY <1>2, <1>7, <1>8, <1>9, <1>10 DEF Good, e

\* All segments of the second deque are full: back_free_capacity() more elements end
\* at the end of a segment, in a new one if there was room in the last.
LEMMA FullSegments ==
  ASSUME NEW d, NEW e, Shaped(d), Shaped(e), Grown(d, e, 0, BackFreeCapacity(d)),
         CellsBehind(e) < SegmentSize
  PROVE  CellsBehind(e) = 0
<1> DEFINE db == d.map.back
           eb == e.map.back
           at == d.end.at
           i == d.end.index
           x == db * SegmentSize
           y == at * SegmentSize
           z == eb * SegmentSize
           n == BackFreeCapacity(d)
           full == IF i = 0 THEN 0 ELSE 1
<1>1. /\ db \in Int /\ eb \in Int /\ at \in Int /\ i \in Int /\ 0 =< i /\ i < SegmentSize
      /\ SegmentSize \in Nat /\ SegmentSize > 0 /\ x \in Int /\ y \in Int /\ z \in Int
  BY ShapedNumbers, SegmentAssumption DEF Iterators, Indices
<1>2. Past(d) = y + i /\ CellsBehind(e) = z - Past(e) /\ Past(e) \in Int
  BY ShapedNumbers DEF Past, Position, CellsBehind
<1>3. n = (x - y) + (IF i = 0 THEN 0 ELSE SegmentSize - i)
  <2>1. (db - at) * SegmentSize = x - y
    BY <1>1, Distribute
  <2>2. n = (db - at) * SegmentSize + ((SegmentSize - i) % SegmentSize)
    BY DEF BackFreeCapacity
  <2>3. (SegmentSize - i) % SegmentSize = (IF i = 0 THEN 0 ELSE SegmentSize - i)
    <3> HIDE DEF i
    <3> QED
      BY <1>1
  <2> QED
    BY <2>1, <2>2, <2>3
<1>4. PICK shift \in Int : Past(e) = Past(d) + shift * SegmentSize + n
  BY DEF Grown
<1> DEFINE s == shift * SegmentSize
           q == (eb - db) - (shift + full)
<1>5. q \in Int /\ CellsBehind(e) = q * SegmentSize
  <2>1. /\ full \in Int /\ eb - db \in Int /\ shift + full \in Int /\ shift \in Int
    BY <1>1
  <2>2. /\ q * SegmentSize = (eb - db) * SegmentSize - (shift + full) * SegmentSize
        /\ (eb - db) * SegmentSize = z - x
        /\ (shift + full) * SegmentSize = s + full * SegmentSize
        /\ s \in Int
    <3>1. q * SegmentSize = (eb - db) * SegmentSize - (shift + full) * SegmentSize
      <4> DEFINE u == eb - db
                 v == shift + full
      <4> HIDE DEF u, v
      <4>1. (u - v) * SegmentSize = u * SegmentSize - v * SegmentSize
        BY <2>1, Distribute DEF u, v
      <4> QED
        BY <4>1 DEF u, v
    <3>2. (eb - db) * SegmentSize = z - x
      BY <1>1, Distribute
    <3>3. (shift + full) * SegmentSize = s + full * SegmentSize /\ s \in Int
      <4> HIDE DEF full
      <4> QED
        BY <2>1, Distribute
    <3> QED
      BY <3>1, <3>2, <3>3
  <2>3. full * SegmentSize = (IF i = 0 THEN 0 ELSE SegmentSize)
    BY <1>1
  <2> DEFINE w == q * SegmentSize
             g == full * SegmentSize
             k == (eb - db) * SegmentSize
             l == (shift + full) * SegmentSize
  <2>4. w = k - l /\ k = z - x /\ l = s + g /\ g = (IF i = 0 THEN 0 ELSE SegmentSize)
        /\ s \in Int
    BY <2>2, <2>3
  <2>5. Past(e) = Past(d) + s + n
    BY <1>4
  <2>6. q \in Int
    BY <2>1
  <2> HIDE DEF w, g, k, l, s, x, y, z, n, i, q
  <2>7. CellsBehind(e) = w
    BY <1>1, <1>2, <1>3, <2>4, <2>5
  <2> QED
    BY <2>6, <2>7 DEF w
<1>6. CellsBehind(e) \in Nat
  BY FreeCells
<1> HIDE DEF q
<1>7. q = 0
  <2>1. 0 =< q * SegmentSize /\ q * SegmentSize < SegmentSize
    BY <1>5, <1>6
  <2>2. 0 \in Indices /\ q \in Int /\ 1 \in Int /\ 0 \in Int
    BY <1>5, SegmentAssumption DEF Indices
  <2>3. /\ q * SegmentSize + 0 < 1 * SegmentSize <=> q < 1
        /\ 0 * SegmentSize =< q * SegmentSize + 0 <=> 0 =< q
    BY <2>2, PlaceOrder
  <2> DEFINE w == q * SegmentSize
  <2>4. 0 * SegmentSize = 0 /\ 1 * SegmentSize = SegmentSize /\ w \in Int
    BY <1>1, <1>5, <1>6
  <2> HIDE DEF w
  <2>5. w + 0 = w /\ w < SegmentSize /\ 0 =< w
    BY <2>1, <2>4 DEF w
  <2> QED
    BY <2>2, <2>3, <2>4, <2>5 DEF w
<1> QED
  BY <1>1, <1>5, <1>7

\* The elements of the second deque take up all of its segments.
LEMMA StableTmpGood ==
  ASSUME NEW d, NEW kept, NEW m0, Good(d, kept, m0), Divides, NEW xs \in Seq(Object),
         NEW t \in StableTmp(d, xs)
  PROVE  /\ Good(t, d.allocated, d.mem)
         /\ First(t) = t.map.front * SegmentSize /\ Past(t) = t.map.back * SegmentSize
<1> DEFINE K == d.allocated
           n == Len(xs)
<1>0. /\ Good(Beside(d), K, d.mem) /\ FreeInFront(Beside(d)) = 0
      /\ CellsBehind(Beside(d)) = 0 /\ SegmentSize > 0 /\ SegmentSize \in Nat
  BY BesideGood, SegmentAssumption
<1>1. PICK u \in PushBack(Beside(d), xs)[n] :
        t \in ResizeBack(u, SizeOf(u) + BackFreeCapacity(u), Default)
  BY DEF StableTmp
<1>2. n \in 0 .. Len(xs)
  OBVIOUS
<1>3. Good(u, K, d.mem) /\ FreeInFront(u) = 0 /\ CellsBehind(u) < SegmentSize
  BY <1>0, <1>1, <1>2, PushBackGood
<1> DEFINE c == BackFreeCapacity(u)
           ys == Copies(c, Default)
<1>4. Shaped(u) /\ SizeOf(u) \in Nat /\ c \in Nat
  BY <1>3, GoodNumbers, FreeCells
<1>5. t \in PushBack(u, ys)[c]
  <2>1. SizeOf(u) + c >= SizeOf(u) /\ (SizeOf(u) + c) - SizeOf(u) = c
    BY <1>4
  <2> HIDE DEF c
  <2>2. t \in ResizeBack(u, SizeOf(u) + c, Default)
    BY <1>1 DEF c
  <2> QED
    BY <2>1, <2>2 DEF ResizeBack
<1>6. ys \in Seq(Object) /\ c \in 0 .. Len(ys)
  <2>1. Default \in Object
    BY BatchAssumption DEF Object
  <2> HIDE DEF c
  <2> QED
    BY <1>4, <2>1, CopiesAre
<1>7. /\ Good(t, K, d.mem) /\ Grown(u, t, 0, c) /\ FreeInFront(t) = 0
      /\ CellsBehind(t) < SegmentSize
  <2> HIDE DEF c, ys
  <2> QED
    BY <1>3, <1>5, <1>6, PushBackGood
<1>8. CellsBehind(t) = 0
  BY <1>4, <1>7, FullSegments DEF Good
<1>9. /\ First(t) \in Int /\ Past(t) \in Int /\ t.map.front * SegmentSize \in Int
      /\ t.map.back * SegmentSize \in Int
  BY <1>7, ShapedNumbers DEF Good
<1> DEFINE x == t.map.front * SegmentSize
           y == t.map.back * SegmentSize
<1>10. First(t) = x /\ Past(t) = y
  <2>1. First(t) - x = 0 /\ y - Past(t) = 0 /\ x \in Int /\ y \in Int
    BY <1>7, <1>8, <1>9 DEF FreeInFront, CellsBehind
  <2> HIDE DEF x, y
  <2> QED
    BY <1>9, <2>1
<1> QED
  BY <1>7, <1>10

\* Slot a of d is slot b of e, and holds an element where it did.
SameSlot(d, e, a, b) ==
  /\ b \in MapSlots(e) /\ e.map.slots[b] = d.map.slots[a]
  /\ \A i \in Indices : Within(e, b, i) <=> Within(d, a, i)

\* The slots of e are those of d and those of t, at the places P and Q.
Spliced(d, t, e, P, Q) ==
  /\ \A a \in MapSlots(d) : SameSlot(d, e, a, P[a])
  /\ \A a \in MapSlots(t) : SameSlot(t, e, a, Q[a])
  /\ \A b \in MapSlots(e) :
       (\E a \in MapSlots(d) : b = P[a]) \/ (\E a \in MapSlots(t) : b = Q[a])

LEMMA SplicedGood ==
  ASSUME NEW d, NEW kept, NEW m0, Good(d, kept, m0), NEW t, Good(t, d.allocated, d.mem),
         NEW e, Shaped(e), e.mem = t.mem, e.allocated = t.allocated,
         NEW P, NEW Q, Spliced(d, t, e, P, Q)
  PROVE  Good(e, kept, m0)
<1>0. /\ Owned(d, kept) /\ Owned(t, d.allocated) /\ Filled(d) /\ Filled(t)
      /\ \A s \in d.allocated : t.mem[s] = d.mem[s]
  BY DEF Good
<1>1. /\ \A a \in MapSlots(d) : SameSlot(d, e, a, P[a])
      /\ \A a \in MapSlots(t) : SameSlot(t, e, a, Q[a])
      /\ \A b \in MapSlots(e) :
           (\E a \in MapSlots(d) : b = P[a]) \/ (\E a \in MapSlots(t) : b = Q[a])
  BY DEF Spliced
<1>2. /\ kept \subseteq d.allocated /\ d.allocated \subseteq e.allocated
      /\ \A a \in MapSlots(d) : d.map.slots[a] \in d.allocated \ kept
      /\ \A a \in MapSlots(t) : t.map.slots[a] \in e.allocated \ d.allocated
  BY <1>0 DEF Owned
<1>3. Owned(e, kept)
  <2>1. ASSUME NEW b \in MapSlots(e) PROVE e.map.slots[b] \in e.allocated \ kept
    BY <1>1, <1>2 DEF SameSlot
  <2>2. ASSUME NEW s \in e.allocated \ kept
        PROVE  \E b \in MapSlots(e) : e.map.slots[b] = s
    <3>1. CASE s \in d.allocated
      <4>1. PICK a \in MapSlots(d) : d.map.slots[a] = s
        BY <1>0, <3>1 DEF Owned
      <4> QED
        BY <1>1, <4>1 DEF SameSlot
    <3>2. CASE s \notin d.allocated
      <4>1. PICK a \in MapSlots(t) : t.map.slots[a] = s
        BY <1>0, <3>2 DEF Owned
      <4> QED
        BY <1>1, <4>1 DEF SameSlot
    <3> QED
      BY <3>1, <3>2
  <2>3. ASSUME NEW b \in MapSlots(e), NEW c \in MapSlots(e),
               e.map.slots[b] = e.map.slots[c]
        PROVE  b = c
    <3>1. CASE \E a \in MapSlots(d) : b = P[a]
      <4>1. PICK a \in MapSlots(d) : b = P[a]
        BY <3>1
      <4>2. e.map.slots[b] = d.map.slots[a] /\ e.map.slots[b] \in d.allocated
        BY <1>1, <1>2, <4>1 DEF SameSlot
      <4>a. ASSUME NEW f \in MapSlots(t), c = Q[f] PROVE FALSE
        <5>1. e.map.slots[c] = t.map.slots[f]
          BY <1>1, <4>a DEF SameSlot
        <5> QED
          BY <1>2, <2>3, <4>2, <5>1
      <4>3. PICK f \in MapSlots(d) : c = P[f]
        BY <1>1, <4>a
      <4>4. d.map.slots[f] = d.map.slots[a]
        BY <1>1, <2>3, <4>2, <4>3 DEF SameSlot
      <4> QED
        BY <1>0, <4>1, <4>3, <4>4 DEF Owned
    <3>2. CASE \E a \in MapSlots(t) : b = Q[a]
      <4>1. PICK a \in MapSlots(t) : b = Q[a]
        BY <3>2
      <4>2. e.map.slots[b] = t.map.slots[a] /\ e.map.slots[b] \notin d.allocated
        BY <1>1, <1>2, <4>1 DEF SameSlot
      <4>a. ASSUME NEW f \in MapSlots(d), c = P[f] PROVE FALSE
        <5>1. e.map.slots[c] = d.map.slots[f]
          BY <1>1, <4>a DEF SameSlot
        <5> QED
          BY <1>2, <2>3, <4>2, <5>1
      <4>3. PICK f \in MapSlots(t) : c = Q[f]
        BY <1>1, <4>a
      <4>4. t.map.slots[f] = t.map.slots[a]
        BY <1>1, <2>3, <4>2, <4>3 DEF SameSlot
      <4> QED
        BY <1>0, <4>1, <4>3, <4>4 DEF Owned
    <3> QED
      BY <1>1, <3>1, <3>2
  <2> QED
    BY <1>2, <2>1, <2>2, <2>3 DEF Owned
<1>4. Filled(e)
  <2> SUFFICES ASSUME NEW b \in MapSlots(e), NEW i \in Indices, Within(e, b, i)
               PROVE  e.mem[e.map.slots[b]][i] # Raw
    BY DEF Filled
  <2>1. CASE \E a \in MapSlots(d) : b = P[a]
    <3>1. PICK a \in MapSlots(d) : b = P[a]
      BY <2>1
    <3>2. Within(d, a, i) /\ e.map.slots[b] = d.map.slots[a]
      BY <1>1, <3>1 DEF SameSlot
    <3>3. e.mem[d.map.slots[a]] = d.mem[d.map.slots[a]]
      BY <1>0, <1>2
    <3> QED
      BY <1>0, <3>2, <3>3 DEF Filled
  <2>2. CASE \E a \in MapSlots(t) : b = Q[a]
    <3>1. PICK a \in MapSlots(t) : b = Q[a]
      BY <2>2
    <3>2. Within(t, a, i) /\ e.map.slots[b] = t.map.slots[a]
      BY <1>1, <3>1 DEF SameSlot
    <3> QED
      BY <1>0, <3>2 DEF Filled
  <2> QED
    BY <1>1, <2>1, <2>2
<1>5. \A s \in kept : e.mem[s] = m0[s]
  BY <1>0, <1>2 DEF Good
<1>6. ASSUME ~ShiftMayThrow PROVE Tidy(e)
  <2>0. Tidy(d) /\ Tidy(t)
    BY <1>6 DEF Good
  <2>1. ASSUME NEW b \in MapSlots(e), NEW i \in Indices,
               e.mem[e.map.slots[b]][i] # Raw
        PROVE  Within(e, b, i)
    <3>1. CASE \E a \in MapSlots(d) : b = P[a]
      <4>1. PICK a \in MapSlots(d) : b = P[a]
        BY <3>1
      <4>2. e.map.slots[b] = d.map.slots[a] /\ (Within(e, b, i) <=> Within(d, a, i))
        BY <1>1, <4>1 DEF SameSlot
      <4>3. e.mem[d.map.slots[a]] = d.mem[d.map.slots[a]]
        BY <1>0, <1>2
      <4> QED
        BY <2>0, <2>1, <4>2, <4>3 DEF Tidy
    <3>2. CASE \E a \in MapSlots(t) : b = Q[a]
      <4>1. PICK a \in MapSlots(t) : b = Q[a]
        BY <3>2
      <4>2. e.map.slots[b] = t.map.slots[a] /\ (Within(e, b, i) <=> Within(t, a, i))
        BY <1>1, <4>1 DEF SameSlot
      <4> QED
        BY <2>0, <2>1, <4>2 DEF Tidy
    <3> QED
      BY <1>1, <3>1, <3>2
  <2>2. \A s \in Segments \ e.allocated : e.mem[s] = EmptySegment
    BY <2>0 DEF Tidy
  <2> QED
    BY <2>1, <2>2 DEF Tidy
<1> QED
  BY <1>3, <1>4, <1>5, <1>6 DEF Good

\* The map of the result, r, has the slots of d before slot h, then those of t, then
\* the others.
Joined(d, t, r, h) ==
  LET n == t.map.back - t.map.front
      up == r.front - d.map.front
  IN  /\ r.back - r.front = d.map.back - d.map.front + n
      /\ \A a \in d.map.front .. h - 1 : r.slots[a + up] = d.map.slots[a]
      /\ \A a \in t.map.front .. t.map.back - 1 :
           r.slots[a + up + (h - t.map.front)] = t.map.slots[a]
      /\ \A a \in h .. d.map.back - 1 : r.slots[a + up + n] = d.map.slots[a]

\* What _map.insert of the segments of tmp does.
LEMMA JoinedMap ==
  ASSUME NEW d, NEW t, NEW kept, NEW m0, Shaped(d), Good(t, kept, m0),
         NEW h \in d.map.front .. d.map.back,
         Map!InsertRangeOk(d.map, Map!SizeOf(t.map))
  PROVE  LET r == Map!InsertRange(d.map, h - d.map.front, Map!Contents(t.map))
         IN  MapGood(r) /\ Joined(d, t, r, h)
<1> DEFINE m == d.map
           f == m.front
           b == m.back
           tm == t.map
           tf == tm.front
           tb == tm.back
           xs == Map!Contents(tm)
           n == tb - tf
           i == h - f
           r == Map!InsertRange(m, i, xs)
<1>1. /\ f \in Nat /\ b \in Nat /\ f =< b /\ h \in Int /\ f =< h /\ h =< b
      /\ tf \in Nat /\ tb \in Nat /\ tf =< tb /\ tb =< MapMax /\ MapMax \in Nat
      /\ MapGood(m) /\ MapGood(tm)
  BY ShapedNumbers DEF Good, Shaped
<1>2. Map!SizeOf(tm) = n
  BY <1>1, MapFacts
<1>3. xs = [k \in 1 .. n |-> tm.slots[tf + k - 1]]
  BY <1>2 DEF Map!Contents
<1>4. ASSUME NEW k \in 1 .. n PROVE tm.slots[tf + k - 1] \in Segments
  <2>1. tf + k - 1 \in MapSlots(t)
    BY <1>1 DEF MapSlots
  <2>2. t.allocated \subseteq Segments
    BY DEF Good, Shaped, DequeType
  <2> QED
    BY <2>1, <2>2 DEF Good, Owned
<1>5. xs \in Seq(Segments) /\ Len(xs) = n /\ n \in Nat
      /\ \A k \in 1 .. n : xs[k] = tm.slots[tf + k - 1]
  <2>1. n \in Nat
    BY <1>1
  <2> HIDE DEF xs, n
  <2>2. xs \in [1 .. n -> Segments] /\ \A k \in 1 .. n : xs[k] = tm.slots[tf + k - 1]
    BY <1>3, <1>4
  <2> QED
    BY <2>1, <2>2
<1>6. i \in 0 .. b - f
  BY <1>1
<1>7. Map!InsertRangeOk(m, Len(xs)) /\ Len(xs) =< MapMax
  BY <1>1, <1>2, <1>5
<1> HIDE DEF xs, n, i, r
<1>8. /\ MapGood(r) /\ r.back - r.front = b - f + Len(xs)
      /\ \A k \in 0 .. i - 1 : r.slots[r.front + k] = m.slots[f + k]
      /\ \A k \in 0 .. Len(xs) - 1 : r.slots[r.front + i + k] = xs[k + 1]
      /\ \A k \in i .. b - f - 1 : r.slots[r.front + Len(xs) + k] = m.slots[f + k]
  BY <1>1, <1>5, <1>6, <1>7, MapInsertRange DEF r
<1>9. r.front \in Int /\ r.back \in Int
  BY <1>8, MapFacts
<1> DEFINE up == r.front - f
<1>10. ASSUME NEW a \in f .. h - 1 PROVE r.slots[a + up] = m.slots[a]
  <2>1. a - f \in 0 .. i - 1
    BY <1>1 DEF i
  <2>2. r.slots[r.front + (a - f)] = m.slots[f + (a - f)]
    BY <1>8, <2>1
  <2>3. r.front + (a - f) = a + up /\ f + (a - f) = a
    BY <1>1, <1>9
  <2> QED
    BY <2>2, <2>3
<1>11. ASSUME NEW a \in tf .. tb - 1 PROVE r.slots[a + up + (h - tf)] = tm.slots[a]
  <2>1. a - tf \in 0 .. Len(xs) - 1 /\ (a - tf) + 1 \in 1 .. n
    <3>1. n = tb - tf /\ Len(xs) = n
      BY <1>5 DEF n
    <3>2. tf \in Int /\ tb \in Int /\ a \in Int /\ tf =< a /\ a =< tb - 1
      BY <1>1
    <3> HIDE DEF tf, tb
    <3>3. a - tf \in 0 .. n - 1 /\ (a - tf) + 1 \in 1 .. n
      BY <3>1, <3>2
    <3> QED
      BY <3>1, <3>3
  <2>2. r.slots[r.front + i + (a - tf)] = xs[(a - tf) + 1]
    BY <1>8, <2>1
  <2>3. xs[(a - tf) + 1] = tm.slots[tf + ((a - tf) + 1) - 1]
    BY <1>5, <2>1
  <2>4. r.front + i + (a - tf) = a + up + (h - tf) /\ tf + ((a - tf) + 1) - 1 = a
    BY <1>1, <1>9, SMTT(30) DEF i
  <2> QED
    BY <2>2, <2>3, <2>4
<1>12. ASSUME NEW a \in h .. b - 1 PROVE r.slots[a + up + n] = m.slots[a]
  <2>1. a - f \in i .. b - f - 1
    BY <1>1 DEF i
  <2>2. r.slots[r.front + Len(xs) + (a - f)] = m.slots[f + (a - f)]
    BY <1>8, <2>1
  <2>3. r.front + Len(xs) + (a - f) = a + up + n /\ f + (a - f) = a
    BY <1>1, <1>5, <1>9, SMTT(30)
  <2> QED
    BY <2>2, <2>3
<1>13. Joined(d, t, r, h)
  BY <1>5, <1>8, <1>10, <1>11, <1>12 DEF Joined, n
<1> QED
  BY <1>8, <1>13 DEF r, i, xs

LEMMA DistributeThree ==
  ASSUME NEW a \in Int, NEW b \in Int, NEW c \in Int
  PROVE  /\ (a + b + c) * SegmentSize = a * SegmentSize + b * SegmentSize + c * SegmentSize
         /\ a * SegmentSize \in Int /\ b * SegmentSize \in Int /\ c * SegmentSize \in Int
<1>1. /\ ((a + b) + c) * SegmentSize = (a + b) * SegmentSize + c * SegmentSize
      /\ (a + b) * SegmentSize = a * SegmentSize + b * SegmentSize
      /\ a * SegmentSize \in Int /\ b * SegmentSize \in Int /\ c * SegmentSize \in Int
  <2>1. a + b \in Int
    OBVIOUS
  <2> QED
    BY <2>1, Distribute
<1> QED
  BY <1>1

\* e has the segments of d, and those of t between two of them that hold elements.
JoinedAs(d, t, e, h) ==
  LET n == t.map.back - t.map.front
      up == e.map.front - d.map.front
  IN  /\ Joined(d, t, e.map, h) /\ e.mem = t.mem
      /\ h \in d.map.front .. d.map.back
      /\ First(d) < h * SegmentSize /\ h * SegmentSize < Past(d)
      /\ First(e) = First(d) + up * SegmentSize
      /\ Past(e) = Past(d) + up * SegmentSize + n * SegmentSize

\* The segments of t, which are full, are put between two segments with elements of d.
LEMMA JoinedGood ==
  ASSUME NEW d, NEW kept, NEW m0, Good(d, kept, m0), NEW t, Good(t, d.allocated, d.mem),
         First(t) = t.map.front * SegmentSize, Past(t) = t.map.back * SegmentSize,
         NEW h \in d.map.front .. d.map.back,
         First(d) < h * SegmentSize, h * SegmentSize < Past(d),
         NEW r, MapGood(r), Joined(d, t, r, h),
         NEW e, IsDeque(e), e.map = r, e.mem = t.mem, e.allocated = t.allocated,
         e.begin = It(d.begin.at + (r.front - d.map.front), d.begin.index),
         e.end = It(d.end.at + (r.front - d.map.front) + (t.map.back - t.map.front),
                    d.end.index)
  PROVE  Good(e, kept, m0) /\ JoinedAs(d, t, e, h)
<1> DEFINE f == d.map.front
           b == d.map.back
           tf == t.map.front
           tb == t.map.back
           rf == r.front
           rb == r.back
           n == tb - tf
           up == rf - f
           by == up + (h - tf)
           H == h * SegmentSize
           U == up * SegmentSize
           N == n * SegmentSize
           lo == First(d)
           hi == Past(d)
           ba == d.begin.at
           ea == d.end.at
           bi == d.begin.index
           ei == d.end.index
<1>1. /\ f \in Int /\ b \in Int /\ f =< b /\ tf \in Int /\ tb \in Int /\ tf =< tb
      /\ lo \in Int /\ hi \in Int /\ lo =< hi /\ d.begin \in Iterators /\ d.end \in Iterators
      /\ f * SegmentSize \in Int /\ b * SegmentSize \in Int
      /\ f * SegmentSize =< lo /\ hi =< b * SegmentSize
  BY ShapedNumbers DEF Good, Shaped, Bounded
<1>2. /\ rf \in Int /\ rb \in Int /\ h \in Int /\ f =< h /\ h =< b
  BY <1>1, MapFacts
<1>3. /\ rb - rf = b - f + n
      /\ \A a \in f .. h - 1 : r.slots[a + up] = d.map.slots[a]
      /\ \A a \in tf .. tb - 1 : r.slots[a + up + (h - tf)] = t.map.slots[a]
      /\ \A a \in h .. b - 1 : r.slots[a + up + n] = d.map.slots[a]
  BY DEF Joined
<1>4. /\ n \in Int /\ 0 =< n /\ up \in Int /\ by \in Int /\ up + n \in Int
  BY <1>1, <1>2
<1>5. /\ H \in Int /\ U \in Int /\ N \in Int /\ lo < H /\ H < hi /\ 0 =< N
      /\ SegmentSize \in Nat /\ SegmentSize > 0 /\ 0 \in Indices
  <2>1. H \in Int /\ U \in Int /\ N \in Int
    BY <1>2, <1>4, Distribute
  <2>2. SegmentSize \in Nat /\ SegmentSize > 0 /\ 0 \in Indices
    BY SegmentAssumption DEF Indices
  <2>3. 0 =< N
    <3> HIDE DEF n
    <3> QED
      BY <1>4, <2>2, SMTT(30)
  <2> QED
    BY <2>1, <2>2, <2>3
<1>6. /\ ba \in Int /\ ea \in Int /\ bi \in Indices /\ ei \in Indices
      /\ lo = ba * SegmentSize + bi /\ hi = ea * SegmentSize + ei
      /\ bi \in Int /\ ei \in Int
  BY <1>1 DEF Iterators, Indices, First, Past, Position
<1>7. MapSlots(d) = f .. b - 1 /\ MapSlots(t) = tf .. tb - 1 /\ MapSlots(e) = rf .. rb - 1
  BY DEF MapSlots
<1>8. First(e) = lo + U /\ Past(e) = hi + U + N
  <2>1. First(e) = (ba + up) * SegmentSize + bi
    BY DEF First, Position, It
  <2>2. Past(e) = (ea + up + n) * SegmentSize + ei
    BY DEF Past, Position, It
  <2>3. (ba + up) * SegmentSize = ba * SegmentSize + U
    <3> HIDE DEF ba, up
    <3> QED
      BY <1>4, <1>6, Distribute DEF U
  <2>4. (ea + up + n) * SegmentSize = ea * SegmentSize + U + N
    <3> HIDE DEF ea, up, n
    <3> QED
      BY <1>4, <1>6, DistributeThree DEF U, N
  <2> DEFINE x == (ba + up) * SegmentSize
             y == (ea + up + n) * SegmentSize
             v == ba * SegmentSize
             w == ea * SegmentSize
  <2>5. /\ First(e) = x + bi /\ Past(e) = y + ei /\ x = v + U /\ y = w + U + N
        /\ lo = v + bi /\ hi = w + ei /\ v \in Int /\ w \in Int
    <3>1. v \in Int /\ w \in Int
      BY <1>6, Distribute
    <3> QED
      BY <1>6, <2>1, <2>2, <2>3, <2>4, <3>1
  <2> HIDE DEF x, y, v, w, U, N, lo, hi, bi, ei
  <2> QED
    BY <1>1, <1>5, <1>6, <2>5
<1>9. Shaped(e)
  <2>1. e.begin \in Iterators /\ e.end \in Iterators
    BY <1>4, <1>6 DEF It, Iterators
  <2>2. e.allocated \subseteq Segments /\ e.mem \in [Segments -> Segment]
    BY DEF Good, Shaped, DequeType
  <2> DEFINE F == f * SegmentSize
             B == b * SegmentSize
             RF == rf * SegmentSize
             RB == rb * SegmentSize
  <2>3. RF = F + U /\ RB = B + U + N
    <3>1. rf = f + up /\ rb = b + up + n
      <4>1. up = rf - f /\ rb - rf = b - f + n
        BY <1>3
      <4> HIDE DEF f, up, b, n, rf, rb
      <4> QED
        BY <1>1, <1>2, <1>4, <4>1
    <3>2. (f + up) * SegmentSize = F + U /\ (b + up + n) * SegmentSize = B + U + N
      <4>1. f \in Int /\ b \in Int /\ up \in Int /\ n \in Int
        BY <1>1, <1>4
      <4> HIDE DEF f, up, b, n
      <4>2. (f + up) * SegmentSize = F + U
        BY <4>1, Distribute DEF F, U
      <4>3. (b + up + n) * SegmentSize = B + U + N
        BY <4>1, DistributeThree DEF B, U, N
      <4> QED
        BY <4>2, <4>3
    <3> QED
      BY <3>1, <3>2
  <2>4. F =< lo /\ hi =< B /\ F \in Int /\ B \in Int
    BY <1>1
  <2>5. RF =< First(e) /\ First(e) =< Past(e) /\ Past(e) =< RB
    <3> HIDE DEF F, B, RF, RB, U, N, lo, hi
    <3> QED
      BY <1>1, <1>5, <1>8, <2>3, <2>4
  <2>6. Bounded(e)
    BY <2>5 DEF Bounded
  <2> QED
    BY <2>1, <2>2, <2>6, ShapedIf
<1> DEFINE P == [a \in MapSlots(d) |-> IF a < h THEN a + up ELSE a + up + n]
           Q == [a \in MapSlots(t) |-> a + by]
<1> HIDE DEF lo, hi, ba, ea, bi, ei
<1>10. ASSUME NEW a \in MapSlots(d) PROVE SameSlot(d, e, a, P[a])
  <2>0. a \in Int /\ f =< a /\ a < b
    BY <1>1, <1>7
  <2> DEFINE A == a * SegmentSize
  <2>1. CASE a < h
    <3>1. P[a] = a + up
      BY <2>1
    <3>2. a + up \in MapSlots(e) /\ r.slots[a + up] = d.map.slots[a]
      <4>1. a \in f .. h - 1
        BY <1>2, <2>0, <2>1
      <4>2. a + up \in rf .. rb - 1
        BY <1>1, <1>2, <1>3, <1>4, <2>0
      <4> QED
        BY <1>3, <1>7, <4>1, <4>2
    <3>3. ASSUME NEW i \in Indices PROVE Within(e, a + up, i) <=> Within(d, a, i)
      <4>1. (a + up) * SegmentSize = A + U /\ A \in Int
        <5> HIDE DEF up
        <5> QED
          BY <1>4, <2>0, Distribute DEF U
      <4>2. A + i < H
        BY <1>2, <2>0, <2>1, PlaceOrder
      <4>3. i \in Int
        BY DEF Indices
      <4> DEFINE X == (a + up) * SegmentSize
      <4>4. Within(e, a + up, i) <=> lo + U =< X + i /\ X + i < hi + U + N
        BY <1>8 DEF Within
      <4>5. Within(d, a, i) <=> lo =< A + i /\ A + i < hi
        BY DEF Within, lo, hi
      <4>6. X = A + U
        BY <4>1
      <4> HIDE DEF X, A, H, U, N
      <4> QED
        BY <1>1, <1>5, <4>1, <4>2, <4>3, <4>4, <4>5, <4>6
    <3> QED
      BY <3>1, <3>2, <3>3 DEF SameSlot
  <2>2. CASE ~(a < h)
    <3>1. P[a] = a + up + n
      BY <2>2
    <3>2. a + up + n \in MapSlots(e) /\ r.slots[a + up + n] = d.map.slots[a]
      <4>1. a \in h .. b - 1
        BY <1>1, <1>2, <2>0, <2>2
      <4>2. a + up + n \in rf .. rb - 1
        BY <1>1, <1>2, <1>3, <1>4, <2>0
      <4> QED
        BY <1>3, <1>7, <4>1, <4>2
    <3>3. ASSUME NEW i \in Indices PROVE Within(e, a + up + n, i) <=> Within(d, a, i)
      <4>1. (a + up + n) * SegmentSize = A + U + N /\ A \in Int
        <5>1. a \in Int /\ up \in Int /\ n \in Int
          BY <1>4, <2>0
        <5> HIDE DEF up, n
        <5> QED
          BY <5>1, DistributeThree DEF A, U, N
      <4>2. H =< A + i
        BY <1>2, <2>0, <2>2, PlaceOrder
      <4>3. i \in Int
        BY DEF Indices
      <4> DEFINE X == (a + up + n) * SegmentSize
      <4>4. Within(e, a + up + n, i) <=> lo + U =< X + i /\ X + i < hi + U + N
        BY <1>8 DEF Within
      <4>5. Within(d, a, i) <=> lo =< A + i /\ A + i < hi
        BY DEF Within, lo, hi
      <4>6. X = A + U + N
        BY <4>1
      <4> HIDE DEF X, A, H, U, N
      <4> QED
        BY <1>1, <1>5, <4>1, <4>2, <4>3, <4>4, <4>5, <4>6
    <3> QED
      BY <3>1, <3>2, <3>3 DEF SameSlot
  <2> QED
    BY <2>1, <2>2
<1>11. ASSUME NEW a \in MapSlots(t) PROVE SameSlot(t, e, a, Q[a])
  <2>0. a \in Int /\ tf =< a /\ a < tb
    BY <1>1, <1>7
  <2>1. Q[a] = a + by /\ a + by = a + up + (h - tf)
    BY <1>1, <1>2, <1>4, <2>0
  <2>2. a + by \in MapSlots(e) /\ r.slots[a + by] = t.map.slots[a]
    <3>1. a + by \in rf .. rb - 1
      BY <1>1, <1>2, <1>3, <2>0
    <3>2. r.slots[a + up + (h - tf)] = t.map.slots[a]
      BY <1>3, <1>7
    <3> QED
      BY <1>7, <2>1, <3>1, <3>2
  <2>3. ASSUME NEW i \in Indices PROVE Within(e, a + by, i) <=> Within(t, a, i)
    <3> DEFINE j == a - tf
               J == j * SegmentSize
               X == (a + by) * SegmentSize
               A == a * SegmentSize
    <3>0. i \in Int /\ 0 =< i
      BY <1>5 DEF Indices
    <3>1. Within(t, a, i)
      <4>1. /\ A + i < tb * SegmentSize
            /\ tf * SegmentSize =< A + i
        BY <1>1, <2>0, PlaceOrder
      <4> QED
        BY <4>1 DEF Within
    <3>2. j \in Int /\ 0 =< j /\ j < n /\ a + by = j + h + up
      BY <1>1, <1>2, <1>4, <2>0
    <3>3. X = J + H + U /\ J \in Int
      <4>0. j \in Int /\ h \in Int /\ up \in Int
        BY <1>2, <1>4, <3>2
      <4> HIDE DEF j, up, by
      <4>1. (j + h + up) * SegmentSize = J + H + U /\ J \in Int
        BY <4>0, DistributeThree DEF U, H, J
      <4> QED
        BY <3>2, <4>1
    <3>4. 0 * SegmentSize =< J + i /\ J + i < N /\ 0 * SegmentSize = 0
      <4> HIDE DEF j, n
      <4>1. (0 * SegmentSize =< J + i <=> 0 =< j) /\ (J + i < N <=> j < n)
        BY <1>4, <3>2, PlaceOrder
      <4> QED
        BY <1>5, <3>2, <4>1
    <3>5. Within(e, a + by, i) <=> lo + U =< X + i /\ X + i < hi + U + N
      BY <1>8 DEF Within
    <3>6. lo + U =< X + i /\ X + i < hi + U + N
      <4> HIDE DEF X, J, H, U, N
      <4> QED
        BY <1>1, <1>5, <3>0, <3>3, <3>4
    <3> QED
      BY <3>1, <3>5, <3>6
  <2> QED
    BY <2>1, <2>2, <2>3 DEF SameSlot
<1>12. ASSUME NEW c \in MapSlots(e)
       PROVE  (\E a \in MapSlots(d) : c = P[a]) \/ (\E a \in MapSlots(t) : c = Q[a])
  <2>0. c \in Int /\ rf =< c /\ c < rb
    BY <1>2, <1>7
  <2>1. CASE c - up < h
    <3> DEFINE a == c - up
    <3>1. a \in f .. b - 1 /\ a < h /\ c = a + up
      BY <1>1, <1>2, <1>4, <2>0, <2>1
    <3> QED
      BY <1>7, <3>1
  <2>2. CASE h =< c - up /\ c - up < h + n
    <3> DEFINE a == c - by
    <3>1. a \in tf .. tb - 1 /\ c = a + by
      BY <1>1, <1>2, <1>4, <2>0, <2>2
    <3> QED
      BY <1>7, <3>1
  <2>3. CASE h + n =< c - up
    <3> DEFINE a == c - up - n
    <3>1. a \in f .. b - 1 /\ ~(a < h) /\ c = a + up + n
      BY <1>1, <1>2, <1>3, <1>4, <2>0, <2>3
    <3> QED
      BY <1>7, <3>1
  <2> QED
    BY <1>2, <1>4, <2>0, <2>1, <2>2, <2>3
<1>13. Spliced(d, t, e, P, Q)
  <2> HIDE DEF P, Q
  <2> QED
    BY <1>10, <1>11, <1>12 DEF Spliced
<1>14. Good(e, kept, m0)
  BY <1>9, <1>13, SplicedGood
<1>15. JoinedAs(d, t, e, h)
  BY <1>8 DEF JoinedAs, lo, hi
<1> QED
  BY <1>14, <1>15

\* The splice of stable_insert, for a hint behind the first segment.
LEMMA StableSpliceGood ==
  ASSUME NEW d, NEW kept, NEW m0, Good(d, kept, m0), Divides,
         NEW index \in 0 .. SizeOf(d), ~StableAtEnd(d, index), ~StableAtStart(d, index),
         NEW t, Good(t, d.allocated, d.mem),
         First(t) = t.map.front * SegmentSize, Past(t) = t.map.back * SegmentSize,
         Map!InsertRangeOk(d.map, Map!SizeOf(t.map))
  PROVE  /\ Good(StableSplice(d, t, StableHint(d, index)), kept, m0)
         /\ JoinedAs(d, t, StableSplice(d, t, StableHint(d, index)),
                     StableHint(d, index).at)
         /\ StableHint(d, index).at * SegmentSize =< First(d) + index
<1> DEFINE hint == StableHint(d, index)
           h == hint.at
           p == First(d) + index
           f == d.map.front
           b == d.map.back
           ba == d.begin.at
           bi == d.begin.index
           tf == t.map.front
           tb == t.map.back
           r == Map!InsertRange(d.map, h - f, Map!Contents(t.map))
           e == StableSplice(d, t, hint)
<1>0. Shaped(d) /\ Owned(d, kept) /\ Shaped(t)
  BY DEF Good
<1>1. /\ f \in Nat /\ b \in Nat /\ d.begin \in Iterators /\ d.end \in Iterators
      /\ First(d) \in Int /\ Past(d) \in Int
      /\ f * SegmentSize \in Int /\ b * SegmentSize \in Int
      /\ f * SegmentSize =< First(d) /\ First(d) =< Past(d) /\ Past(d) =< b * SegmentSize
      /\ SizeOf(d) = Past(d) - First(d) /\ SizeOf(d) \in Nat
      /\ tf \in Nat /\ tb \in Nat /\ Locate(First(t)) = t.begin /\ Locate(Past(t)) = t.end
  BY <1>0, ShapedNumbers, SizeIs DEF Shaped, Bounded
<1>2. index \in Int /\ 0 =< index /\ index < SizeOf(d)
  BY <1>1 DEF StableAtEnd
<1>3. p \in Int /\ First(d) =< p /\ p < Past(d)
  BY <1>1, <1>2
<1>4. hint = Locate(p)
  <2>1. Position(d.begin) = First(d)
    BY DEF First
  <2>2. /\ f * SegmentSize =< First(d) + index /\ First(d) + index =< b * SegmentSize
        /\ First(d) =< b * SegmentSize
    <3> HIDE DEF f, b
    <3> QED
      BY <1>1, <1>3
  <2>3. Advance(d.begin, index) = Locate(First(d) + index)
    BY <1>1, <1>2, <2>1, <2>2, AdvanceInside
  <2> QED
    BY <2>3 DEF StableHint
<1>5. h = p \div SegmentSize
  BY <1>4 DEF Locate, It
<1> DEFINE i == p % SegmentSize
<1>6. h \in Int /\ i \in Indices /\ h * SegmentSize + i = p
  BY <1>3, <1>5, PartsOf
<1>7. ba \in Int /\ bi \in Indices /\ First(d) = ba * SegmentSize + bi
  BY <1>1 DEF First, Position, Iterators
<1>8. h # ba
  BY DEF StableAtStart
<1> HIDE DEF hint, h, p, f, b, ba, bi, i, tf, tb
<1>9. ba < h
  <2>1. ba * SegmentSize =< p
    <3>1. bi \in Nat /\ ba * SegmentSize \in Int
      BY <1>7, SegmentAssumption, Distribute DEF Indices
    <3> QED
      BY <1>1, <1>3, <1>7, <3>1
  <2>2. ba =< h
    BY <1>6, <1>7, <2>1, PlaceOrder
  <2> QED
    BY <1>6, <1>7, <1>8, <2>2
<1>10. /\ First(d) < h * SegmentSize /\ h * SegmentSize < Past(d)
       /\ h * SegmentSize =< p /\ h * SegmentSize \in Int
  <2>1. First(d) < h * SegmentSize
    BY <1>6, <1>7, <1>9, PlaceOrder
  <2>2. h * SegmentSize =< p /\ h * SegmentSize \in Int
    <3>1. i \in Nat /\ h * SegmentSize \in Int
      BY <1>6, SegmentAssumption, Distribute DEF Indices
    <3> QED
      BY <1>3, <1>6, <3>1
  <2> QED
    BY <1>1, <1>3, <2>1, <2>2
<1>11. h \in f .. b
  <2> DEFINE z == 0
  <2>1. z \in Indices
    BY SegmentAssumption DEF Indices
  <2>2. f * SegmentSize =< h * SegmentSize + i /\ h * SegmentSize + i < b * SegmentSize
    BY <1>1, <1>3, <1>6
  <2>3. f =< h /\ h < b
    BY <1>1, <1>6, <2>2, PlaceOrder
  <2> QED
    BY <1>1, <1>6, <2>3
<1>12. MapGood(r) /\ Joined(d, t, r, h)
  <2>1. h \in d.map.front .. d.map.back
    BY <1>11 DEF f, b
  <2> QED
    BY <1>0, <2>1, JoinedMap DEF f
<1>13. t.begin.at = tf /\ t.end.at = tb
  <2>1. 0 \in Indices /\ tf \in Int /\ tb \in Int
    BY <1>1, SegmentAssumption DEF Indices
  <2>2. First(t) = tf * SegmentSize + 0 /\ Past(t) = tb * SegmentSize + 0
    <3>1. tf * SegmentSize \in Int /\ tb * SegmentSize \in Int
      BY <2>1, Distribute
    <3> QED
      BY <3>1 DEF tf, tb
  <2>3. t.begin = It(tf, 0) /\ t.end = It(tb, 0)
    BY <1>1, <2>1, <2>2, LocatePlace
  <2> QED
    BY <2>3 DEF It
<1> DEFINE ea == d.end.at
           ei == d.end.index
           nb == r.front + (ba - f)
           ne == r.front + (ba - f) + (ea - ba) + (tb - tf)
<1>14. ea \in Int /\ ei \in Indices /\ r.front \in Int
  BY <1>1, <1>12, MapFacts DEF Iterators
<1>15. e = [d EXCEPT !.map = r, !.mem = t.mem, !.allocated = t.allocated,
                     !.begin.at = nb, !.end.at = ne]
  BY <1>13 DEF StableSplice, h, f, ba
<1>16. /\ IsDeque(e) /\ e.map = r /\ e.mem = t.mem /\ e.allocated = t.allocated
       /\ e.begin = It(nb, bi) /\ e.end = It(ne, ei)
  <2>1. PICK mm, al, me : d = [map |-> mm, allocated |-> al, mem |-> me,
                               begin |-> d.begin, end |-> d.end]
    BY <1>0, ShapedNumbers DEF IsDeque
  <2>2. d.begin = [at |-> ba, index |-> bi] /\ d.end = [at |-> ea, index |-> ei]
    BY <1>1 DEF Iterators, ba, bi
  <2> HIDE DEF r, nb, ne, e, ea, ei
  <2>3. d = [map |-> mm, allocated |-> al, mem |-> me,
             begin |-> [at |-> ba, index |-> bi], end |-> [at |-> ea, index |-> ei]]
    BY <2>1, <2>2
  <2>4. e = [map |-> r, allocated |-> t.allocated, mem |-> t.mem,
             begin |-> [at |-> nb, index |-> bi], end |-> [at |-> ne, index |-> ei]]
    BY <1>15, <2>3
  <2> QED
    BY <2>4 DEF IsDeque, It
<1>17. nb = ba + (r.front - f) /\ ne = ea + (r.front - f) + (tb - tf)
  <2> DEFINE rf == r.front
  <2>1. f \in Int /\ ba \in Int /\ tb \in Int /\ tf \in Int /\ ea \in Int /\ rf \in Int
    BY <1>1, <1>7, <1>14
  <2>2. nb = rf + (ba - f) /\ ne = rf + (ba - f) + (ea - ba) + (tb - tf)
    OBVIOUS
  <2> HIDE DEF rf, ea, nb, ne
  <2>3. nb = ba + (rf - f) /\ ne = ea + (rf - f) + (tb - tf)
    BY <2>1, <2>2
  <2> QED
    BY <2>3 DEF rf
<1> HIDE DEF e, r, nb, ne
<1>18. /\ e.begin = It(d.begin.at + (r.front - d.map.front), d.begin.index)
       /\ e.end = It(d.end.at + (r.front - d.map.front) + (t.map.back - t.map.front),
                     d.end.index)
  BY <1>16, <1>17 DEF ba, bi, f, tf, tb
<1>19. h \in d.map.front .. d.map.back
  BY <1>11 DEF f, b
<1>20. Good(e, kept, m0) /\ JoinedAs(d, t, e, h)
  BY <1>10, <1>12, <1>16, <1>18, <1>19, JoinedGood
<1>21. h * SegmentSize =< First(d) + index
  BY <1>10 DEF p
<1> QED
  BY <1>20, <1>21 DEF e, h, hint

LEMMA StableInsertGood ==
  ASSUME NEW d, NEW kept, NEW m0, Good(d, kept, m0), Divides, NEW xs \in Seq(Object),
         NEW index \in 0 .. SizeOf(d), NEW bidirectional,
         NEW e \in StableInsert(d, index, xs, bidirectional)
  PROVE  Good(e, kept, m0)
<1>1. CASE StableAtEnd(d, index)
  BY <1>1, InsertRangeGood DEF StableInsert
<1>2. CASE ~StableAtEnd(d, index) /\ StableAtStart(d, index)
  <2>1. 0 \in 0 .. SizeOf(d)
    BY SizeIs DEF Good
  <2> QED
    BY <1>2, <2>1, InsertRangeGood DEF StableInsert
<1>3. CASE ~StableAtEnd(d, index) /\ ~StableAtStart(d, index)
  <2>1. PICK t \in StableTmp(d, xs) :
               /\ Map!InsertRangeOk(d.map, Map!SizeOf(t.map))
               /\ e = StableSplice(d, t, StableHint(d, index))
    BY <1>3 DEF StableInsert, StableBetween
  <2>2. /\ Good(t, d.allocated, d.mem)
        /\ First(t) = t.map.front * SegmentSize /\ Past(t) = t.map.back * SegmentSize
    BY <2>1, StableTmpGood
  <2> QED
    BY <1>3, <2>1, <2>2, StableSpliceGood
<1> QED
  BY <1>1, <1>2, <1>3

LEMMA StableInsertThrewGood ==
  ASSUME NEW d, NEW kept, NEW m0, Good(d, kept, m0), Divides, NEW xs \in Seq(Object),
         NEW index \in 0 .. SizeOf(d), NEW bidirectional,
         NEW e \in StableInsertThrew(d, index, xs, bidirectional)
  PROVE  Good(e, kept, m0)
<1>1. CASE StableAtEnd(d, index)
  BY <1>1, InsertRangeThrewGood DEF StableInsertThrew
<1>2. CASE ~StableAtEnd(d, index) /\ StableAtStart(d, index)
  <2>1. 0 \in 0 .. SizeOf(d)
    BY SizeIs DEF Good
  <2> QED
    BY <1>2, <2>1, InsertRangeThrewGood DEF StableInsertThrew
<1>3. CASE ~StableAtEnd(d, index) /\ ~StableAtStart(d, index)
  BY <1>3 DEF StableInsertThrew
<1> QED
  BY <1>1, <1>2, <1>3

-----------------------------------------------------------------------------
\* Constructors

\* The map of a new deque
LEMMA BuiltMap ==
  ASSUME NEW n \in Nat, n =< MapMax, NEW k \in Nat, k =< n, k =< MaxSegments
  PROVE  LET m == [Map!Reserved(0, n) EXCEPT
                     !.slots = Map!Put(@, 0, [s \in 1 .. k |-> s]), !.back = k]
         IN  /\ MapGood(m) /\ m.front = 0 /\ m.back = k
             /\ \A a \in 0 .. k - 1 : m.slots[a] = a + 1
<1> DEFINE o == Map!Reserved(0, n)
           xs == [s \in 1 .. k |-> s]
           m == [o EXCEPT !.slots = Map!Put(@, 0, xs), !.back = k]
           r == Map!PutBack(o, xs)
<1>1. /\ MapGood(o) /\ o.front = 0 /\ o.back = 0
  BY MapReserved
<1>2. o.cap = n /\ MapMax \in Nat /\ MaxSegments \in Nat
  BY BatchAssumption DEF Map!Reserved, Map!Larger
<1>3. xs \in Seq(MapP!Object) /\ Len(xs) = k /\ \A s \in 1 .. k : xs[s] = s
  BY <1>2 DEF MapP!Object, Segments
<1>4. o \in Map!DevectorType
  BY <1>1, MapFacts
<1> HIDE DEF o, xs
<1>5. r = m
  <2>1. o.back = 0 /\ 0 + Len(xs) = k
    BY <1>1, <1>3
  <2> HIDE DEF m, r
  <2>2. r = [o EXCEPT !.slots = Map!Put(@, 0, xs), !.back = 0 + Len(xs)]
    BY <2>1 DEF Map!PutBack, r
  <2> QED
    BY <2>1, <2>2 DEF m
<1>6. MapGood(m)
  <2>1. MapP!Good(o) /\ Len(xs) =< MapP!BackFree(o)
    BY <1>1, <1>2, <1>3 DEF MapGood, MapP!BackFree
  <2>2. MapP!Good(MapP!PutBack(o, xs))
    BY <1>3, <2>1, MapConstants, MapP!PutBackGood
  <2> QED
    BY <1>5, <2>2, MapSamePutBack DEF MapGood
<1>7. m.front = 0 /\ m.back = k /\ m.slots = Map!Put(o.slots, 0, xs)
  BY <1>1, <1>4 DEF Map!DevectorType
<1> HIDE DEF m
<1>8. ASSUME NEW a \in 0 .. k - 1 PROVE m.slots[a] = a + 1
  <2>1. a \in Map!Address /\ 0 =< a /\ a < 0 + Len(xs) /\ a - 0 + 1 \in 1 .. k
        /\ a - 0 + 1 = a + 1
    BY <1>2, <1>3 DEF Map!Address
  <2>2. m.slots[a] = xs[a - 0 + 1]
    BY <1>7, <2>1 DEF Map!Put
  <2> QED
    BY <1>3, <2>1, <2>2
<1> QED
  BY <1>6, <1>7, <1>8 DEF m, o, xs

LEMMA BuiltGood ==
  ASSUME Divides, NEW c \in Nat, c =< MapMax, NEW index \in Indices, NEW xs \in Seq(Object),
         SegmentCount(index + Len(xs)) =< MaxSegments, SegmentCount(index + Len(xs)) =< c,
         NEW m0
  PROVE  Good(Built(c, index, xs), {}, m0) /\ Contents(Built(c, index, xs)) = xs
<1> DEFINE n == Len(xs)
           k == SegmentCount(index + n)
           e == Built(c, index, xs)
           at(s, i) == (s - 1) * SegmentSize + i - index + 1
           m == [Map!Reserved(0, c) EXCEPT
                   !.slots = Map!Put(@, 0, [s \in 1 .. k |-> s]), !.back = k]
           mem == [s \in Segments |-> [i \in Indices |->
                     IF at(s, i) \in 1 .. Len(xs) THEN xs[at(s, i)] ELSE Raw]]
<1>1. /\ n \in Nat /\ index \in Nat /\ index + n \in Nat /\ SegmentSize \in Nat
      /\ SegmentSize > 1 /\ MaxSegments \in Nat /\ index < SegmentSize
  BY SegmentAssumption, BatchAssumption DEF Indices
<1>2. k \in Nat /\ k * SegmentSize \in Nat /\ index + n =< k * SegmentSize
      /\ k * SegmentSize < index + n + SegmentSize
  BY <1>1, SegmentCountIs
<1>3. k * SegmentSize < Word
  <2> DEFINE x == SegmentSize * MaxSegments
             y == k * SegmentSize
  <2>1. x < Word \div 2 /\ x \in Int /\ y \in Int /\ y =< x /\ Word \in Nat
    <3>1. \A j \in Nat : j =< MaxSegments => j * SegmentSize =< x
      BY <1>1
    <3> HIDE DEF x, k
    <3> QED
      BY <1>2, <3>1, SegmentAssumption, BatchAssumption DEF x, k
  <2> HIDE DEF x, y
  <2> QED
    BY <2>1 DEF y
<1>4. MapGood(m) /\ m.front = 0 /\ m.back = k /\ \A a \in 0 .. k - 1 : m.slots[a] = a + 1
  <2> HIDE DEF n, k
  <2>1. k =< c /\ k =< MaxSegments
    BY DEF k, n
  <2> QED
    BY <1>2, <2>1, BuiltMap
<1> HIDE DEF k
<1>5. It(0, index) \in Iterators /\ Position(It(0, index)) = index
  BY <1>1 DEF It, Iterators, Position
<1>6. Advance(It(0, index), n) = Locate(index + n)
  <2>1. It(0, index).index + n < Word
    BY <1>1, <1>2, <1>3, SegmentAssumption DEF It
  <2> QED
    BY <1>1, <1>5, <2>1, AdvanceIs
<1>7. Locate(index + n) \in Iterators /\ Position(Locate(index + n)) = index + n
  BY <1>1, LocatePosition
<1>8. /\ IsDeque(e) /\ e.map = m /\ e.allocated = 1 .. k /\ e.mem = mem
      /\ e.begin = It(0, index) /\ e.end = Locate(index + n)
  <2>1. e = [map |-> m, allocated |-> 1 .. k, mem |-> mem, begin |-> It(0, index),
             end |-> Locate(index + n)]
    BY <1>6 DEF Built, k
  <2> HIDE DEF e, m, mem
  <2> QED
    BY <2>1 DEF IsDeque
<1> HIDE DEF e, m
<1>9. First(e) = index /\ Past(e) = index + n
  BY <1>5, <1>7, <1>8 DEF First, Past
<1>10. MapSlots(e) = 0 .. k - 1
  BY <1>4, <1>8 DEF MapSlots
<1>11. k =< MaxSegments
  BY DEF k
<1>12. mem \in [Segments -> Segment]
  <2>1. ASSUME NEW s \in Segments, NEW i \in Indices
        PROVE  (IF at(s, i) \in 1 .. Len(xs) THEN xs[at(s, i)] ELSE Raw) \in Slot
    <3>1. \A j \in 1 .. Len(xs) : xs[j] \in Object
      OBVIOUS
    <3> HIDE DEF at
    <3> QED
      BY <3>1 DEF Slot
  <2> HIDE DEF at
  <2> QED
    BY <2>1 DEF Segment
<1>13. Shaped(e)
  <2>1. Bounded(e)
    <3>1. 0 * SegmentSize = 0
      BY <1>1
    <3> HIDE DEF n
    <3> QED
      BY <1>1, <1>2, <1>4, <1>8, <1>9, <3>1 DEF Bounded
  <2>2. 1 .. k \subseteq Segments
    BY <1>1, <1>2, <1>11 DEF Segments
  <2> HIDE DEF mem
  <2> QED
    BY <1>4, <1>5, <1>7, <1>8, <1>12, <2>1, <2>2, ShapedIf
<1>14. Owned(e, {})
  <2>1. ASSUME NEW a \in MapSlots(e)
        PROVE  /\ e.map.slots[a] \in e.allocated \ {} /\ a \in Int
               /\ e.map.slots[a] = a + 1
    BY <1>2, <1>4, <1>8, <1>10
  <2>2. ASSUME NEW s \in e.allocated \ {}
        PROVE  \E a \in MapSlots(e) : e.map.slots[a] = s
    <3>1. s \in 1 .. k
      BY <1>8
    <3>2. s - 1 \in 0 .. k - 1 /\ (s - 1) + 1 = s
      BY <1>2, <3>1
    <3> QED
      BY <1>4, <1>8, <1>10, <3>2
  <2>3. \A a, b \in MapSlots(e) : e.map.slots[a] = e.map.slots[b] => a = b
    BY <2>1
  <2> QED
    BY <2>1, <2>2, <2>3 DEF Owned
\* The element of a cell
<1>15. ASSUME NEW a \in MapSlots(e), NEW i \in Indices
       PROVE  /\ e.mem[e.map.slots[a]][i] # Raw <=> Within(e, a, i)
              /\ Within(e, a, i) =>
                   e.mem[e.map.slots[a]][i] = xs[a * SegmentSize + i - index + 1]
  <2> DEFINE x == a * SegmentSize
             j == x + i - index + 1
  <2>1. a \in Int /\ a + 1 \in Segments /\ x \in Int /\ i \in Int
        /\ e.map.slots[a] = a + 1
    <3>1. a \in 0 .. k - 1 /\ k \in Nat
      BY <1>2, <1>10
    <3> QED
      BY <1>1, <1>4, <1>8, <1>11, <3>1 DEF Segments, Indices
  <2>2. ((a + 1) - 1) * SegmentSize = x
    <3>1. (a + 1) - 1 = a
      BY <2>1
    <3> QED
      BY <3>1
  <2>3. e.mem[a + 1][i] = IF j \in 1 .. n THEN xs[j] ELSE Raw
    <3>1. e.mem[a + 1][i] = IF at(a + 1, i) \in 1 .. n THEN xs[at(a + 1, i)] ELSE Raw
      BY <1>8, <2>1
    <3>2. at(a + 1, i) = j
      BY <2>2
    <3> QED
      BY <3>1, <3>2
  <2>4. j \in 1 .. n <=> index =< x + i /\ x + i < index + n
    <3> HIDE DEF x, n
    <3> QED
      BY <1>1, <2>1
  <2>5. j \in 1 .. n => xs[j] # Raw
    <3> HIDE DEF j
    <3> QED
      BY BatchAssumption DEF Object
  <2>6. Within(e, a, i) <=> index =< x + i /\ x + i < index + n
    <3> HIDE DEF n
    <3> QED
      BY <1>9 DEF Within
  <2>7. e.mem[e.map.slots[a]] = e.mem[a + 1]
    BY <2>1
  <2>8. xs[a * SegmentSize + i - index + 1] = xs[j]
    OBVIOUS
  <2> HIDE DEF j, n, x
  <2> QED
    BY <2>3, <2>4, <2>5, <2>6, <2>7, <2>8
<1>16. Filled(e)
  BY <1>15 DEF Filled
<1>17. Tidy(e)
  <2>1. ASSUME NEW s \in Segments \ e.allocated PROVE e.mem[s] = EmptySegment
    <3> DEFINE x == (s - 1) * SegmentSize
    <3>1. s \in Int /\ k =< s - 1
      BY <1>1, <1>2, <1>8 DEF Segments
    <3>2. k * SegmentSize =< x /\ x \in Int
      <4>1. 0 \in Indices /\ s - 1 \in Int /\ k \in Int
        BY <1>1, <1>2, <3>1 DEF Indices
      <4>2. k * SegmentSize =< (s - 1) * SegmentSize + 0
        BY <3>1, <4>1, PlaceOrder
      <4>3. x \in Int
        BY <4>1, Distribute
      <4> HIDE DEF x
      <4>4. k * SegmentSize =< x + 0
        BY <4>2 DEF x
      <4> QED
        BY <4>3, <4>4
    <3>3. ASSUME NEW i \in Indices PROVE e.mem[s][i] = Raw
      <4>1. ~(at(s, i) \in 1 .. n)
        <5>1. at(s, i) = x + i - index + 1 /\ i \in Int /\ 0 =< i
          BY <1>1 DEF Indices
        <5> HIDE DEF x, n, at
        <5> QED
          BY <1>1, <1>2, <3>2, <5>1
      <4>2. e.mem[s][i] = IF at(s, i) \in 1 .. n THEN xs[at(s, i)] ELSE Raw
        BY <1>8
      <4> QED
        BY <4>1, <4>2
    <3>4. e.mem[s] \in [Indices -> Slot]
      BY <1>8, <1>12 DEF Segment
    <3>5. EmptySegment \in [Indices -> Slot] /\ \A i \in Indices : EmptySegment[i] = Raw
      BY DEF EmptySegment, Slot
    <3> HIDE DEF mem
    <3> QED
      BY <3>3, <3>4, <3>5, SameFunction
  <2> QED
    BY <1>15, <2>1 DEF Tidy
<1>18. Good(e, {}, m0)
  BY <1>13, <1>14, <1>16, <1>17 DEF Good
<1>19. SizeOf(e) = n
  <2>1. SizeOf(e) = Past(e) - First(e)
    BY <1>13, <1>14, SizeIs
  <2> HIDE DEF n
  <2> QED
    BY <1>1, <1>9, <2>1
<1>20. ASSUME NEW j \in 1 .. n PROVE Cell(e, First(e) + j - 1) = xs[j]
  <2> DEFINE p == index + j - 1
             a == p \div SegmentSize
             i == p % SegmentSize
  <2>1. p \in Int /\ index =< p /\ p < index + n /\ p - index + 1 = j
        /\ First(e) + j - 1 = p
    <3> HIDE DEF n
    <3> QED
      BY <1>1, <1>9
  <2> HIDE DEF p
  <2>2. e.map.front * SegmentSize =< p /\ p < e.map.back * SegmentSize
    <3>1. e.map.front * SegmentSize = 0 /\ e.map.back * SegmentSize = k * SegmentSize
      BY <1>1, <1>4, <1>8
    <3> HIDE DEF n
    <3> QED
      BY <1>1, <1>2, <2>1, <3>1
  <2>3. /\ a \in MapSlots(e) /\ i \in Indices /\ a * SegmentSize + i = p
        /\ Cell(e, p) = e.mem[e.map.slots[a]][i]
    BY <1>13, <2>1, <2>2, SlotAt
  <2> HIDE DEF a, i
  <2>4. Within(e, a, i)
    BY <1>9, <2>1, <2>3 DEF Within
  <2>5. e.mem[e.map.slots[a]][i] = xs[a * SegmentSize + i - index + 1]
    BY <1>15, <2>3, <2>4
  <2>6. xs[a * SegmentSize + i - index + 1] = xs[j]
    <3> DEFINE r == a * SegmentSize
    <3>1. a \in Int /\ i \in Int /\ index \in Int /\ j \in Int
      BY <2>3 DEF MapSlots, Indices
    <3>2. r \in Int
      BY <3>1, SegmentAssumption
    <3>3. r + i = p /\ p - index + 1 = j
      BY <2>1, <2>3
    <3> HIDE DEF r, n, k, mem, at, p
    <3>4. r + i - index + 1 = j
      BY <3>1, <3>2, <3>3
    <3> QED
      BY <3>4 DEF r
  <2> QED
    BY <2>1, <2>3, <2>5, <2>6
<1>21. Contents(e) = xs
  <2>1. xs = [j \in 1 .. n |-> xs[j]]
    OBVIOUS
  <2>2. Contents(e) = [j \in 1 .. n |-> Cell(e, First(e) + j - 1)]
    BY <1>19 DEF Contents
  <2> HIDE DEF n
  <2> QED
    BY <1>20, <2>1, <2>2
<1> QED
  BY <1>18, <1>21 DEF e

LEMMA ConstructedGood ==
  ASSUME Divides, NEW xs \in Seq(Object), SegmentCount(Len(xs)) =< MaxSegments, NEW m0
  PROVE  Good(Constructed(xs), {}, m0) /\ Contents(Constructed(xs)) = xs
<1>1. Len(xs) \in Nat /\ 0 + Len(xs) = Len(xs) /\ 0 \in Indices
  BY SegmentAssumption DEF Indices
<1>2. SegmentCount(Len(xs)) \in Nat /\ SegmentCount(Len(xs)) =< MapMax
  <2>1. SegmentCount(Len(xs)) \in Nat
    BY <1>1, SegmentCountIs
  <2> DEFINE k == SegmentCount(Len(xs))
  <2>2. k \in Nat /\ k =< MaxSegments
    BY <2>1
  <2> HIDE DEF k
  <2>3. k =< MapMax
    BY <2>2, BatchAssumption
  <2> QED
    BY <2>1, <2>3 DEF k
<1> DEFINE k == SegmentCount(Len(xs))
<1>3. k \in Nat /\ k =< MapMax /\ k =< MaxSegments /\ k =< k
      /\ SegmentCount(0 + Len(xs)) = k
  BY <1>1, <1>2
<1> HIDE DEF k
<1>4. Good(Built(k, 0, xs), {}, m0) /\ Contents(Built(k, 0, xs)) = xs
  BY <1>1, <1>3, BuiltGood
<1> QED
  BY <1>4 DEF Constructed, k

=============================================================================
