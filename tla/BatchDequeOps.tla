---------------------------- MODULE BatchDequeOps ----------------------------
(***************************************************************************)
(* The member functions of boost::double_ended::batch_deque, as operators  *)
(* on one object.  An object is a record of                                *)
(*                                                                         *)
(*   map        _map: a devector, as DevectorOps models it, of pointers to *)
(*              segments                                                   *)
(*   begin, end _begin and _end: iterators, whose `at` is a slot of _map   *)
(*   allocated  the segments obtained from the allocator and not returned  *)
(*   mem        what each cell of each segment holds; a segment that is    *)
(*              freed keeps what was not destroyed in it                   *)
(*                                                                         *)
(* A pointer to a segment is its number.  An operation is given by the     *)
(* object after it, or, if it makes several steps that can each throw, by  *)
(* the set of that object, empty if the memory available does not suffice. *)
(* OpThrew is the set of the objects that an exception can leave behind.   *)
(***************************************************************************)
EXTENDS DequeIterator, Sequences

CONSTANTS
  Values,        \* what the caller stores
  Raw,           \* a cell without an object
  Unspec,        \* an object of unspecified value
  Default,       \* the value of a default constructed element
  MaxSegments,   \* bound: the number of segments the allocator has
  MapMax,        \* bound: the largest map the allocator provides
  SelfMoveKeeps, \* `x = std::move(x)` leaves the value of x alone
  ShiftMayThrow  \* moving, exchanging or assigning elements can throw

Segments == 1 .. MaxSegments
Object   == Values \cup {Unspec}
Slot     == Object \cup {Raw}
Indices  == 0 .. SegmentSize - 1
Segment  == [Indices -> Slot]

\* The map can point to every segment; size_type has room for 16 and 4 times a
\* map's capacity, difference_type for every element there is memory for.
ASSUME BatchAssumption ==
  /\ MaxSegments \in Nat /\ MapMax \in Nat /\ MaxSegments =< MapMax
  /\ 16 < Word /\ 4 * MapMax < Word /\ SegmentSize * MaxSegments < Word \div 2
  /\ Default \in Values
  /\ Raw \notin Segments /\ Unspec \notin Segments
  /\ Raw \notin Values \cup {Unspec} /\ Unspec \notin Values
  /\ {SelfMoveKeeps, ShiftMayThrow} \subseteq BOOLEAN

\* devector_growth_policy, which is the one of the map
NewCapacity == [c \in 0 .. MapMax |-> IF c = 0 THEN 16 ELSE 4 * c]
ShouldShrink(size, capacity) == size = 0

Map == INSTANCE DevectorOps WITH
         Values <- Segments, SBuf <- 0, SizeMax <- Word - 1, MaxSize <- MapMax,
         SelfMoveKeeps <- TRUE, ShiftMayThrow <- FALSE

DequeType ==
  [map : Map!DevectorType, allocated : SUBSET Segments,
   mem : [Segments -> Segment],
   begin : [at : 0 .. MapMax, index : Indices],
   end : [at : 0 .. MapMax, index : Indices]]

-----------------------------------------------------------------------------
\* Observers.  Positions are those of DequeIterator: slot * SegmentSize + index.

First(d) == Position(d.begin)
Past(d)  == Position(d.end)
SizeOf(d) == DistanceTo(d.begin, d.end)

MapSlots(d) == d.map.front .. d.map.back - 1

Smaller(m, n) == IF m < n THEN m ELSE n
Copies(n, x) == [i \in 1 .. n |-> x]

\* The cell at a position: Raw if there is no segment there.
Cell(d, p) ==
  IF p \div SegmentSize \in MapSlots(d)
  THEN d.mem[d.map.slots[p \div SegmentSize]][p % SegmentSize]
  ELSE Raw

\* The sequence from begin() to end().
Contents(d) == [i \in 1 .. SizeOf(d) |-> Cell(d, First(d) + i - 1)]

\* The address of each element: its segment and the index in it.
Addresses(d) ==
  [i \in 1 .. SizeOf(d) |->
     <<d.map.slots[(First(d) + i - 1) \div SegmentSize],
       (First(d) + i - 1) % SegmentSize>>]

FrontFreeCapacity(d) ==
  (d.begin.at - d.map.front) * SegmentSize + d.begin.index

BackFreeCapacity(d) ==
  (d.map.back - d.end.at) * SegmentSize
  + ((SegmentSize - d.end.index) % SegmentSize)

\* The cells behind the last element in the segments of the map.
CellsBehind(d) == d.map.back * SegmentSize - Past(d)

SegmentCount(n) == (n + SegmentSize - 1) \div SegmentSize

\* batch_deque::invariants_ok()
InvariantsOk(d) ==
  /\ Map!SizeOf(d.map) = 0 => d.begin = d.end
  /\ First(d) =< Past(d)
  /\ d.begin.index < SegmentSize /\ d.end.index < SegmentSize
  /\ d.begin.at >= d.map.front
  /\ d.end.at =< d.map.back

\* Every segment in use is in one slot of the map, and the map holds no other
\* pointer: each segment is freed once.
SegmentsOwned(d) ==
  /\ {d.map.slots[a] : a \in MapSlots(d)} = d.allocated
  /\ \A a, b \in MapSlots(d) : d.map.slots[a] = d.map.slots[b] => a = b

\* The cells between begin and end hold objects and no other cell of any segment
\* does, freed ones included.
LiveExactly(d) ==
  /\ \A p \in First(d) .. Past(d) - 1 : Cell(d, p) # Raw
  /\ \A s \in Segments, i \in Indices :
       d.mem[s][i] # Raw =>
         \E a \in MapSlots(d) :
           /\ d.map.slots[a] = s
           /\ a * SegmentSize + i \in First(d) .. Past(d) - 1

-----------------------------------------------------------------------------
\* Memory

EmptySegment == [i \in Indices |-> Raw]

\* The cells at the positions in the domain of f are given the values of f.
Store(d, f) ==
  [d EXCEPT !.mem =
     [s \in Segments |->
        LET slots == {a \in MapSlots(d) : d.map.slots[a] = s}
            write(a) == [i \in Indices |->
                           LET p == a * SegmentSize + i
                           IN  IF p \in DOMAIN f THEN f[p] ELSE @[s][i]]
        IN  IF slots = {} THEN @[s] ELSE write(CHOOSE a \in slots : TRUE)]]

Construct(d, i, x) == Store(d, [p \in {Position(i)} |-> x])

\* destroy_elements
Destroy(d, lo, hi) == Store(d, [p \in lo .. hi - 1 |-> Raw])

\* std::move and std::move_backward of lo .. hi-1 to `at` .. at+(hi-lo)-1
Slide(d, lo, hi, at) ==
  Store(d, [p \in (lo .. hi - 1) \cup (at .. at + (hi - lo) - 1) |->
              IF at = lo THEN IF SelfMoveKeeps THEN Cell(d, p) ELSE Unspec
              ELSE IF at =< p /\ p < at + (hi - lo) THEN Cell(d, p - at + lo)
              ELSE Unspec])

\* std::rotate(lo, mid, hi)
Rotate(d, lo, mid, hi) ==
  Store(d, [p \in lo .. hi - 1 |->
              Cell(d, IF p + (mid - lo) < hi THEN p + (mid - lo)
                      ELSE p - (hi - mid))])

\* std::rotate when an exchange throws
Scramble(d, lo, hi) == Store(d, [p \in lo .. hi - 1 |-> Unspec])

HasSegment(d) == d.allocated # Segments

\* What allocate_segment returns.
NewSegment(d) ==
  CHOOSE s \in Segments \ d.allocated :
    \A t \in Segments \ d.allocated : s =< t

\* A new segment s with contents c, in the map that results
AddSegment(d, s, c, map) ==
  [d EXCEPT !.allocated = @ \cup {s}, !.mem[s] = c, !.map = map]

\* Mutant: the last of them is not freed.
DeallocateSegmentsButLast(d, lo, hi) ==
  [d EXCEPT !.allocated = @ \ {d.map.slots[a] : a \in lo .. hi - 2},
            !.map = Map!EraseRange(@, lo, hi)]

\* deallocate_segments(lo, hi): slots of the map
DeallocateSegments(d, lo, hi) ==
  [d EXCEPT !.allocated = @ \ {d.map.slots[a] : a \in lo .. hi - 1},
            !.map = Map!EraseRange(@, lo, hi)]

\* save_iterators and restore_iterators: begin relative to the start of the map,
\* end relative to its end.
SaveIterators(d) == <<d.begin.at - d.map.front, d.map.back - d.end.at>>

\* Mutant: both are taken to be relative to the start of the map.
RestoreIteratorsFromFront(d, si) ==
  [d EXCEPT !.begin.at = d.map.front + si[1],
            !.end.at = d.map.front + si[2]]

RestoreIterators(d, si) ==
  [d EXCEPT !.begin.at = d.map.front + si[1],
            !.end.at = d.map.back - si[2]]

NewMapCapacity(d) ==
  LET n == Map!SizeOf(d.map) IN IF n = 0 THEN 4 ELSE n + (n \div 2) + 1

\* _map.reserve_front(n) and _map.reserve_back(n), between saving and restoring
ReserveMapFront(d, n) ==
  RestoreIterators([d EXCEPT !.map = Map!ReserveFront(@, n)], SaveIterators(d))

ReserveMapBack(d, n) ==
  RestoreIterators([d EXCEPT !.map = Map!ReserveBack(@, n)], SaveIterators(d))

-----------------------------------------------------------------------------
\* Constructors

\* k segments in a map of the given capacity, xs from `index` in the first one on
Built(mapCapacity, index, xs) ==
  LET k == SegmentCount(index + Len(xs))
      at(s, i) == (s - 1) * SegmentSize + i - index + 1
  IN  [map |-> [Map!Reserved(0, mapCapacity) EXCEPT
                  !.slots = Map!Put(@, 0, [s \in 1 .. k |-> s]), !.back = k],
       allocated |-> 1 .. k,
       mem |-> [s \in Segments |-> [i \in Indices |->
                  IF at(s, i) \in 1 .. Len(xs) THEN xs[at(s, i)] ELSE Raw]],
       begin |-> It(0, index),
       end |-> Advance(It(0, index), Len(xs))]

\* batch_deque(), batch_deque(n), batch_deque(first, last) for forward iterators
Constructed(xs) == Built(SegmentCount(Len(xs)), 0, xs)

\* batch_deque(const batch_deque& rhs): the map may be larger than needed, and the
\* elements keep their place in the segments.
CopyConstructed(rhs) ==
  Built(Map!SizeOf(rhs.map), rhs.begin.index, Contents(rhs))

-----------------------------------------------------------------------------
\* Both ends

\* emplace_front_slow_path
EmplaceFrontSlowPath(d, x) ==
  LET room == ReserveMapFront(d, NewMapCapacity(d))
      new  == NewSegment(d)
      more == AddSegment(room, new, [EmptySegment EXCEPT ![SegmentSize - 1] = x],
                         Map!EmplaceFront(room.map, new))
  IN  [more EXCEPT !.begin = It(more.map.front, SegmentSize - 1)]

\* emplace_back_slow_path
EmplaceBackSlowPath(d, x) ==
  LET room == ReserveMapBack(d, NewMapCapacity(d))
      new  == NewSegment(d)
      more == AddSegment(room, new, [EmptySegment EXCEPT ![0] = x],
                         Map!EmplaceBack(room.map, new))
  IN  [more EXCEPT !.end = It(more.map.back - 1, 1)]

\* emplace_front, push_front and unsafe_push_front
EmplaceFront(d, x) ==
  LET newBegin == Advance(d.begin, -1)
  IN  IF FrontFreeCapacity(d) > 0
      THEN [Construct(d, newBegin, x) EXCEPT !.begin = newBegin]
      ELSE EmplaceFrontSlowPath(d, x)

\* emplace_back, push_back and unsafe_push_back
EmplaceBack(d, x) ==
  IF BackFreeCapacity(d) > 0
  THEN [Construct(d, d.end, x) EXCEPT !.end = Increment(@)]
  ELSE EmplaceBackSlowPath(d, x)

RoomInMapFront(d) == Map!ReserveFrontOk(d.map, NewMapCapacity(d))
RoomInMapBack(d)  == Map!ReserveBackOk(d.map, NewMapCapacity(d))

EmplaceFrontOk(d) ==
  FrontFreeCapacity(d) > 0 \/ (RoomInMapFront(d) /\ HasSegment(d))
EmplaceBackOk(d) ==
  BackFreeCapacity(d) > 0 \/ (RoomInMapBack(d) /\ HasSegment(d))

\* The guard frees the segment; what was reserved in the map stays.
EmplaceFrontThrew(d) ==
  IF FrontFreeCapacity(d) > 0 \/ ~RoomInMapFront(d) THEN {d}
  ELSE {d, ReserveMapFront(d, NewMapCapacity(d))}
EmplaceBackThrew(d) ==
  IF BackFreeCapacity(d) > 0 \/ ~RoomInMapBack(d) THEN {d}
  ELSE {d, ReserveMapBack(d, NewMapCapacity(d))}

\* The object after k pushes, for k up to n; Elem(e, k) is the k-th element pushed,
\* taken when the object is e.
Prepended(d, n, Elem(_, _)) ==
  LET after[k \in 0 .. n] ==
        IF k = 0 THEN {d}
        ELSE {EmplaceFront(e, Elem(e, k)) :
                e \in {e \in after[k - 1] : EmplaceFrontOk(e)}}
  IN  after

Appended(d, n, Elem(_, _)) ==
  LET after[k \in 0 .. n] ==
        IF k = 0 THEN {d}
        ELSE {EmplaceBack(e, Elem(e, k)) :
                e \in {e \in after[k - 1] : EmplaceBackOk(e)}}
  IN  after

\* The same for pushes of the elements of xs, in the order in which they end up.
PushFront(d, xs) ==
  Prepended(d, Len(xs), LAMBDA e, k : xs[Len(xs) - k + 1])
PushBack(d, xs) == Appended(d, Len(xs), LAMBDA e, k : xs[k])

\* One of the pushes throws.
PushFrontThrew(d, xs) ==
  UNION {EmplaceFrontThrew(e) :
           e \in UNION {PushFront(d, xs)[k] : k \in 0 .. Len(xs) - 1}}
PushBackThrew(d, xs) ==
  UNION {EmplaceBackThrew(e) :
           e \in UNION {PushBack(d, xs)[k] : k \in 0 .. Len(xs) - 1}}

EraseAtBegin(d, n) ==
  [Destroy(d, First(d), First(d) + n) EXCEPT !.begin = Advance(@, n)]

\* The first sz elements stay.
EraseAtEnd(d, sz) ==
  [Destroy(d, First(d) + sz, Past(d)) EXCEPT !.end = Advance(d.begin, sz)]

PopFront(d) ==
  [Destroy(d, First(d), First(d) + 1) EXCEPT !.begin = Increment(@)]
PopBack(d) ==
  [Destroy(d, Past(d) - 1, Past(d)) EXCEPT !.end = Decrement(@)]

Clear(d) ==
  [Destroy(d, First(d), Past(d)) EXCEPT
     !.begin = It(d.map.front, 0), !.end = It(d.map.front, 0)]

ResizeFront(d, sz, x) ==
  IF sz >= SizeOf(d) THEN LET n == sz - SizeOf(d) IN PushFront(d, Copies(n, x))[n]
  ELSE {EraseAtBegin(d, SizeOf(d) - sz)}

ResizeBack(d, sz, x) ==
  IF sz >= SizeOf(d) THEN LET n == sz - SizeOf(d) IN PushBack(d, Copies(n, x))[n]
  ELSE {EraseAtEnd(d, sz)}

\* What was pushed is popped again; new segments stay.
ResizeFrontThrew(d, sz, x) ==
  {EraseAtBegin(e, SizeOf(e) - SizeOf(d)) :
     e \in PushFrontThrew(d, Copies(sz - SizeOf(d), x))}

ResizeBackThrew(d, sz, x) ==
  {EraseAtEnd(e, SizeOf(d)) :
     e \in PushBackThrew(d, Copies(sz - SizeOf(d), x))}

-----------------------------------------------------------------------------
\* Capacity

\* n empty segments are pushed to one end of the map; for each number up to n
WithSegmentsFront(d, n) ==
  LET after[k \in 0 .. n] ==
        IF k = 0 THEN {d}
        ELSE {AddSegment(e, NewSegment(e), EmptySegment,
                         Map!PutFront(e.map, <<NewSegment(e)>>)) :
                e \in {e \in after[k - 1] : HasSegment(e)}}
  IN  after

WithSegmentsBack(d, n) ==
  LET after[k \in 0 .. n] ==
        IF k = 0 THEN {d}
        ELSE {AddSegment(e, NewSegment(e), EmptySegment,
                         Map!PutBack(e.map, <<NewSegment(e)>>)) :
                e \in {e \in after[k - 1] : HasSegment(e)}}
  IN  after

\* Mutant: the number of segments is rounded down.
MissingFrontWhole(d, n) == (n - (FrontFreeCapacity(d) + SizeOf(d))) \div SegmentSize

MissingFront(d, n) == SegmentCount(n - (FrontFreeCapacity(d) + SizeOf(d)))
MissingBack(d, n)  == SegmentCount(n - (BackFreeCapacity(d) + SizeOf(d)))

ReserveFrontSuffices(d, n) == n =< FrontFreeCapacity(d) + SizeOf(d)
ReserveBackSuffices(d, n)  == n =< BackFreeCapacity(d) + SizeOf(d)

\* For k segments allocated, up to the number that is missing; empty if the map
\* cannot be made larger.
ReserveFrontSteps(d, n) ==
  LET m    == MissingFront(d, n)
      wish == Map!SizeOf(d.map) + m
  IN  IF Map!ReserveFrontOk(d.map, wish)
      THEN WithSegmentsFront(ReserveMapFront(d, wish), m)
      ELSE [k \in 0 .. m |-> {}]

ReserveBackSteps(d, n) ==
  LET m    == MissingBack(d, n)
      wish == Map!SizeOf(d.map) + m
  IN  IF Map!ReserveBackOk(d.map, wish)
      THEN WithSegmentsBack(ReserveMapBack(d, wish), m)
      ELSE [k \in 0 .. m |-> {}]

ReserveFront(d, n) ==
  IF ReserveFrontSuffices(d, n) THEN {d}
  ELSE ReserveFrontSteps(d, n)[MissingFront(d, n)]

ReserveBack(d, n) ==
  IF ReserveBackSuffices(d, n) THEN {d}
  ELSE ReserveBackSteps(d, n)[MissingBack(d, n)]

\* The segments allocated before the allocator threw stay in the map.
ReserveFrontThrew(d, n) ==
  IF ReserveFrontSuffices(d, n) THEN {}
  ELSE {d} \cup
       UNION {ReserveFrontSteps(d, n)[k] : k \in 0 .. MissingFront(d, n) - 1}

ReserveBackThrew(d, n) ==
  IF ReserveBackSuffices(d, n) THEN {}
  ELSE {d} \cup
       UNION {ReserveBackSteps(d, n)[k] : k \in 0 .. MissingBack(d, n) - 1}

\* The segments before _begin are popped from the map, the ones behind the last
\* element are erased from it.
ShrinkToFit(d) ==
  DeallocateSegments(
    [d EXCEPT !.allocated = @ \ {d.map.slots[a] : a \in d.map.front .. d.begin.at - 1},
              !.map = Map!PopFront(@, d.begin.at - d.map.front)],
    SegmentEnd(d.end).at, d.map.back)

-----------------------------------------------------------------------------
\* Insertion.  `index` is the place of the position relative to begin().

PreferBack(d, index) == index >= SizeOf(d) \div 2

\* emplace_slow_path: pushed to the nearer end and rotated into place
EmplaceNearBack(d, index, x) ==
  LET e == EmplaceBack(d, x)
  IN  Rotate(e, First(e) + index, Past(e) - 1, Past(e))

EmplaceNearFront(d, index, x) ==
  LET e == EmplaceFront(d, x)
  IN  Rotate(e, First(e), First(e) + 1, First(e) + index + 1)

\* emplace(begin() + index, x)
Emplace(d, index, x) ==
  IF index = SizeOf(d) THEN EmplaceBack(d, x)
  ELSE IF index = 0 THEN EmplaceFront(d, x)
  ELSE IF PreferBack(d, index) THEN EmplaceNearBack(d, index, x)
  ELSE EmplaceNearFront(d, index, x)

EmplaceAtBack(d, index) == index = SizeOf(d) \/ (index > 0 /\ PreferBack(d, index))

EmplaceOk(d, index) ==
  IF EmplaceAtBack(d, index) THEN EmplaceBackOk(d) ELSE EmplaceFrontOk(d)

\* The push throws, or one of the exchanges after it.
EmplaceThrew(d, index, x) ==
  LET e == IF EmplaceAtBack(d, index) THEN EmplaceBack(d, x) ELSE EmplaceFront(d, x)
  IN  (IF EmplaceAtBack(d, index) THEN EmplaceBackThrew(d) ELSE EmplaceFrontThrew(d))
      \cup
      (IF ~ShiftMayThrow \/ index \in {0, SizeOf(d)} \/ ~EmplaceOk(d, index) THEN {}
       ELSE IF EmplaceAtBack(d, index)
       THEN {Scramble(e, First(e) + index, Past(e))}
       ELSE {Scramble(e, First(e), First(e) + index + 1)})

\* Mutant: the elements pushed to the front come in the order of the range.
InsertNearFrontReversed(d, index, xs) ==
  {Rotate(e, First(e), First(e) + Len(xs), First(e) + Len(xs) + index) :
     e \in Prepended(d, Len(xs), LAMBDA g, k : xs[k])[Len(xs)]}

\* insert_range for bidirectional iterators, nearer to the front
InsertNearFront(d, index, xs) ==
  {Rotate(e, First(e), First(e) + Len(xs), First(e) + Len(xs) + index) :
     e \in PushFront(d, xs)[Len(xs)]}

\* insert_range for other iterators, or nearer to the back.  Elem as in Appended
InsertNearBackOf(d, index, n, Elem(_, _)) ==
  {Rotate(e, First(e) + index, First(e) + SizeOf(d), Past(e)) :
     e \in Appended(d, n, Elem)[n]}

InsertNearBack(d, index, xs) ==
  InsertNearBackOf(d, index, Len(xs), LAMBDA e, k : xs[k])

\* insert(begin() + index, first, last)
InsertRange(d, index, xs, bidirectional) ==
  IF bidirectional /\ ~PreferBack(d, index) THEN InsertNearFront(d, index, xs)
  ELSE InsertNearBack(d, index, xs)

\* What was pushed before a push threw stays at that end.
InsertRangeThrew(d, index, xs, bidirectional) ==
  IF bidirectional /\ ~PreferBack(d, index)
  THEN PushFrontThrew(d, xs) \cup
       (IF ~ShiftMayThrow THEN {}
        ELSE {Scramble(e, First(e), First(e) + Len(xs) + index) :
                e \in PushFront(d, xs)[Len(xs)]})
  ELSE PushBackThrew(d, xs) \cup
       (IF ~ShiftMayThrow THEN {}
        ELSE {Scramble(e, First(e) + index, Past(e)) :
                e \in PushBack(d, xs)[Len(xs)]})

\* insert(begin() + index, n, x) with x a reference to the i-th element: the
\* address is read at each push.
InsertAliased(d, index, n, i) ==
  LET address == Addresses(d)[i]
      Elem(e, k) == e.mem[address[1]][address[2]]
  IN  IF PreferBack(d, index) THEN InsertNearBackOf(d, index, n, Elem)
      ELSE {Rotate(e, First(e), First(e) + n, First(e) + n + index) :
              e \in Prepended(d, n, Elem)[n]}

-----------------------------------------------------------------------------
\* stable_insert

\* A second batch_deque.  It has an allocator of its own, Allocator(), taken here to be
\* equal to that of the first: what one allocated, the other may free.
Beside(d) ==
  [d EXCEPT !.map = Map!Reserved(0, 0), !.begin = It(0, 0), !.end = It(0, 0)]

\* tmp(first, last), resized to tmp.size() + tmp.back_free_capacity()
StableTmp(d, xs) ==
  UNION {ResizeBack(t, SizeOf(t) + BackFreeCapacity(t), Default) :
           t \in PushBack(Beside(d), xs)[Len(xs)]}

\* Mutant: end is left where it was relative to begin.
StableSpliceKeepsEnd(d, tmp, hint) ==
  LET index == hint.at - d.map.front
      map   == Map!InsertRange(d.map, index, Map!Contents(tmp.map))
  IN  [d EXCEPT !.map = map, !.mem = tmp.mem, !.allocated = tmp.allocated,
                !.begin.at = map.front + (@ - d.map.front),
                !.end.at = map.front + (@ - d.map.front)]

\* The segments of tmp go into the map before the segment of the hint; _begin and
\* _end are found again from counts.
StableSplice(d, tmp, hint) ==
  LET index == hint.at - d.map.front
      map   == Map!InsertRange(d.map, index, Map!Contents(tmp.map))
      newBeginSegIndex == d.begin.at - d.map.front
      segCount    == d.end.at - d.begin.at
      tmpSegCount == tmp.end.at - tmp.begin.at
  IN  [d EXCEPT !.map = map, !.mem = tmp.mem, !.allocated = tmp.allocated,
                !.begin.at = map.front + newBeginSegIndex,
                !.end.at = map.front + newBeginSegIndex + segCount + tmpSegCount]

StableHint(d, index) == Advance(d.begin, index)

\* The range goes to the end, to the start, or between two segments.
StableAtEnd(d, index)   == index = SizeOf(d)
StableAtStart(d, index) ==
  ~StableAtEnd(d, index) /\ StableHint(d, index).at = d.begin.at

StableBetween(d, index, xs) ==
  {StableSplice(d, tmp, StableHint(d, index)) :
     tmp \in {tmp \in StableTmp(d, xs) :
                Map!InsertRangeOk(d.map, Map!SizeOf(tmp.map))}}

\* stable_insert(begin() + index, first, last)
StableInsert(d, index, xs, bidirectional) ==
  IF StableAtEnd(d, index) THEN InsertRange(d, index, xs, bidirectional)
  ELSE IF StableAtStart(d, index) THEN InsertRange(d, 0, xs, bidirectional)
  ELSE StableBetween(d, index, xs)

\* The position, relative to begin(), of the first element of the hint's segment
StablePosition(d, index) ==
  IF StableAtEnd(d, index) THEN index
  ELSE IF StableAtStart(d, index) THEN 0
  ELSE StableHint(d, index).at * SegmentSize - First(d)

\* tmp is destroyed when it, or the map, cannot be made larger.
StableInsertThrew(d, index, xs, bidirectional) ==
  IF StableAtEnd(d, index) THEN InsertRangeThrew(d, index, xs, bidirectional)
  ELSE IF StableAtStart(d, index) THEN InsertRangeThrew(d, 0, xs, bidirectional)
  ELSE IF Len(xs) > 0 THEN {d} ELSE {}

-----------------------------------------------------------------------------
\* Erasure

\* erase(begin() + index, begin() + index + n): the shorter side moves, the back
\* if both are as long.
EraseMovesBack(d, index, n) == SizeOf(d) - index - n =< index

EraseRange(d, index, n) ==
  LET first == First(d) + index
      last  == first + n
  IN  IF EraseMovesBack(d, index, n)
      THEN EraseAtEnd(Slide(d, last, Past(d), first), SizeOf(d) - n)
      ELSE EraseAtBegin(Slide(d, First(d), first, First(d) + n), n)

\* One of the assignments throws: nothing was destroyed yet.
EraseThrew(d, index, n) ==
  LET first == First(d) + index
      last  == first + n
  IN  IF ~ShiftMayThrow THEN {}
      ELSE IF EraseMovesBack(d, index, n)
      THEN {Slide(d, last, k, first) : k \in last .. Past(d) - 1}
      ELSE {Slide(d, k, first, k + n) : k \in First(d) + 1 .. first}

-----------------------------------------------------------------------------
\* Assignment

\* overwrite_buffer asserts that no segment before that of _begin is free.
BeginsInFirstSegment(d) == d.begin.at = d.map.front

MapStart(d) == d.map.front * SegmentSize

\* The number of elements overwrite_buffer takes from the range.  There are two of it:
\* pointers to trivially copyable elements are copied as `bytes`.
Overwritten(d, n, bytes) ==
  IF bytes THEN Smaller(n, Map!SizeOf(d.map) * SegmentSize)
  ELSE IF d.begin = d.end THEN 0
  ELSE Smaller(n, Past(d) - MapStart(d))

\* The first n cells of the map hold the first n elements of xs, the cells of the
\* old elements above them none.
Overwrite(d, n, xs) ==
  LET new == MapStart(d) .. MapStart(d) + n - 1
      old == First(d) .. Past(d) - 1
  IN  Store(d, [p \in new \cup old |->
                  IF p \in new THEN xs[p - MapStart(d) + 1] ELSE Raw])

\* Mutant: the elements start where the old ones did.
OverwriteBufferKeepsBegin(d, xs, bytes) ==
  LET n == Overwritten(d, Len(xs), bytes)
      e == [Overwrite(d, n, xs) EXCEPT !.end = Advance(It(d.begin.at, 0), n)]
  IN  IF bytes
      THEN DeallocateSegments(e, d.map.front + SegmentCount(n), d.map.back)
      ELSE IF d.begin = d.end THEN d ELSE e

\* overwrite_buffer: construct in the free front, assign to the elements, destroy
\* the others; of bytes, copy into all segments and free the others.
OverwriteBuffer(d, xs, bytes) ==
  LET n == Overwritten(d, Len(xs), bytes)
      e == [Overwrite(d, n, xs) EXCEPT !.begin.index = 0,
                                       !.end = Advance(It(d.begin.at, 0), n)]
  IN  IF bytes
      THEN DeallocateSegments(e, d.map.front + SegmentCount(n), d.map.back)
      ELSE IF d.begin = d.end THEN d ELSE e

\* Mutant: overwrite_buffer takes `first` by value.
RestToPushFromFirst(d, xs, bytes) == xs

\* assign(first, last): what does not fit is pushed back.
RestToPush(d, xs, bytes) == SubSeq(xs, Overwritten(d, Len(xs), bytes) + 1, Len(xs))

Assign(d, xs, bytes) ==
  LET rest == RestToPush(d, xs, bytes)
  IN  PushBack(OverwriteBuffer(d, xs, bytes), rest)[Len(rest)]

\* A construction in the free front throws, an assignment (or the iterator read for it)
\* throws when that front was filled and k elements were assigned to, or a push throws.
AssignThrew(d, xs, bytes) ==
  LET filled == Smaller(Len(xs), First(d) - MapStart(d))
      assigned(k) ==
        Store(d, [p \in MapStart(d) .. MapStart(d) + filled + k - 1 |->
                    xs[p - MapStart(d) + 1]])
  IN  PushBackThrew(OverwriteBuffer(d, xs, bytes), RestToPush(d, xs, bytes)) \cup
      (IF ~bytes /\ d.begin # d.end /\ filled > 0 THEN {d} ELSE {}) \cup
      (IF ShiftMayThrow /\ ~bytes /\ d.begin # d.end
       THEN {assigned(k) : k \in 0 .. Overwritten(d, Len(xs), bytes) - filled - 1}
       ELSE {})

=============================================================================
