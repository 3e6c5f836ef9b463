# A verification of double_ended

`double_ended` is a header-only C++ library of two sequence containers that grow
at both ends: `devector`, a vector with free slots on both sides of its elements
and an optional small buffer inside the object, and `batch_deque`, a deque of
fixed-size segments whose segment table is itself a devector. This directory
holds TLA+ models of the library, the TLC configurations that check them, and
proofs checked by TLAPS.

There are no threads and no messages in the library. What makes it hard is
memory. A slot of a buffer holds an object or raw memory, and nothing in the
program records which: it follows from two indices, a capacity and the history.
Every operation has several paths, chosen by where the free slots are; each path
constructs, moves, assigns and destroys in an order of its own; and each of
these steps may throw, when the guards must leave a usable object behind.

## Inventory

| component | source | state | operations | hard because of |
|---|---|---|---|---|
| devector, one object | `devector.hpp` | `_storage._capacity`, `_buffer`, `_front_index`, `_back_index`, the slots | constructors, push / pop / emplace at both ends, `emplace`, `insert`, `erase`, `resize_*`, `reserve_*`, `shrink_to_fit`, `clear`, `assign` | long histories, path selection, exceptions, overflow of a small `size_type`, references into the container |
| devector, two objects | `devector.hpp` | two of these and their allocators | copy, move, `swap` | small with large buffers, propagation of allocators, exceptions while exchanging |
| unsafe operations | `devector.hpp` | slots the caller constructs | `unsafe_uninitialized_resize_*` | the caller's obligations |
| guards | `detail/guards.hpp` | what was constructed so far | destroy on unwinding | which of two copies is destroyed |
| batch_deque | `batch_deque.hpp` | a devector of segments, `_begin` and `_end` pointing into it | as above, `stable_insert` | pointers into a table that reallocates, segment arithmetic, handlers of constructors |
| batch_deque iterators | `batch_deque.hpp` | segment pointer, index | advance, distance | signed and unsigned division |
| serialization | `serialize_*.hpp` | none of its own | save, load | resizes at both ends before it reads, reads that throw |
| traits, value iterators | `detail/*.hpp` | none | | |

A batch_deque calls `reserve_*`, `insert`, `erase`, `unsafe_push_*` and
`pop_front` of its map and recomputes its own iterators afterwards; `load` calls
the resize operations of either container; the guards' destructors run when an
element's constructor throws out of an operation.

What makes each of them correct:

* devector: the elements and returned iterators are those of a sequence
  (`SequenceContract`); `invariants_ok()`; the objects in the buffer are exactly
  the elements; the buffer is freed exactly if it was allocated; a call that
  throws keeps its guarantee; what `reserve_*` promised stays available;
  operations at the ends move nothing unless they reallocate.
* two devectors: the contents change hands, each object ends with its own small
  buffer or an owned heap buffer, the allocator that frees is the one that
  allocated.
* a call step by step: whatever throws, what was constructed is destroyed once;
  the call ends.
* batch_deque: the same contract; `_begin` and `_end` point into the map; every
  segment of the map is allocated once and freed once, with no object in it; the
  free capacities are what can be pushed; `stable_insert` between two segments
  moves no element.
* iterators: advance and distance agree with positions.
* serialization: what is loaded is what was saved.

## Modules

| module | what it is |
|---|---|
| `DevectorOps` | devector's member functions as operators on one object: a record of capacity, two indices, the kind of buffer and the content of each slot |
| `Devector` | one devector and a caller: one action per member function, every outcome |
| `DevectorReserve` | `Devector` with two history variables that count the pushes owed to the caller, who also inserts copies of the devector's own elements |
| `DevectorSizes` | the size arithmetic alone, for a `size_type` of any width |
| `DevectorPair`, `DevectorPairs` | two devectors and their allocators; `DevectorPairs` takes it twice, with small buffers and without |
| `DevectorInput` | assign, insert and construction from input iterators, one read at a time |
| `Guards` | the state of the three guards and what their destructors destroy |
| `Reallocation` | one reallocation of a devector: allocate, construct, move each element, destroy, free, each of which may throw |
| `SmallSwap` | the swap of two small devectors, one move, exchange or destruction at a time |
| `DequeIterator` | the arithmetic of both kinds of iterator |
| `BatchDequeOps` | batch_deque's member functions as operators on one object; its map is a `DevectorOps` object whose elements are segments |
| `BatchDeque`, `BatchDequeReserve` | as `Devector` and `DevectorReserve` |
| `BatchDequeConstruct` | the constructors that fill segments, one element at a time, with their handlers |
| `BatchDequePair` | two batch_deques, their allocators, and for each segment the allocator it came from |
| `DevectorSerialization`, `BatchDequeSerialization` | save and load of one container and an archive |
| `SequenceContract` | abstract: what the documentation of both containers says a call does to a sequence, and that it has no effect if it throws; `Excepted` names the calls not held to that |
| `PairContract` | abstract: what copy, move and swap do to two sequences; `strong` says whether a copy assignment that throws must have no effect |
| `StrongCall` | abstract: a call that ends with its effect or with none |
| `Serialization` | the composition of the serialization modules: both containers, elements trivially copyable or not |
| `Calls` | the composition of `Reallocation` (twice), `SmallSwap`, `BatchDequeConstruct` and `DevectorInput` |
| `DevectorOpsProofs` | lemmas: what each member function of `DevectorOps` does to the slots, the indices and the buffer |
| `DevectorProofs` | the theorems about `Devector`, `DevectorReserve` and `Reallocation` |
| `DevectorPairProofs` | the theorems about `DevectorPair`, `SmallSwap`, `DevectorInput` and `DevectorSerialization` |
| `DevectorSizesProofs` | the theorem about `DevectorSizes` |
| `BatchDequeOpsProofs` | lemmas: iterator arithmetic, the map, and each member function of `BatchDequeOps` |
| `BatchDequeElementsProofs` | lemmas: which elements, in which order and in which cells, each member function leaves |
| `BatchDequeProofs` | the theorems about `BatchDeque` and `BatchDequeReserve` |
| `BatchDequePairProofs` | the theorems about `BatchDequePair`, `BatchDequeConstruct` and `BatchDequeSerialization` |
| `MC...` | values of the constants, views and symmetries for TLC |

`DevectorPairs`, `Serialization` and `Calls` instantiate their parts several
times with different constants; a variable that never changes (`small`, `kind`,
`part`) says which of them the behaviour is one of. A property of such a module
is stated once for all the parts, or, if it is about one, begins with the
condition that it is that one.

### How the model corresponds to the code

**devector.** `dv` is the object: `cap`, `front` and `back` are
`_storage._capacity`, `_front_index` and `_back_index`; `buf` says whether
`_buffer` points to the small buffer (the null pointer when that has size 0) or
came from the allocator; `slots` is the buffer, one entry per address. A slot is
`Raw`, or an object: one of `Values`, or `Unspec` for an object that was moved
from. `call` records the latest call for the contract and the history variables;
no action reads it.

An operator of `DevectorOps` is one member function, public or private, with its
name, and calls the ones the function calls. Moving to another buffer
(`Transfer`), moving within one (`Slide`), `std::rotate`, constructing (`Put`)
and destroying are functions on the slots. Because `Slide` leaves `Unspec` behind
and `Put` is used for construction and assignment alike, a wrong bound shows as
a raw slot between the indices, an object outside of them, or a lost value.

Exceptions: `OpThrew` is the set of the objects that `Op` can leave behind, one
for each point where an element's constructor, or an assignment, may throw, after
the guards' destructors ran. An operation without one has the strong guarantee:
the object is as it was. `ShiftMayThrow` says whether moving and assigning
elements can throw; if it can, elements are assumed to be copyable, so that
`move_if_noexcept` copies when a buffer is replaced and the old buffer is intact
until the new one is complete. That the guards do have this effect is not
assumed: `Reallocation` takes the same operations apart, with the guards of
`Guards`, and is shown to implement the one step of `DevectorOps`.

Numbers: `size_type` ranges over `0 .. SizeMax`; sums wrap (`Wrap`). The growth
policy is any function, and may wrap around as `capacity * 4u` does. In
`DevectorSizes` every sum and difference is taken modulo `Word` and only the
numbers are left, so that every value of a `size_type` of 5 bits is tried as
every argument.

**batch_deque.** `dq` has `_map`, `_begin` and `_end`; an iterator is a slot of
the map and an index; `allocated` are the segments obtained from the allocator,
`mem` is what each of their cells holds. What the map does is not abstracted: it
is the devector of `DevectorOps` without a small buffer, with the library's
growth policy, so that its front free capacity and its reallocations are those of
the code. Operations that may fail at several points (a segment that is not
available, a map that cannot grow, an element that throws) have one outcome for
each.

**Pairs.** `DevectorPair` keeps the members of `DevectorOps` for each of two
objects, the buffer each `_buffer` points to, the small buffer of the other
object included, and the allocator each heap buffer came from. `BatchDequePair`
keeps the allocator of each segment. `propagates` is the allocator's
`propagate_on_container_*` traits.

**Steps.** In `Reallocation`, `SmallSwap`, `BatchDequeConstruct` and
`DevectorInput`, `pc` (`next` in the last) is the place in the function; each step is one call the
function makes to the allocator, an element or an iterator, and its failure is
another disjunct. Unwinding is a sequence of steps too: each guard's destructor
destroys one element at a time.

### What is left out of these modules

The contents of `memcpy` shortcuts where they do to the slots what the loops do
(the ones that differ, in `overwrite_buffer` and `load_trivial`, are modelled);
alignment; element access and comparison. Constructors of one object are single
steps in `Devector` and `BatchDeque`.

## Runs

All runs use `CHECK_DEADLOCK` at its default: some call is always possible, and
`Calls` stutters explicitly when a call has ended. A `VIEW` leaves out what the
next step does not depend on (the latest call, the numbering of segments, and in
`batch_deque_reserve` the values of the elements);
properties over steps are checked for each step.

| run | constants | question |
|---|---|---|
| `devector_small` | small buffer 2, `SizeMax` = `MaxSize` = 7, capacity doubles and wraps, 3 values | one devector with a small buffer; `Excepted = {"insert", "assign"}` |
| `devector_reserve` | no small buffer, `MaxSize` 8 < `SizeMax` 9, capacity triples, shrinking always allowed, 1 value, moves may throw; `Excepted = {"resize_front"}` | one devector without a small buffer: the reserve promise and the basic guarantee |
| `devector_sizes` | `Word` 32, `MaxSize` 31 | the arithmetic of sizes |
| `devector_pair` | 2 values, 2 allocators, buffers of up to 5, 2 elements each | two devectors, with small buffers or without, propagating or not |
| `calls` | reallocations up to capacity 5, small buffers of 3, segments of 2, streams of 3 | one call step by step |
| `batch_deque` | segments of 2, 3 segments, 4 elements pushed (5 by `stable_insert`), 2 values | one batch_deque and its iterators |
| `batch_deque_reserve` | the same with 1 value, exchanges and assignments may throw | the promise of `reserve_front` and the basic guarantee |
| `batch_deque_pair` | segments of 2, 2 elements each, 2 allocators | two batch_deques, propagating or not |
| `serialization` | 3 elements, buffers of up to 6, 3 segments | save and load |

Bounds. A range insertion into a devector is decided by how many of the range
fit in front, how many behind and which side of the middle the position is on:
with four elements and ranges of three, all combinations occur, including none,
some and all in front. `MaxSize` 7 gives capacities from the small buffer over
doublings to those where the policy wraps (2 * 4 = 0 mod 8) and the length check
decides; reservations reach every other capacity. Runs about promises and memory
have one value, as they do not depend on any; three values tell apart the
elements before, within and after a range. In batch_deque, segments of two and
four elements give deques that begin and end at every index of one, two and three
segments, with free segments on either side, and a map that starts with the
capacity of its constructor and is reallocated in both directions; three segments
also run out, so that every call fails at every allocation it makes. `Word` = 32
is large enough for every difference of sizes to be negative or to be a sum that
reaches `max_size()`, and small enough to try every argument.

### Properties

* `TypeOK`, `WellFormed`, `ObjectsLive`: see the modules; the inductive invariants of
  the proofs are made of them.
* `ImplementsContract`: the refinement. `Contract` instantiates
  `SequenceContract` with the elements from `begin()` to `end()`. Each call must
  change the sequence as documented, return the documented iterator and, if it
  throws, have no effect. The documentation makes this strong guarantee to
  `NothrowConstructible` elements, those whose move *or* copy does not throw
  (`devector.hpp:94`), which is what `~ShiftMayThrow` stands for. The code does not
  keep all of it, so the runs hold it to less than is documented, and the constant
  `Excepted` says where: `"insert"` and `"assign"` (a range insertion that throws may
  leave its first elements inserted, or pushed to an end of a batch_deque; an
  assignment may leave elements replaced) and, for a batch_deque, `"stable_insert"`
  (the same if it throws; and if it does not, more elements after the range than fill
  its last segment). Each of these three is violated when it is taken out of `Excepted`. Of
  `insert` this excepts only calls that throw and of `stable_insert` not the place, which
  must be the nearest segment boundary; with all of them excepted, the effect of every call
  that returns, and the strong guarantee of all the others, is still asked for.
* `EndsMoveNothing` (devector), `ElementsStay` (batch_deque): operations at the
  ends leave every surviving element where it is. For a batch_deque this says which
  of the old elements each one is, reallocations of the map and calls that throw
  included; a `stable_insert` between two segments leaves them all where they are,
  those below and those above the place.
* `BasicGuarantee`: for elements that throw even when moved.
* `PromiseKept`, `FrontPromiseKept`: the promises of `reserve_*`, followed over
  any number of calls at both ends, failed ones included. Insertions, erasures,
  assignments, `clear` and `shrink_to_fit` end a promise. The code breaks that of
  `reserve_back` in one way, a `resize_front` that reallocates (`devector.hpp:2248`):
  with `"resize_front"` in `Excepted`, as in `devector_reserve`, such a call ends the
  promise at the back, and the property says less than the comment at
  `devector.hpp:1160`. `devector_back_promise` is the same run without the exception,
  where TLC finds the violation.
* `EachSegmentOnce`: map and allocator agree about the segments.
* `IteratorIsPosition`, `SegmentIsItsElements`: iterators and segment iterators
  of every reachable deque against positions counted without their arithmetic.
* `NothingOutside`: no index or capacity computed leaves its buffer.
* `PairsWellFormed`, `OneUserEach`, `PairsUseOwnBuffers`, `BothWellFormed`: after
  every copy, move and swap, both objects are usable and no buffer is shared.
  `RightAllocator`: what was allocated returns to the allocator it came from.
  `ImplementsPairContract`: the contents are those `PairContract` gives. The strong
  guarantee of a copy assignment (`devector.hpp:549`, if the allocator propagates;
  `batch_deque.hpp:655`) is asked for unless `"copy"` is in `Excepted`, as it is in
  both runs, because the code does not keep it; what is left of a copy assignment that
  throws is that the target holds some elements and the source is untouched.
* `GuardsCoverNewBuffer`, `OneBufferLeft`, `OneOfEachPairDestroyed`, `SwapEffect`,
  `InputEffect`, `FreesEmptySegments`: within one call, at every step.
* `ImplementsStrongCall`: a reallocation or a construction, seen from outside,
  is a `StrongCall`: it has the effect of the one operator of `DevectorOps` or
  `BatchDequeOps`, or none; and every call ends.
* `LoadLeavesObjects`, `LoadRestores`, `LoadReusesMemory`, `UnsafeResizeKeeps`.

### Fairness

`Calls` is the only specification with fairness: `WF(Step)`. A call is
sequential code and what it calls (the allocator, a constructor, a destructor, an
iterator) returns or throws, so a step that can be made is made. With it,
`ImplementsStrongCall` includes that every call reaches its end: no loop over
elements or segments, and no chain of destructors, goes on for ever. The other
specifications have no liveness property: nothing obliges a caller to make
another call.

### Where the code and its documentation differ

Three runs show a counterexample:

| run | what happens |
|---|---|
| `devector_pair_move_small` | a move assignment steals the buffer of `x`, which then uses the small buffer of the assignment's target (`devector.hpp:640`) |
| `batch_deque_back_promise` | `back_free_capacity()` counts a segment that is in use, so that `reserve_back` does not allocate what it promises (`batch_deque.hpp:1068`) |
| `devector_back_promise` | a `resize_front` that reallocates uses up what `reserve_back` promised (`devector.hpp:2248`) |

The models show other differences, in the states and calls that the passing runs
leave out. Where a constant is named, giving it another value brings them back;
elsewhere the property that fails is named by what it would say.

| where | what happens | in the model |
|---|---|---|
| `devector.hpp:2375` | `emplace` in the middle, a move throws: the element constructed "(no guard)" is never destroyed | `ObjectsLive` with `ShiftMayThrow` |
| `devector.hpp:2518` | a range insertion that throws keeps the elements stored so far; `devector.hpp:1770` and `1803` promise the strong guarantee | `Excepted` without `"insert"` |
| `devector.hpp:2834` | `assign` that throws keeps the elements replaced so far; `devector.hpp:707` and `764` promise the strong guarantee | `Excepted` without `"assign"` |
| `devector.hpp:568` | a copy assignment that propagates an unequal allocator clears the target before it allocates and copies, and with equal ones it replaces element by element; `devector.hpp:549` promises the strong guarantee | `Excepted` of `DevectorPair` without `"copy"` |
| `devector.hpp:1926`, `batch_deque.hpp:1996` | `erase(p, p)` assigns the elements of one side to themselves | `SelfMoveKeeps = FALSE` |
| `devector.hpp:1780` | `insert(pos, n, x)` with `x` an element: the second half copies another element | outcome of `InsertAliased` |
| `devector.hpp:1186`, `2110` | a request so large that its sum with a free capacity wraps gets a buffer that is too small | `Wrapping` |
| `devector.hpp:2748` | swap of small devectors whose elements lie apart exchanges a range that ends before it begins | `AnyRanges`; guard of `Swap` |
| `devector.hpp:501`, `653` | a buffer is taken over, or the allocator replaced, although the allocators differ | `Avoided` |
| `batch_deque.hpp:674`, `718`, `2021` | the same with segments, in copy and move assignment; swap asserts the negation of its precondition | `Avoided` |
| `batch_deque.hpp:2274`, `2325` | `assign` asserts that no segment in front is free, which pops make false | guard of `AssignCall` |
| `batch_deque.hpp:2308` | objects constructed by `assign` in front of the elements leak when an assignment, or an iterator, throws | `ObjectsLive` with `ShiftMayThrow` |
| `batch_deque.hpp:491`, `563` | handlers of constructors free the last segment of the map when it was the allocation of the next one that threw | `AllocatorThrowsIn` |
| `batch_deque.hpp:1883`, `1888`, `1897` | `stable_insert` into the first segment moves elements; it may append a whole segment of default elements; iterators that point into the map are invalidated | conditions of `ElementsStay`; `Excepted` without `"stable_insert"` |
| `batch_deque.hpp:1887` | `stable_insert` takes its segments from a default-constructed `Allocator`, and the deque frees them with its own | taken to be equal, see `Beside` |
| `batch_deque.hpp:1350` | `shrink_to_fit` keeps an empty segment when the deque is empty inside it | outcome of `ShrinkToFit` |
| `batch_deque.hpp:2179`, `2384` | `emplace` and `insert` that throw keep what was pushed; `batch_deque.hpp:1798` and `1827` promise the strong guarantee | `Excepted` without `"insert"`, `"stable_insert"` |
| `batch_deque.hpp:2274`, `2325` | `assign` that throws keeps what it replaced or pushed, for instance when a segment cannot be allocated; `batch_deque.hpp:787` and `822` promise the strong guarantee | `Excepted` without `"assign"` |
| `batch_deque.hpp:655` | the same in a copy assignment, which is an `assign`, against the strong guarantee promised there | `Excepted` of `BatchDequePair` without `"copy"` |
| `batch_deque.hpp:220` | iterators are wrong if the segment size does not divide 2^w | `SegmentSize = 3` |
| `batch_deque.hpp:312` | a segment iterator that jumps to the first segment does not start at the first element | condition `k > 0` of `SegmentIsItsElements` |
| `serialize_batch_deque.hpp:58` | blocks are read with other lengths than they were written | `Seamless = FALSE` with `Trivial = TRUE` |

`SelfMoveKeeps` is whether `x = std::move(x)` keeps the value; the runs assume it
does, as for the types of the tests.

## Proofs

The theorems hold for every value of the constants that the named assumptions
admit: every small buffer, growth and shrink policy, width of `size_type`,
`max_size()`, size and number of segments, set of values, and bound on the caller.

| module | theorem | statement | assuming |
|---|---|---|---|
| `DevectorProofs` | `TypeCorrect` | `Spec => []TypeOK` | |
| | `AlwaysWellFormed` | `Spec => []WellFormed` | |
| | `AlwaysUsable` | `Spec => []BasicGuarantee` | |
| | `NoElementLost` | `Spec => []ObjectsLive` | `~ShiftMayThrow` |
| | `ReservePromise` | `ReserveSpec => []PromiseKept` | `"resize_front" \in Excepted` |
| | `ReserveAlwaysUsable` | `ReserveSpec => []BasicGuarantee` | |
| | `DevectorImplementsContract` | `Spec => ImplementsContract` | `~ShiftMayThrow`, `SelfMoveKeeps`, `insert` and `assign` excepted |
| | `EndsLeaveElementsInPlace` | `Spec => EndsMoveNothing` | `~ShiftMayThrow` |
| | `EachObjectGuardedOnce` | `CallSpec => []GuardsCover` | |
| | `OneBufferInTheEnd` | `CallSpec => []OneLeft` | |
| | `StrongExceptionGuarantee` | `CallSpec` implements the safety part of `StrongCall` | |
| `DevectorPairProofs` | `PairAlwaysWellFormed` | `Spec => []BothWellFormed` | `~ShiftMayThrow`, no steal into a small buffer |
| | `PairsShareNothing` | `Spec => []OneUserEach` | no steal into a small buffer |
| | `PairsUseTheirOwn` | `Spec => []OwnSmallBuffer` | the same |
| | `BuffersGoHome` | `Spec => RightAllocator` | the same; nothing taken over across allocators |
| | `PairImplementsContract` | `Spec => ImplementsPairContract` | no steal into a small buffer, `copy` excepted |
| | `SwapDestroysOneOfEachPair` | `SwapSpec => []OnePerPair` | `~AnyRanges` |
| | `SwapExchangesContents` | `SwapSpec => []Effect` | `~AnyRanges` |
| | `SwapIsOneStep` | `SwapSpec` exchanges the two, slot by slot | `~AnyRanges` |
| | `InputAlwaysWhole` | `InputSpec => []Whole` | `~ShiftMayThrow` |
| | `InputReadInOrder` | `InputSpec => []ReadInOrder` | |
| | `LoadsLeaveObjects` | `SerialSpec => []LeavesObjects` | `~ShiftMayThrow` |
| | `LoadsRestore` | `SerialSpec => [][latest'.op = "load" => Restores]_serialVars` | `~ShiftMayThrow` |
| | `LoadsReuseMemory` | `SerialSpec => [][latest'.op = "load" => ReusesMemory]_serialVars` | `~ShiftMayThrow` |
| | `UnsafeResizesKeep` | `SerialSpec => [][ResizeKeeps]_serialVars` | `~ShiftMayThrow` |
| `DevectorSizesProofs` | `RequestsGrantedInFull` | `Spec => []NothingOutside` | `Wrapping = {}` |
| `BatchDequeProofs` | `TypeCorrect` | `Spec => []TypeOK` | `Divides` |
| | `AlwaysWellFormed` | `Spec => []WellFormed` | `Divides` |
| | `SegmentsAlwaysOwned` | `Spec => []EachSegmentOnce` | `Divides` |
| | `AlwaysUsable` | `Spec => []BasicGuarantee` | `Divides` |
| | `NoElementLost` | `Spec => []ObjectsLive` | `Divides`, `~ShiftMayThrow` |
| | `IteratorsAreExact` | `Spec => []IteratorIsPosition` | `Divides` |
| | `SegmentsAreExact` | `Spec => []SegmentIsItsElements` | `Divides` |
| | `FrontPromise` | `ReserveSpec => []FrontPromiseKept` | `Divides` |
| | `BatchDequeImplementsContract` | `Spec => ImplementsContract` | `Divides`, `~ShiftMayThrow`, `SelfMoveKeeps`, `NotKept \subseteq Excepted` |
| | `ElementsStayInPlace` | `Spec => ElementsStay` | `Divides` |
| `BatchDequePairProofs` | `PairAlwaysWellFormed` | `Spec => []BothWellFormed` | `Divides`, `~ShiftMayThrow` |
| | `SegmentsGoHome` | `Spec => RightAllocator` | `Divides`, no hazard of the allocators |
| | `PairImplementsContract` | `Spec => ImplementsPairContract` | `Divides`, no swap of unequal allocators, `copy` excepted |
| | `SegmentsFreedEmpty` | `ConstructSpec => [][FreesEmpty]_constructVars` | `AllocatorThrowsIn`, `EnoughSegments` |
| | `ConstructsAllOrNothing` | `ConstructSpec` implements the safety part of `StrongCall` | the same |
| | `LoadsLeaveObjects` | `SerialSpec => []LeavesObjects` | `Divides`, `~ShiftMayThrow` |
| | `SavesContents` | `SerialSpec => [][latest'.op = "save" => Saved' = Contents(deque)]_serialVars` | `Divides` |
| | `LoadsRestore` | `SerialSpec => [][latest'.op = "load" => Restores]_serialVars` | `Divides`, `Seamless \/ ~Trivial` |
| | `LoadsReuseMemory` | `SerialSpec => [][latest'.op = "load" => ReusesMemory]_serialVars` | `Divides` |

### Assumptions

Each hypothesis of a theorem is there because the statement is false without it,
unless said otherwise:

* `~ShiftMayThrow`: `emplace` in the middle of a devector and `assign` of a
  batch_deque leave an object behind when a move or an assignment throws, see above. What holds
  without it is the basic guarantee, which is proved without it. The theorems about
  serialization do not need it, since none of the operations of `DevectorSerialization`
  and `BatchDequeSerialization` moves elements within a buffer; their proofs have it, because they use the lemmas about
  `Good`, which say only under it that no object is outside of the elements.
* `SelfMoveKeeps`: `erase(p, p)` moves elements onto themselves.
* `Wrapping = {}`: no call is made whose request wraps around with a free capacity;
  see `devector.hpp:1186` above.
* `Excepted`: the documented promises, of the set `NotKept` of each module, that are not
  asked for. Where a theorem has such a hypothesis, the documentation promises more than
  is proved, and the code does not keep it; see the lines listed above. `ReservePromise`
  is then a theorem about the free slots at the back only as long as no `resize_front`
  reallocates, while those in front are there through every reallocation; the theorems
  about contracts say what every call that returns does, and that a call which throws has
  no effect unless it is one of those excepted.
* `Divides`: the segment size divides the number of values of `size_type`. If it
  does not, `advance` is wrong for negative distances (`batch_deque.hpp:220`).

* "No steal into a small buffer" is `"steal into a small buffer" \in Avoided` or
  `SBuf = 0`; "nothing taken over across allocators", "no hazard of the allocators" and
  "no swap of unequal allocators" are the other names of `Hazards`. A caller who does not
  avoid one of these calls gets a small buffer with two users or a buffer returned to the
  wrong allocator, by the lines listed above. The two theorems of `DevectorPairProofs`
  about contents have the first for another reason: the model keeps the objects in one
  small buffer apart from those in the other, which they are as long as each has one user.

* `~AnyRanges`: `*this` of a swap of two small devectors is not entirely above the other
  one, so that the range exchanged does not end before it begins (`devector.hpp:2748`).

* `AllocatorThrowsIn \subseteq {"count"}`: in the other two constructors the handler frees
  the last segment of the map whether or not it was the one at hand (`batch_deque.hpp:491`,
  `563`). `EnoughSegments` bounds the request: the allocator, which has `MaxSegments`, can
  serve it unless it throws.

* `Seamless \/ ~Trivial`: an archive that keeps calls apart is read in the pieces it was
  written in, and where segments begin may differ (`serialize_batch_deque.hpp:58`).

* The four theorems about `DevectorSerialization` take `Default` to be an object and the
  bound `MaxSaved` to be at most `max_size()`: an archive that is longer than that cannot
  be loaded.

Assumptions on the constants that the proofs brought out:

* `SizesAssumption` of `DevectorOps` asks nothing of the growth policy but its
  range, with one exception: where `max_size()` is the largest `size_type` and the
  capacity is at that maximum, the request for one more wraps to 0, and a policy
  that answers with the capacity itself would pass the check `new_capacity <
  capacity()`. `devector_growth_policy` does not, since 4 times the maximum wraps.
* `SizesAssumption` of `DevectorSizes`: `Word > 3`. With fewer values, 16 or 4 times
  the capacity may wrap around to the capacity itself, which passes the same check.
* `BatchAssumption`: 16, and 4 times the largest capacity of the map, are values of
  `size_type`, and the number of cells of all segments is one of `difference_type`, as
  they are where the map holds pointers and both are in memory; and the markers `Raw`
  and `Unspec` are neither segments nor values.
* `PairAssumption`, of both modules of two objects: a name stands for one thing only;
  two devectors have three buffers in the heap to use, one for each and one for the one
  that reallocates, since the model has no outcome for a heap that is exhausted where the
  code would get `bad_alloc`.

`Reallocation` starts only calls whose request is granted in a buffer of at most
`max_size()`; its `Requests` carry the guards of the functions that make them,
among them that the sum of the request and a free capacity is a `size_type`,
without which the new buffer is too small. `RequestFits` of `DevectorInput` is the same
guard for the one insertion of many elements there. Its bounds are any natural numbers.

### devector

None of `TypeOK`, `WellFormed` and `BasicGuarantee` is inductive alone. Which slots
an operation touches follows from the indices, so that objects are in place only if
the indices were in order; whether a buffer is freed follows from the capacity, so
that the capacity must never fall to the small buffer's size without `_buffer`
following. The invariant `Inv` is their conjunction (`Good`) with the outcome of the
latest call. `Good` speaks of the slots through `Held`: there is an object in every
slot between the indices, and, if moves do not throw, in no other. So one proof
serves both what always holds and what needs `~ShiftMayThrow`.

`DevectorOpsProofs` begins with one lemma for each operation on memory, which says
what the slots hold after it (`PutObjects`, `TransferObjects`, `SlideObjects`,
`RotateObjects`, ...). A small set of lemmas turn that into `Good` for a new buffer
or the same one. Each member function has a lemma that it keeps `Good`, from the
lemmas of the functions it calls; `InsertReallocatingGood` and `CapacityFacts` carry
the arithmetic of growth. `NextGood` has one step per action.

The reserve promise is inductive with `Inv` (`ReserveInv`): each operation has a
lemma that says by how much the free capacity at either end falls at most, and
`Account` counts the same. There is no such bound at the back for a `resize_front` that
reallocates, which is why it has to be excepted.

### The contract

`DevectorImplementsContract` is a refinement from memory to sequences. For each
member function, `DevectorOpsProofs` says which elements were inserted or removed
(`Inserted`, `Removed`): the elements below the place are the same, those
above it are further on, and the new ones are in between, wherever the function put
them. Further lemmas there turn each of these into the equation between sequences that
`SequenceContract` has for the call; `DevectorProofs` then shows that every step of
`Devector` is a step of the contract or a stutter. A range insertion or an assignment
that throws has the intermediate result the contract allows of those excepted, which is
less than the documentation promises; every other call that throws leaves `dv` unchanged.

`EndsLeaveElementsInPlace` adds that every reallocation is to a larger buffer, so that
an operation at the ends that keeps the capacity has moved nothing.

`BatchDequeImplementsContract` has the same contract to meet by other means: nearly
everything is pushed to an end and rotated into place. `BatchDequeElementsProofs` says
which element is at which position: `SameElement` relates a position of the old deque
to one of the new; `Prefixed` and `Suffixed` are what pushes leave, `IsSplice` and
`IsCut` what insertions and erasures leave, and there is a lemma from the first two and
`Rotate` to the third. From `IsSplice` and `IsCut` follow the equations between
sequences. Elements that were constructed and not yet rotated when something threw are
the elements pushed to an end that are allowed of an insertion which is excepted. That
`stable_insert` finds the nearest boundary is `AtTheBoundary`.

`ElementsStayInPlace` needs addresses in place of positions: a cell is a segment and an
index in it. Pushes, pops and reallocations of the map move whole segments to other
slots of the map, so that the position of an element changes and its cell does not;
the lemmas say which. `SameAtAnEnd` is the part of the property about the ends.

### Sizes and reallocation

`RequestsGrantedInFull`: the invariant is that the indices and the capacity are in
order and the slots touched last are in the buffer. Every difference in
`DevectorSizes` is then proved not to wrap, from the conditions on the path to it.

Reallocation: the invariant `CallInv` of `DevectorProofs` has, for each `pc`, which slots of the new
buffer hold objects, which of them each guard holds, what the old buffer holds
(everything, if elements are copied; what was not yet moved, if they cannot throw),
and which buffers are allocated. From it follow that every object in the new buffer
has one guard at every step, that one buffer is left, and that what a caller sees
changes once, at the end, to the result of the operator of `DevectorOps`. That the
call ends is checked by TLC in `calls`, since it needs fairness.

### batch_deque

Two sets of lemmas come first. The map is a devector of segments: its lemmas are
those of `DevectorOpsProofs`, instantiated (`MapP`) as the code instantiates devector.
And an iterator is shown to be a number: for positions between 0 and the end of the
map, `Advance`, `Increment`, `Decrement` and `DistanceTo` are addition and subtraction
of positions (`AdvanceIs`, `DistanceIs`), which is where `Divides` is needed. Everything
else is about positions.

The invariant is `Good(d, kept, m0)`: the map is a good devector; `_begin` and `_end`
are iterators in it, in order (`Shaped`); its segments are distinct, and with `kept`
they are the ones allocated, where `kept` are segments of another deque that still
hold what m0 says (`Owned`); cells of elements hold objects (`Filled`); other cells are
raw if moves do not throw (`Tidy`). `kept` is empty for a caller; it is there for
`stable_insert`, which builds a second deque, takes its segments into the map and
frees it.

Each function has a lemma, from small steps: a cell is written (`StoredGood`), the map
reallocated or moved (`MovedGood`), a segment added (`AddedGood`), segments without
elements dropped (`DroppedGood`), elements rearranged (`RearrangedGood`), segments
spliced in (`SplicedGood`). `Grown` says how many positions a push moved both iterators
and that no element moved, `PushesToFront` and `PushesToBack` the same for any number of
pushes. What is pushed one by one is a recursive function over the number of pushes; a
lemma unfolds it (`PushFrontSteps`, ...) and the proof goes by induction over that
number. The library's induction theorems take an operator and cannot be used here;
`Induction` is the same fact about sets of numbers, from `WFMin`.

`FullSegments` settles a case the code leaves open: `stable_insert` resizes the second
deque by its `back_free_capacity()`, so that its last segment is full when the segments
are spliced in. That function counts a segment too many (see above); the resize then
appends a whole segment of default elements, and the last segment is full all the same.

The promise of `reserve_front` needs what each call leaves of the cells in front
(`FrontSpared`), which is part of the lemma of each call (`Kept`). For the segment
iterators, the two recursive functions of `SegmentIsItsElements` are shown to be the
same explicit one (`SegmentsOf`).

### Two objects

For two devectors there are three layers, each of which asks more of the caller than the
one before. `Shapes`: each of them is `Good`, whatever the other does. `BuffersOwned`:
`_buffer` of each is its own small buffer or one of the heap that is allocated, the two
are different, and no other is allocated; this is inductive only without the steal of
`devector.hpp:640`. `Owners`: the allocator each buffer was obtained from is that of its
user, which makes the allocator that frees the right one; this is inductive only if
allocators that differ are kept apart. `PairInv` is the first two; `PairNext` has one case
for each action, and each action a lemma (`CopyOwned`, `StealOwned`, `SwapOwned`, ...).
A lemma each for a buffer that is replaced, kept, stolen or swapped is what these share.

The swap of two small devectors is one step there. `SwapInv` is the invariant of that step
taken apart (`SmallSwap`). What is moved and what is exchanged is fixed when swap is called,
so the invariant speaks of the two as they were then: the elements without a pair at the
start, the pairs, and the elements without a pair at the end are three ranges that do not
overlap and cover all elements (`PlanIs`, `PlanCovers`). What each slot of each buffer holds is
then a function of how far the guards and the exchange have come: it is as before, moved,
copied, exchanged or destroyed (`Holds`, `GuardedSlot`). Each action advances one of these
numbers by one and writes one slot of each buffer (`GuardGrows`, `GuardShrinks`); success
and failure choose which half of each pair a guard destroys (`GuardChooses`).

`InputInv` is the invariant of a devector filled from input iterators: what is stored,
followed by what was not read yet, is what is wanted (`Progress`); for an insertion, what
the temporary holds followed by what was not read is the range. Each read moves one element
over the boundary, and it must be taken from the one place and put into the other: with the
iterator taken by value, `Overwritten` elements would be on both sides.

For two batch_deques the invariant is that each is `Good` with no segment kept for another
(`Well`): a call on one of them takes no segment of the other but with the whole map.
`Owners` says again from where each segment came. `Keeps` is what every call does to both.

In both, the contract follows from the equations between contents that the lemmas about one
object give for `Assign`, `Constructed` and the pushes.

The constructors of batch_deque are one step there, too. `ConstructInv` is the invariant of
that step taken apart (`BatchDequeConstruct`). It says of each cell whether an element is
in it (`Present`) and of the segments that they are consecutive (`Obtained`). While elements are
constructed, those present are the ones of the segments before, and what the guard or the
counter has of the one at hand (`Progress`); while they are destroyed, the ones from `cursor` to
`last` (`Retreat`). What the handlers compute for `_end` must therefore be the place where
construction stopped, which is shown in `CountHandlerHolds` and `RangeHandlerHolds`.
`PlanFacts` relates the places in the segments to the indices of the elements, and
`LeavesAllOrNothing` the last state to `Built` of `BatchDequeOps`.

### Serialization

For a devector that is saved and loaded, `Good` is too strong: the unsafe resizes leave raw
slots between the indices until the caller fills them, and in the middle of a load there
may be objects outside of them, which are trivially copyable and are forgotten. So the lemmas
of the unsafe resizes (`UnsafeFrontResized`, `UnsafeBackResized`) ask only for `Framed`: the
members and the buffer fit together, whatever the slots hold. `SerialInv` is `Loose`, that
is `Framed` and no object outside of the elements; that what was saved consists of objects
and is no longer than `max_size()`; and that there are no raw slots after a load. Once the
caller has filled them, `Loose` is `Good` (`LooseIsGood`), and the lemmas about pushes, pops
and resizes hold again.

`RoomToRead` says that both ways to resize in a load leave as many elements as were
saved, in the same buffer if they fit into it, by the resize of the front and then of the back;
`NoRoomToRead` is the same for a resize that throws. `ReadElements` reads the first k
elements over them, and `ReadingThrew` covers the handler of `load_trivial`. That the resizes
keep the elements there are is an equation between slots, which `LastSame` and
`FirstSame` turn into the one between sequences in `ResizeKeeps`.

A batch_deque is in the good state (`Good`) throughout, since its resizes construct what
they add. Its `SerialInv` adds that what was saved consists of objects, and that without
segments each was written on its own. What a call writes or reads are positions from one
end to the next one (`PiecesAre`, from the lemma about segment iterators that
`SegmentsAreExact` rests on); so what was written, put together (`Flattened`), are the
contents, and what is read over the elements of any other batch_deque of that size
(`ReadIs`) becomes its contents, although it is cut elsewhere. `PushedIntoFront` and
`PushedIntoBack` say that pushes allocate nothing while there are free cells on their side;
`RoomToRead` and `NoRoomToRead` add up both sides as load does.

### Model-checked only

* `PairsWellFormed` and `PairsUseOwnBuffers` of `DevectorPairs` choose between the
  property of `DevectorPair` with a small buffer and that without. `DevectorPairProofs`
  proves both for every size of it; that the two kinds do not mix is `small` not
  changing.
* `GuardsCoverNewBuffer` and `OneBufferLeft` of `Calls` are in the same way
  `GuardsCover` and `OneLeft` of `Reallocation`, which are proved.
* `OneOfEachPairDestroyed` and `SwapEffect` of `Calls` are `OnePerPair` and `Effect` of
  `SmallSwap`, and `InputEffect` is `Whole` and `ReadInOrder` of `DevectorInput`; these
  are proved.
* `FreesEmptySegments` of `Calls` is `FreesEmpty` of `BatchDequeConstruct`, which is proved.
* `LoadLeavesObjects`, `LoadRestores`, `LoadReusesMemory` and `UnsafeResizeKeeps` of
  `Serialization` are `LeavesObjects`, `Restores`, `ReusesMemory` and `ResizeKeeps` of
  `DevectorSerialization` and `BatchDequeSerialization`, which are proved.
* The liveness in `ImplementsStrongCall`, which is out of the provers' reach.
* What the three violated properties say: they are false.

## Not modelled

* Traits and value iterators (`detail/allocator.hpp`, `detail/iterators.hpp`):
  compile-time conditions and iterators over copies of a value, which have no
  state; a range of them is the sequence `Copies`.
* Comparison operators and element access: they change nothing.
* `detail/documentation.hpp`, tests, benchmarks, examples and documentation are
  not part of the library; they were read for what they promise.

## Plan

Every safety property that a run checks is proved of the module it is about, but for those
under "Model-checked only", which only choose between such modules. What could be added is
liveness, when the provers can do it, and the comparison operators, if they are to be
related to `Contents`.
