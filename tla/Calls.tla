--------------------------------- MODULE Calls ---------------------------------
(***************************************************************************)
(* One call, step by step: a reallocation of a devector whose elements are *)
(* moved or copied, a swap of two small devectors, the construction of a   *)
(* batch_deque, or a devector filled from input iterators.  Which it is is *)
(* chosen once.                                                            *)
(*                                                                         *)
(* The steps are those of the component modules.  What is said of all of   *)
(* them is here.                                                           *)
(***************************************************************************)
EXTENDS Integers, Sequences

CONSTANTS
  Values, Raw, Unspec, Default, SelfMoveKeeps,                     \* of all
  MaxSize, AllowsShrink(_, _), MaxNew,                             \* of Reallocation
  SwapSize, AnyRanges,                                             \* of SmallSwap
  SegmentSize, Word, MaxSegments, MapMax, MaxElements, Forms, AllocatorThrowsIn,
                                                            \* of BatchDequeConstruct
  InputMaxSize, MaxBefore, MaxFree, MaxStream                      \* of DevectorInput

ASSUME CallsAssumption ==
  /\ SwapSize > 0 /\ AnyRanges \in BOOLEAN
  /\ {MaxElements, MaxBefore, MaxFree, MaxStream} \subseteq Nat
  /\ MaxBefore + 2 * MaxFree =< InputMaxSize
  /\ AllocatorThrowsIn \subseteq Forms

VARIABLES
  part,                                           \* which of the calls it is
  dv, request, before, pc,                        \* of several of them
  new, heap, second, first,                       \* of Reallocation
  side, front, back, place,                        \* of SmallSwap
  segments, allocated, mem, full, guard, last, cursor, \* of BatchDequeConstruct
  stream, range                                   \* of DevectorInput

common      == <<dv, request, before, pc>>
ofMoves     == <<new, heap, second, first>>
ofSwap      == <<side, front, back, place>>
ofConstruct == <<segments, allocated, mem, full, guard, last, cursor>>
ofInput     == <<stream, range>>

callVars == <<part, common, ofMoves, ofSwap, ofConstruct, ofInput>>

\* A policy that doubles, wrapping around as unsigned arithmetic does.
Doubling(max) == [c \in 0 .. max |-> IF c = 0 THEN 3 ELSE (2 * c) % (max + 1)]

\* The elements are moved, and there is a small buffer; or they are copied since moving
\* them can throw, and there is none.
Moving == INSTANCE Reallocation WITH
            self <- dv, SBuf <- 1, SizeMax <- MaxSize, NewCapacity <- Doubling(MaxSize),
            ShouldShrink <- AllowsShrink, ShiftMayThrow <- FALSE

Copying == INSTANCE Reallocation WITH
             self <- dv, SBuf <- 0, SizeMax <- MaxSize, NewCapacity <- Doubling(MaxSize),
             ShouldShrink <- AllowsShrink, ShiftMayThrow <- TRUE

Swap == INSTANCE SmallSwap WITH
          SBuf <- SwapSize, SizeMax <- SwapSize, MaxSize <- SwapSize,
          NewCapacity <- Doubling(SwapSize), ShouldShrink <- AllowsShrink,
          ShiftMayThrow <- TRUE

Construct == INSTANCE BatchDequeConstruct WITH ShiftMayThrow <- FALSE

Input == INSTANCE DevectorInput WITH
           initial <- before, next <- pc,
           SBuf <- 2, SizeMax <- InputMaxSize, MaxSize <- InputMaxSize,
           NewCapacity <- Doubling(InputMaxSize), ShouldShrink <- AllowsShrink,
           ShiftMayThrow <- FALSE

-----------------------------------------------------------------------------
Idle(v) == v = "idle"

IdleMoves == Idle(new) /\ Idle(heap) /\ Idle(second) /\ Idle(first)
IdleSwap  == Idle(side) /\ Idle(front) /\ Idle(back) /\ Idle(place)
IdleInput == Idle(stream) /\ Idle(range)
IdleConstruct ==
  /\ Idle(segments) /\ Idle(allocated) /\ Idle(mem) /\ Idle(full)
  /\ Idle(guard) /\ Idle(last) /\ Idle(cursor)

Init ==
  \/ /\ \/ part = "moving" /\ Moving!CallInit
        \/ part = "copying" /\ Copying!CallInit
     /\ IdleSwap /\ IdleConstruct /\ IdleInput
  \/ /\ part = "swap" /\ Swap!SwapInit
     /\ Idle(dv) /\ Idle(request) /\ IdleMoves /\ IdleConstruct /\ IdleInput
  \/ /\ part = "construct" /\ Construct!ConstructInit
     /\ Idle(dv) /\ Idle(before) /\ IdleMoves /\ IdleSwap /\ IdleInput
  \/ /\ part = "input" /\ Input!InputInit
     /\ IdleMoves /\ IdleSwap /\ IdleConstruct

Step ==
  /\ UNCHANGED part
  /\ \/ part = "moving" /\ Moving!Step /\ UNCHANGED <<ofSwap, ofConstruct, ofInput>>
     \/ part = "copying" /\ Copying!Step /\ UNCHANGED <<ofSwap, ofConstruct, ofInput>>
     \/ /\ part = "swap" /\ Swap!Step
        /\ UNCHANGED <<dv, request, ofMoves, ofConstruct, ofInput>>
     \/ /\ part = "construct" /\ Construct!ConstructStep
        /\ UNCHANGED <<dv, before, ofMoves, ofSwap, ofInput>>
     \/ part = "input" /\ Input!InputStep /\ UNCHANGED <<ofMoves, ofSwap, ofConstruct>>

Ends  == {"done", "threw"}
Ended == pc \in Ends /\ UNCHANGED callVars

Next == Step \/ Ended

\* The code runs on: what it calls returns or throws.
Spec == Init /\ [][Next]_callVars /\ WF_callVars(Step)

-----------------------------------------------------------------------------
\* During a reallocation, until the members change, the objects in the new buffer are
\* those guarded, each by one guard: whenever something throws, all of them are
\* destroyed, once.
GuardsCoverNewBuffer ==
  part \in {"moving", "copying"} => Moving!GuardsCover

\* After a reallocation the one buffer in use is allocated, if it is not the small one,
\* and no other; the old buffer was freed with no object in it.
OneBufferLeft ==
  (part = "moving" => Moving!OneLeft) /\ (part = "copying" => Copying!OneLeft)

\* After a swap, also when a copy or an exchange threw, the objects in each buffer are
\* the elements: of each pair of original and copy exactly one was destroyed.
OneOfEachPairDestroyed == part = "swap" => Swap!OnePerPair

\* swap exchanges the contents.  If it throws, elements in the same place may be
\* exchanged and all others are as they were.
SwapEffect == part = "swap" => Swap!Effect

\* A constructor that fails returns a segment to the allocator with no object in it:
\* whatever failed, each element constructed was destroyed before.
FreesEmptySegments == [][part = "construct" => Construct!FreesEmpty]_callVars

\* While a devector reads from input iterators, and after it threw, its members, its
\* buffer and the objects in it fit each other.  However the elements came to be split
\* between the buffer overwritten and the pushes after it, or between stream and
\* temporary, none is lost, read twice or out of place.
InputEffect == part = "input" => Input!Whole /\ Input!ReadInOrder

\* A reallocation implements one step of DevectorOps or has no effect, and it ends
\* ("Strong exception guarantee").  So does a constructor: either the elements of the
\* range are there, in the segments BatchDequeOps gives them, or nothing is left.
\* The other two calls promise less; of them it says that they end.
Strong == INSTANCE StrongCall WITH
            object  <- CASE part \in {"moving", "copying"} -> Moving!Seen
                         [] part = "construct" -> Construct!Seen
                         [] OTHER -> "any",
            wanted  <- CASE part \in {"moving", "copying"} -> Moving!Wanted
                         [] part = "construct" -> Construct!Wanted
                         [] OTHER -> "any",
            outcome <- IF pc \in Ends \cup {"undefined"} THEN pc ELSE "running"

ImplementsStrongCall == Strong!Spec

=============================================================================
