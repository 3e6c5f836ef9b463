------------------------ MODULE BatchDequeSerialization ------------------------
(***************************************************************************)
(* A batch_deque that is saved to an archive and loaded from it by Boost.  *)
(* Serialization.  If its elements are trivially copyable, each segment is *)
(* written and read by one call; else each element is.                     *)
(*                                                                         *)
(* The archive is the code's environment.  What is written to it can be    *)
(* read back: in pieces of any length if it is Seamless, as a binary       *)
(* archive is; otherwise, as text archives do, it ends what each call      *)
(* wrote with a mark of its own, and one call has to read it whole.        *)
(***************************************************************************)
EXTENDS BatchDequeOps, FiniteSets

Ext == INSTANCE SequencesExt

CONSTANTS
  Trivial,  \* T is trivially copyable
  Seamless, \* the archive does not keep apart what calls wrote
  MaxSaved  \* bound: the largest size() a caller brings about

VARIABLES
  deque,   \* the batch_deque, see BatchDequeOps
  archive, \* what the calls of one save wrote: sequences of elements
  latest   \* the latest call

serialVars == <<deque, archive, latest>>

Saved == Ext!FlattenSeq(archive)

SerialInit ==
  /\ deque = Constructed(<< >>)
  /\ archive = << >>
  /\ latest = [op |-> "construct", out |-> "ok"]

Recorded(op, out) == latest' = [op |-> op, out |-> out]

-----------------------------------------------------------------------------
\* Operations for its shape; see BatchDeque

Reshaped ==
  (IF SizeOf(deque) < MaxSaved
   THEN {EmplaceFront(deque, x) : x \in {x \in Values : EmplaceFrontOk(deque)}} \cup
        {EmplaceBack(deque, x) : x \in {x \in Values : EmplaceBackOk(deque)}}
   ELSE {}) \cup
  (IF deque.begin # deque.end THEN {PopFront(deque), PopBack(deque)} ELSE {}) \cup
  {ShrinkToFit(deque), Clear(deque)}

Reshape == deque' \in Reshaped /\ UNCHANGED archive /\ Recorded("edit", "ok")

-----------------------------------------------------------------------------
\* The k-th segment iterator from segment_begin() on
SegmentAt(d, k) ==
  IF k = 1 THEN SegmentBegin(d.begin) ELSE SegmentAdvance(SegmentBegin(d.begin), k - 1)

\* Mutant: a last segment that is not full is left out.
SegmentsOfFull(d) == 1 .. d.end.at - d.begin.at

\* From segment_begin() to segment_end()
SegmentsOf(d) == 1 .. SegmentEnd(d.end).at - SegmentBegin(d.begin).at

\* The positions each call writes or reads.  If the batch_deque is empty within a segment,
\* there is one call, of no elements.
Pieces(d) ==
  IF Trivial
  THEN [k \in SegmentsOf(d) |-> SegmentData(SegmentAt(d, k), d.end)]
  ELSE [k \in 1 .. SizeOf(d) |-> {First(d) + k - 1}]

Lengths(d) == [k \in DOMAIN Pieces(d) |-> Cardinality(Pieces(d)[k])]

\* save
Save ==
  /\ archive' = [k \in DOMAIN Pieces(deque) |->
                   [i \in 1 .. Lengths(deque)[k] |->
                      Cell(deque, Ext!Min(Pieces(deque)[k]) + i - 1)]]
  /\ UNCHANGED deque /\ Recorded("save", "ok")

\* Mutant: the elements are not taken into account.
ToFrontOfFree(d, n) == Smaller(FrontFreeCapacity(d), n)

\* How many elements load makes use of the front for
ToFront(d, n) == Smaller(FrontFreeCapacity(d) + SizeOf(d), n)

\* new_size - to_front + c.size()
SizeToReach(d, front, n) == n - ToFront(d, n) + SizeOf(front)

FrontResized(d, n) == ResizeFront(d, ToFront(d, n), Default)

\* The batch_deque with n elements to be read over
Resized(d, n) ==
  UNION {ResizeBack(front, SizeToReach(d, front, n), Default) :
           front \in FrontResized(d, n)}

ResizeThrew(d, n) ==
  (IF ToFront(d, n) > SizeOf(d)
   THEN ResizeFrontThrew(d, ToFront(d, n), Default) ELSE {}) \cup
  UNION {ResizeBackThrew(front, SizeToReach(d, front, n), Default) :
           front \in {f \in FrontResized(d, n) : SizeToReach(d, f, n) > SizeOf(f)}}

\* The first k pieces of d were read.
Read(d, k) ==
  LET upTo == IF k = 0 THEN {} ELSE UNION {Pieces(d)[j] : j \in 1 .. k}
  IN  Store(d, [p \in upTo |-> Saved[p - First(d) + 1]])

\* The pieces of d that can be read: all of them if their ends do not matter.
Readable(d) ==
  IF Seamless THEN Len(Pieces(d))
  ELSE Ext!Max({k \in 0 .. Smaller(Len(archive), Len(Pieces(d))) :
                   \A j \in 1 .. k : Lengths(d)[j] = Len(archive[j])})

Load ==
  /\ \E d \in Resized(deque, Len(Saved)) :
       /\ deque' = Read(d, Readable(d))
       /\ Recorded("load", IF Readable(d) = Len(Pieces(d)) THEN "ok" ELSE "unreadable")
  /\ UNCHANGED archive

\* Making room throws, or reading the k-th piece.
LoadThrows ==
  /\ \/ deque' \in ResizeThrew(deque, Len(Saved))
     \/ \E d \in Resized(deque, Len(Saved)) :
          \E k \in 0 .. Readable(d) - 1 : deque' = Read(d, k)
  /\ UNCHANGED archive /\ Recorded("load", "threw")

SerialNext == Reshape \/ Save \/ Load \/ LoadThrows

SerialSpec == SerialInit /\ [][SerialNext]_serialVars

-----------------------------------------------------------------------------
\* After every call, a load that threw included, batch_deque::invariants_ok() holds,
\* the segments are owned and the objects in them are the elements.
LeavesObjects ==
  /\ deque \in DequeType
  /\ InvariantsOk(deque) /\ SegmentsOwned(deque) /\ LiveExactly(deque)

\* The contents after a load are those saved, wherever the batch_deque began in its
\* first segment then and now.
Restores == latest'.out # "threw" => latest'.out = "ok" /\ Contents(deque') = Saved

\* The cells before the elements are used as well as those behind.
ReusesMemory ==
  Len(Saved) =< FrontFreeCapacity(deque) + SizeOf(deque) + CellsBehind(deque) =>
    deque'.allocated = deque.allocated

=============================================================================
