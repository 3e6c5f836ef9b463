----------------------------- MODULE BatchDequePair -----------------------------
(***************************************************************************)
(* Two batch_deques, each with an allocator, and a caller that copies,     *)
(* moves and swaps them, and constructs them anew from each other.         *)
(*                                                                         *)
(* An object of BatchDequeOps numbers its own segments.  To it comes, for  *)
(* each segment, the allocator it was obtained from.                       *)
(***************************************************************************)
EXTENDS BatchDequeOps

CONSTANTS
  Allocators,  \* allocators that do not compare equal
  MaxLen,      \* bound: the largest size() a caller brings about
  Avoided,     \* what the caller avoids, of Hazards
  Excepted     \* documented promises that are not asked for, of NotKept

\* Calls after which the properties below do not hold
Hazards == {"copy to an unequal allocator", "move to an unequal allocator",
            "swap unequal allocators"}

\* What is documented and not kept: that a copy assignment which throws, for want of
\* memory where copies do not throw, has no effect.
NotKept == {"copy"}

ASSUME PairAssumption ==
  /\ MaxLen \in Nat
  /\ Avoided \subseteq Hazards
  /\ Excepted \subseteq NotKept

Names == {"a", "b"}
Free  == "free"

VARIABLES
  propagates, \* the allocators propagate on assignment and on swap, which is fixed
  obj,        \* the members of each batch_deque
  alloc,      \* its allocator
  source,     \* the allocator each of its segments was obtained from, or Free
  returned,   \* the segments the latest call returned: <<obtained from, returned to>>
  call        \* the latest call, see PairContract

pairVars == <<propagates, obj, alloc, source, returned, call>>

NoSource == [s \in Segments |-> Free]

Init ==
  /\ propagates \in BOOLEAN
  /\ obj = [o \in Names |-> Constructed(<< >>)]
  /\ alloc \in [Names -> Allocators]
  /\ source = [o \in Names |-> NoSource]
  /\ returned = {}
  /\ call = [op |-> "edit", to |-> "a", from |-> "a", out |-> "ok"]

Is(op, to, from, out) ==
  call' = [op |-> op, to |-> to, from |-> from, out |-> out]

-----------------------------------------------------------------------------
\* Memory

\* What the segments of d come from, if al provided the new ones
SourceOf(o, d, al) ==
  [s \in Segments |-> IF s \notin d.allocated THEN Free
                      ELSE IF s \in obj[o].allocated THEN source[o][s] ELSE al]

\* o becomes d by calls to its allocator, which now is al.
Become(o, d, al) ==
  /\ obj' = [obj EXCEPT ![o] = d]
  /\ source' = [source EXCEPT ![o] = SourceOf(o, d, al)]
  /\ returned' = {<<source[o][s], al>> : s \in obj[o].allocated \ d.allocated}

\* ~batch_deque() of o, whose place something else takes
Destroyed(o) ==
  returned' = {<<source[o][s], alloc[o]>> : s \in obj[o].allocated}

\* d with every element moved from
MovedFrom(d) == Store(d, [p \in First(d) .. Past(d) - 1 |-> Unspec])

\* assign asserts that begin() is in the first segment.
Assignable(d) == d.begin # d.end => BeginsInFirstSegment(d)

-----------------------------------------------------------------------------
\* Operations on one of them, for its shape; see BatchDeque
Edits(o) ==
  (IF SizeOf(obj[o]) < MaxLen
   THEN {EmplaceFront(obj[o], x) : x \in {x \in Values : EmplaceFrontOk(obj[o])}} \cup
        {EmplaceBack(obj[o], x) : x \in {x \in Values : EmplaceBackOk(obj[o])}}
   ELSE {}) \cup
  (IF obj[o].begin # obj[o].end THEN {PopFront(obj[o]), PopBack(obj[o])} ELSE {}) \cup
  {Clear(obj[o])}

Edit(o) ==
  /\ \E d \in Edits(o) : Become(o, d, alloc[o])
  /\ UNCHANGED alloc
  /\ Is("edit", o, o, "ok")

\* Copy assignment clears what the new allocator could not free: the elements go,
\* the segments stay.
ClearedFor(o, from) ==
  IF propagates /\ alloc[o] # alloc[from] THEN Clear(obj[o]) ELSE obj[o]

\* Mutant: the allocator does not go with the segments.
AdoptedNever(o, from) == alloc

Adopted(o, from) == [alloc EXCEPT ![o] = IF propagates THEN alloc[from] ELSE @]

\* operator=(const batch_deque&)
CopyAssign(o, from) ==
  LET xs == Contents(obj[from])
      d  == ClearedFor(o, from)
  IN  /\ o # from /\ Assignable(d)
      /\ "copy to an unequal allocator" \in Avoided =>
           ~propagates \/ alloc[o] = alloc[from] \/ obj[o].allocated = {}
      /\ alloc' = Adopted(o, from)
      /\ \/ /\ \E e \in Assign(d, xs, FALSE) : Become(o, e, alloc'[o])
            /\ Is("copy", o, from, "ok")
         \/ /\ \E e \in AssignThrew(d, xs, FALSE) : Become(o, e, alloc'[o])
            /\ Is("copy", o, from, "threw")

\* a = a
CopyAssignSelf(o) ==
  /\ UNCHANGED <<obj, alloc, source>> /\ returned' = {}
  /\ Is("copy", o, o, "ok")

CanSteal(o, from) == propagates \/ alloc[o] = alloc[from]

\* Mutant: _begin stays with its object.
ExchangedButBegin(o, p) ==
  [obj EXCEPT ![o] = [obj[p] EXCEPT !.begin = obj[o].begin],
              ![p] = [obj[o] EXCEPT !.begin = obj[p].begin]]

\* _map, _begin and _end change places.
Exchanged(o, p) == [obj EXCEPT ![o] = obj[p], ![p] = obj[o]]

ExchangeSegments(o, p) ==
  /\ obj' = Exchanged(o, p)
  /\ source' = [source EXCEPT ![o] = source[p], ![p] = source[o]]
  /\ returned' = {}

\* operator=(batch_deque&&): `from` gets the segments of *this.
MoveAssignSwapping(o, from) ==
  /\ CanSteal(o, from)
  /\ "move to an unequal allocator" \in Avoided =>
       alloc[o] = alloc[from] \/ obj[o].allocated = {}
  /\ ExchangeSegments(o, from)
  /\ alloc' = Adopted(o, from)
  /\ Is("move", o, from, "ok")

\* operator=(batch_deque&&), element by element
MoveAssignElements(o, from) ==
  /\ ~CanSteal(o, from) /\ Assignable(obj[o])
  /\ \E e \in Assign(obj[o], Contents(obj[from]), FALSE) :
       /\ obj' = [obj EXCEPT ![o] = e, ![from] = MovedFrom(@)]
       /\ source' = [source EXCEPT ![o] = SourceOf(o, e, alloc[o])]
  /\ returned' = {}
  /\ UNCHANGED alloc
  /\ Is("move", o, from, "ok")

\* swap: what is asserted is that unequal allocators do not propagate.
Swap(o, p) ==
  /\ propagates \/ alloc[o] = alloc[p]
  /\ IF propagates /\ alloc[o] # alloc[p]
     THEN /\ "swap unequal allocators" \notin Avoided
          /\ UNCHANGED <<obj, alloc, source>> /\ returned' = {}
          /\ Is("swap", o, p, "asserted")
     ELSE /\ ExchangeSegments(o, p)
          /\ UNCHANGED alloc
          /\ Is("swap", o, p, "ok")

-----------------------------------------------------------------------------
\* Construction, in the place of a batch_deque that is destroyed first

\* batch_deque(const batch_deque&, allocator)
CopyConstruct(o, from, al) ==
  LET d == CopyConstructed(obj[from])
  IN  /\ o # from
      /\ obj' = [obj EXCEPT ![o] = d]
      /\ source' = [source EXCEPT ![o] = [s \in Segments |->
                                            IF s \in d.allocated THEN al ELSE Free]]
      /\ Destroyed(o)
      /\ alloc' = [alloc EXCEPT ![o] = al]
      /\ Is("copy", o, from, "ok")

\* batch_deque(batch_deque&&), and with an allocator equal to that of rhs
MoveConstruct(o, from) ==
  /\ o # from
  /\ obj' = [obj EXCEPT ![o] = obj[from], ![from] = Constructed(<< >>)]
  /\ source' = [source EXCEPT ![o] = source[from], ![from] = NoSource]
  /\ Destroyed(o)
  /\ alloc' = [alloc EXCEPT ![o] = alloc[from]]
  /\ Is("move construct", o, from, "ok")

\* batch_deque(batch_deque&&, allocator): rhs gets its map back, and its elements
\* are moved one by one into an empty batch_deque.
MoveConstructUnequal(o, from, al) ==
  /\ o # from /\ al # alloc[from]
  /\ \E d \in Assign(Constructed(<< >>), Contents(obj[from]), FALSE) :
       /\ obj' = [obj EXCEPT ![o] = d, ![from] = MovedFrom(@)]
       /\ source' = [source EXCEPT ![o] = [s \in Segments |->
                                             IF s \in d.allocated THEN al ELSE Free]]
  /\ Destroyed(o)
  /\ alloc' = [alloc EXCEPT ![o] = al]
  /\ Is("move construct", o, from, "ok")

Next ==
  /\ UNCHANGED propagates
  /\ \E o \in Names :
       \/ Edit(o)
       \/ CopyAssignSelf(o)
       \/ \E p \in Names :
            \/ CopyAssign(o, p)
            \/ MoveAssignSwapping(o, p) \/ MoveAssignElements(o, p)
            \/ Swap(o, p)
            \/ MoveConstruct(o, p)
            \/ \E al \in Allocators :
                 CopyConstruct(o, p, al) \/ MoveConstructUnequal(o, p, al)

Spec == Init /\ [][Next]_pairVars

-----------------------------------------------------------------------------
\* After every call both objects satisfy batch_deque::invariants_ok(), own the segments
\* in their maps, and the objects in their segments are their elements.
BothWellFormed ==
  /\ obj \in [Names -> DequeType]
  /\ source \in [Names -> [Segments -> Allocators \cup {Free}]]
  /\ \A o \in Names :
       InvariantsOk(obj[o]) /\ SegmentsOwned(obj[o]) /\ LiveExactly(obj[o])

\* Each segment was obtained from the allocator of the batch_deque that will free it,
\* and was returned to where it came from ("new allocator cannot free existing
\* storage").
RightAllocator ==
  [][/\ \A o \in Names, s \in Segments :
          s \in obj'[o].allocated => source'[o][s] = alloc'[o]
     /\ \A r \in returned' : r[1] = r[2]]_pairVars

\* Copying, moving and swapping do to the contents what the documentation says, and
\* nothing to another batch_deque.  If they throw, a copy assignment has no effect
\* ("Strong exception guarantee if `T` has noexcept copy constructor and either has
\* noexcept copy assignment operator"), unless it is Excepted.  With copy Excepted this
\* is less than the documentation promises: it leaves some contents.
Contract == INSTANCE PairContract WITH
              Element <- Object, seqs <- [o \in Names |-> Contents(obj[o])],
              strong <- ~ShiftMayThrow /\ "copy" \notin Excepted

ImplementsPairContract == Contract!Spec

=============================================================================
