----------------------------- MODULE DevectorPairs -----------------------------
(***************************************************************************)
(* Two devectors of either kind: both have a small buffer, of SBuf         *)
(* elements, or both have none, as their template argument says.           *)
(***************************************************************************)
EXTENDS DevectorPair

ASSUME PairsAssumption == SBuf > 0 /\ MaxLen \in Size

VARIABLE small  \* whether they have a small buffer

Heap == INSTANCE DevectorPair WITH SBuf <- 0

pairsVars == <<small, propagates, obj, at, alloc, heap, returned, call>>

PairsInit ==
  \/ small = TRUE /\ Init
  \/ small = FALSE /\ Heap!Init

NextSmall == small /\ Next /\ UNCHANGED small
NextHeap  == ~small /\ Heap!Next /\ UNCHANGED small

PairsNext == NextSmall \/ NextHeap

PairsSpec == PairsInit /\ [][PairsNext]_pairsVars

\* After every call both objects satisfy devector::invariants_ok() and the objects in
\* their buffers are their elements.
PairsWellFormed == IF small THEN BothWellFormed ELSE Heap!BothWellFormed

\* A devector with a small buffer and none in the heap uses the small buffer within
\* itself, which lives as long as it does, and not that of another one.
PairsUseOwnBuffers == small => OwnSmallBuffer

=============================================================================
