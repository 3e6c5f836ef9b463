--------------------------- MODULE BatchDequeReserve ---------------------------
(***************************************************************************)
(* A batch_deque and what its caller is owed.  Two history variables count *)
(* the elements that, by the documentation of reserve_front and            *)
(* reserve_back, can still be pushed to each end without a segment being   *)
(* allocated: these are the calls of unsafe_push_front and                 *)
(* unsafe_push_back whose precondition was established.                    *)
(***************************************************************************)
EXTENDS BatchDeque

VARIABLES owedFront, owedBack

reserveVars == <<dq, call, owedFront, owedBack>>

Larger(m, n) == IF m > n THEN m ELSE n

\* What `owed` becomes at one end.  Each argument but the first is whether the latest
\* call was of a kind: at this end by n elements more (or fewer), a reserve of this
\* end up to n elements, or one that must not touch what is owed here.  Anything
\* else ends the promise.
Owed(owed, pushes, reserves, elsewhere) ==
  IF elsewhere \/ (call'.out = "threw" /\ (pushes \/ reserves)) THEN owed
  ELSE IF pushes THEN Larger(0, owed - (SizeOf(dq') - SizeOf(dq)))
  ELSE IF reserves THEN Larger(owed, call'.n - SizeOf(dq))
  ELSE 0

AtFront == {"emplace_front", "pop_front", "resize_front"}
AtBack  == {"emplace_back", "pop_back", "resize_back"}

Account ==
  /\ owedFront' = Owed(owedFront, call'.op \in AtFront, call'.op = "reserve_front",
                       call'.op \in AtBack \cup {"reserve_back"})
  /\ owedBack'  = Owed(owedBack, call'.op \in AtBack, call'.op = "reserve_back",
                       call'.op \in AtFront \cup {"reserve_front"})

ReserveInit == Init /\ owedFront = 0 /\ owedBack = 0
ReserveNext == Next /\ Account
ReserveSpec == ReserveInit /\ [][ReserveNext]_reserveVars

\* reserve_front "ensures that `n` elements can be pushed to the front without
\* requiring a segment to be allocated": so many cells are free in front of the first
\* element, also after pushes and pops, reallocations of the map for the other end and
\* calls that threw.
FrontPromiseKept == owedFront =< First(dq) - dq.map.front * SegmentSize

\* The same at the back: so many cells are free behind the last element.
BackPromiseKept == owedBack =< CellsBehind(dq)

=============================================================================
