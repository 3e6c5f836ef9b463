---------------------------- MODULE DevectorReserve ----------------------------
(***************************************************************************)
(* A devector and what its caller is owed.  Two history variables count    *)
(* the elements that can still be pushed to each end, by the reserve       *)
(* promise of the source, without a reallocation.  They never influence    *)
(* the devector.  The caller also inserts copies of an element of the      *)
(* devector itself: insert(pos, n, x) with x a reference into *this.       *)
(***************************************************************************)
EXTENDS Devector

VARIABLES owedFront, owedBack

reserveVars == <<dv, call, owedFront, owedBack>>

\* What `owed` becomes at one end.  Each argument but the first is whether the
\* latest call was of a kind: at this end by n elements more (or fewer), a reserve
\* of this end up to n elements, or one that must not touch what is owed here.
\* Anything else (insert, erase, assign, clear, shrink_to_fit) ends the promise.
Owed(owed, pushes, reserves, elsewhere) ==
  IF elsewhere \/ (call'.out = "threw" /\ (pushes \/ reserves)) THEN owed
  ELSE IF pushes THEN Larger(0, owed - (SizeOf(dv') - SizeOf(dv)))
  ELSE IF reserves THEN Larger(owed, call'.n - SizeOf(dv))
  ELSE 0

\* A resize_front that reallocates asks for a buffer with room for back_free_capacity()
\* and does not leave it at the back.  Excepted, it ends the promise made there.
KeepsBack ==
  \/ call'.op \in {"emplace_front", "pop_front", "reserve_front"}
  \/ /\ call'.op = "resize_front"
     /\ "resize_front" \in Excepted => dv'.cap = dv.cap

Account ==
  /\ owedFront' = Owed(owedFront,
                       call'.op \in {"emplace_front", "pop_front", "resize_front"},
                       call'.op = "reserve_front",
                       call'.op \in {"emplace_back", "pop_back", "resize_back",
                                     "reserve_back"})
  /\ owedBack'  = Owed(owedBack,
                       call'.op \in {"emplace_back", "pop_back", "resize_back"},
                       call'.op = "reserve_back",
                       KeepsBack)

\* insert(pos, n, x) with x the element in slot dv.front + i
InsertAliasedCall(index, n, i) ==
  LET at == dv.front + i
      xs == Copies(n, dv.slots[at])
  IN  /\ SizeOf(dv) + n =< MaxLen
      /\ FreeSlots(dv) >= n \/ dv.cap + n =< SizeMax
      /\ InsertRangeOk(dv, n)
      /\ Returns("insert", index, n, xs, InsertAliased(dv, index, n, at),
                 InsertReturns(dv, index, xs))

AnyCall ==
  \/ Next
  \/ \E index \in 0 .. SizeOf(dv), n \in 0 .. MaxRange, i \in 0 .. SizeOf(dv) - 1 :
       InsertAliasedCall(index, n, i)

ReserveInit == Init /\ owedFront = 0 /\ owedBack = 0
ReserveNext == AnyCall /\ Account
ReserveSpec == ReserveInit /\ [][ReserveNext]_reserveVars

\* "after reserve_[front,back](n), n - size() push_[front,back] will not allocate":
\* also after pushes, pops, resizes and reallocations at either end, and after calls that
\* threw, there are the free slots that were promised.  With resize_front Excepted, this
\* is said of the back only until a resize_front reallocates.
PromiseKept == owedFront =< FrontFree(dv) /\ owedBack =< BackFree(dv)

=============================================================================
