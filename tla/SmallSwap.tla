------------------------------- MODULE SmallSwap -------------------------------
(***************************************************************************)
(* swap of two devectors that both use their small buffer, step by step:   *)
(* swap_small_small, copy_or_move_front, copy_or_move_back and the guards  *)
(* they return.  Elements without a pair in the other buffer are           *)
(* constructed there; their originals, or if something throws their        *)
(* copies, are destroyed by a nand_construction_guard.                     *)
(***************************************************************************)
EXTENDS DevectorOps, Guards

CONSTANT AnyRanges  \* *this may also lie entirely above the other one

VARIABLES
  side,   \* the two devectors: side["this"] and side["b"]
  before, \* the two when swap was called (a history variable)
  pc,
  front,  \* front_guard, of the elements at the start
  back,   \* back_guard, of the elements at the end
  place   \* std::swap_ranges: the place in *this it has come to

swapVars == <<side, before, pc, front, back, place>>

Sides == {"this", "b"}
Other(o) == IF o = "this" THEN "b" ELSE "this"

This == side["this"]
B    == side["b"]

-----------------------------------------------------------------------------
\* The elements without a pair: `has` has more of them, from slot lo up to hi.
HasMoreInFront == IF This.front < B.front THEN "this" ELSE "b"
FrontEnd ==
  LET has == side[HasMoreInFront]  needs == side[Other(HasMoreInFront)]
  IN  IF This.front = B.front THEN has.front ELSE Smaller(has.back, needs.front)

HasMoreAtBack == IF This.back > B.back THEN "this" ELSE "b"
BackStart ==
  LET has == side[HasMoreAtBack]  needs == side[Other(HasMoreAtBack)]
  IN  IF This.back = B.back THEN has.back ELSE Larger(has.front, needs.back)
BackEnd == side[HasMoreAtBack].back

\* Mutant: the exchange starts at the first element of b.
ExchangeInBFromFront == B.front

\* Mutant: the exchange may start behind the last element of *this.
ExchangeStartUncapped == Larger(This.front, B.front)

\* The arguments of std::swap_ranges
ExchangeStart == Smaller(Larger(This.front, B.front), This.back)
ExchangeEnd   == Smaller(This.back, B.back)
ExchangeInB   == Larger(This.front, B.front)

SwapInit ==
  /\ side \in [Sides ->
       {d \in DevectorType : /\ d.cap = SBuf /\ d.buf = "small"
                             /\ InvariantsOk(d) /\ LiveExactly(d)
                             /\ \A a \in Address : d.slots[a] # Unspec}]
  /\ AnyRanges \/ This.front =< B.back
  /\ before = side
  /\ pc = "front"
  /\ front = NewNand(side[HasMoreInFront].front, side[HasMoreInFront].front)
  /\ back = NewNand(BackStart, BackStart)
  /\ place = ExchangeStart

\* Slot a of `has` is moved to the other one; it is copied if moving can throw.
Move(has, a) ==
  side' = [side EXCEPT
            ![Other(has)].slots = Put(@, a, <<side[has].slots[a]>>),
            ![has].slots = IF ShiftMayThrow THEN @ ELSE Put(@, a, <<Unspec>>)]

\* copy_or_move_front, one element
MoveFront ==
  /\ pc = "front"
  /\ front.src.at + front.src.count < FrontEnd
  /\ Move(HasMoreInFront, front.src.at + front.src.count)
  /\ front' = ExtendNand(front)
  /\ UNCHANGED <<before, pc, back, place>>

FrontMoved ==
  /\ pc = "front"
  /\ front.src.at + front.src.count >= FrontEnd
  /\ pc' = "back"
  /\ UNCHANGED <<side, before, front, back, place>>

\* copy_or_move_back, one element
MoveBack ==
  /\ pc = "back"
  /\ back.src.at + back.src.count < BackEnd
  /\ Move(HasMoreAtBack, back.src.at + back.src.count)
  /\ back' = ExtendNand(back)
  /\ UNCHANGED <<before, pc, front, place>>

BackMoved ==
  /\ pc = "back"
  /\ back.src.at + back.src.count >= BackEnd
  /\ pc' = "exchange"
  /\ UNCHANGED <<side, before, front, back, place>>

\* std::swap_ranges, one pair; it ends where it reaches ExchangeEnd.  To exchange what
\* is not there, behind the buffers or where a slot is raw, is undefined.
Exchange ==
  /\ pc = "exchange" /\ place # ExchangeEnd
  /\ LET q == ExchangeInB + (place - ExchangeStart)
     IN  IF \/ place >= SBuf \/ q >= SBuf
            \/ This.slots[place] = Raw \/ B.slots[q] = Raw
         THEN pc' = "undefined" /\ UNCHANGED <<side, place>>
         ELSE /\ side' = [side EXCEPT !["this"].slots = Put(@, place, <<B.slots[q]>>),
                                    !["b"].slots = Put(@, q, <<This.slots[place]>>)]
              /\ place' = place + 1
              /\ pc' = pc
  /\ UNCHANGED <<before, front, back>>

\* front_guard.release() and back_guard.release()
Exchanged ==
  /\ pc = "exchange" /\ place = ExchangeEnd
  /\ front' = DestructNand(ReleaseNand(front))
  /\ back' = DestructNand(ReleaseNand(back))
  /\ pc' = "success"
  /\ UNCHANGED <<side, before, place>>

\* A copy throws, or an exchange.
Throw ==
  /\ ShiftMayThrow
  /\ \/ pc = "front" /\ front.src.at + front.src.count < FrontEnd
     \/ pc = "back" /\ back.src.at + back.src.count < BackEnd
     \/ pc = "exchange" /\ place # ExchangeEnd
  /\ front' = DestructNand(front)
  /\ back' = DestructNand(back)
  /\ pc' = "failure"
  /\ UNCHANGED <<side, before, place>>

\* The destructors of the members of one guard, one object: first those of the copies.
DestroyOne(g, has) ==
  IF ~Spent(g.dst)
  THEN /\ side' = [side EXCEPT
                    ![Other(has)].slots = Destroy(@, g.dst.at, g.dst.at + 1)]
  ELSE /\ side' = [side EXCEPT ![has].slots = Destroy(@, g.src.at, g.src.at + 1)]

LessOne(g) ==
  IF ~Spent(g.dst) THEN [g EXCEPT !.dst = AfterOne(@)]
  ELSE [g EXCEPT !.src = AfterOne(@)]

Done(g) == Spent(g.dst) /\ Spent(g.src)

\* ~back_guard, then ~front_guard
DestructBack ==
  /\ pc \in {"success", "failure"} /\ ~Done(back)
  /\ DestroyOne(back, HasMoreAtBack)
  /\ back' = LessOne(back)
  /\ UNCHANGED <<before, pc, front, place>>

DestructFront ==
  /\ pc \in {"success", "failure"} /\ Done(back) /\ ~Done(front)
  /\ DestroyOne(front, HasMoreInFront)
  /\ front' = LessOne(front)
  /\ UNCHANGED <<before, pc, back, place>>

\* swap: the indices change hands, unless something was thrown.
Finish ==
  /\ pc \in {"success", "failure"} /\ Done(back) /\ Done(front)
  /\ IF pc = "failure" THEN pc' = "threw" /\ side' = side
     ELSE /\ pc' = "done"
          /\ side' = [o \in Sides |-> [side[o] EXCEPT !.front = side[Other(o)].front,
                                                    !.back = side[Other(o)].back]]
  /\ UNCHANGED <<before, front, back, place>>

Step ==
  \/ MoveFront \/ FrontMoved \/ MoveBack \/ BackMoved
  \/ Exchange \/ Exchanged \/ Throw
  \/ DestructBack \/ DestructFront \/ Finish

SwapSpec == SwapInit /\ [][Step]_swapVars

-----------------------------------------------------------------------------
\* At the end, also when a copy or an exchange threw, the objects in each buffer are
\* the elements: of each pair of original and copy exactly one was destroyed.
OnePerPair == pc \in {"done", "threw"} => \A o \in Sides : LiveExactly(side[o])

\* swap exchanges the contents.  If it throws, elements in the same place may be
\* exchanged and all others are as they were.
Effect ==
  /\ pc = "done" => \A o \in Sides : Contents(side[o]) = Contents(before[Other(o)])
  /\ pc = "threw" => \A o \in Sides, a \in Address :
       side[o].slots[a] \in {before[o].slots[a], before[Other(o)].slots[a]}

=============================================================================
