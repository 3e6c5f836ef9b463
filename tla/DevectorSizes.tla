----------------------------- MODULE DevectorSizes -----------------------------
(***************************************************************************)
(* The arithmetic of sizes in devector: what each operation that makes     *)
(* room allocates, and where it then puts the elements.  There are no      *)
(* elements here, so that size_type can be as wide as one likes, and the   *)
(* arguments can be any of its values.                                     *)
(*                                                                         *)
(* A sum or difference of sizes is taken modulo Word, the number of values *)
(* of size_type.                                                           *)
(***************************************************************************)
EXTENDS Integers

CONSTANTS
  Word,      \* the number of values of size_type
  MaxSize,   \* max_size()
  MaxPushed, \* bound: the largest size() brought about by pushing
  Wrapping   \* the operations called with sizes whose sums wrap around

Size     == 0 .. Word - 1
Requests == {"reserve", "resize", "insert", "uninitialized resize"}

\* No size_type is narrower than eight bits; with fewer than two, 4 times the largest
\* value would not wrap around to a smaller one.
ASSUME SizesAssumption ==
  /\ Word \in Nat /\ Word > 3 /\ MaxSize \in Size /\ MaxPushed \in Size
  /\ Wrapping \subseteq Requests

VARIABLES
  cap, front, back,  \* _storage._capacity, _front_index, _back_index
  touched            \* the slots constructed by the latest call: <<from, to>>

sizeVars == <<cap, front, back, touched>>

Plus(m, n)  == (m + n) % Word
Minus(m, n) == (m - n) % Word

Larger(m, n) == IF m > n THEN m ELSE n

size      == Minus(back, front)
FrontFree == front
BackFree  == Minus(cap, back)

\* devector_growth_policy::new_capacity
PolicyCapacity == IF cap = 0 THEN 16 % Word ELSE (4 * cap) % Word

\* Mutant: the policy decides alone.
CalculateNewCapacityOfPolicy(requested) == PolicyCapacity

CalculateNewCapacity(requested) == Larger(requested, PolicyCapacity)

\* Mutant: the overflow check is missing.
CapacityOkUnchecked(requested) == CalculateNewCapacity(requested) =< MaxSize

\* calculate_new_capacity does not throw.
CapacityOk(requested) ==
  LET new == CalculateNewCapacity(requested) IN new =< MaxSize /\ new >= cap

Init ==
  /\ \E m, n \in Size : /\ m + n =< MaxSize
                        /\ cap = m + n /\ front = m /\ back = m
  /\ touched = <<0, 0>>

\* From now on the elements are in a buffer of `capacity` from `first` to `last`; those
\* from lo to hi were constructed in it.
InBuffer(capacity, first, last, lo, hi) ==
  cap' = capacity /\ front' = first /\ back' = last /\ touched' = <<lo, hi>>

\* The sum that op computes is one of sizes that exist together, unless op is Wrapping.
Sums(op, m, n) == op \in Wrapping \/ m + n < Word

-----------------------------------------------------------------------------
\* reallocate_at(capacity, offset); the allocator refuses more than max_size().
ReallocateAt(capacity, offset, lo, hi) ==
  /\ capacity =< MaxSize
  /\ InBuffer(capacity, offset, Plus(size, offset), lo, hi)

ReserveFront(n) ==
  /\ back < n
  /\ Sums("reserve", n, BackFree)
  /\ LET offset == Minus(n, size)
     IN  ReallocateAt(Plus(n, BackFree), offset, offset, Plus(size, offset))

ReserveBack(n) ==
  /\ Minus(cap, front) < n
  /\ Sums("reserve", n, FrontFree)
  /\ ReallocateAt(Plus(n, FrontFree), front, front, back)

\* unsafe_uninitialized_grow_front and _back
GrowFront(n) ==
  LET need == Minus(n, size)
      newCap == Plus(n, BackFree)
  IN  /\ n > size /\ need > FrontFree
      /\ Sums("uninitialized resize", n, BackFree)
      /\ newCap =< MaxSize
      /\ InBuffer(newCap, 0, Plus(size, need), need, Plus(size, need))

GrowBack(n) ==
  LET need == Minus(n, size)
      newCap == Plus(n, FrontFree)
  IN  /\ n > size /\ need > BackFree
      /\ Sums("uninitialized resize", n, FrontFree)
      /\ newCap =< MaxSize
      /\ InBuffer(newCap, front, Plus(back, need), front, back)

\* resize_front_slow_path(n), resize_back_slow_path(n)
ResizeFront(n) ==
  LET newCap == CalculateNewCapacity(Plus(n, BackFree))
      oldAt  == Minus(newCap, size)
      newAt  == Minus(oldAt, Minus(n, size))
  IN  /\ n > size /\ n > back
      /\ Sums("resize", n, BackFree)
      /\ CapacityOk(Plus(n, BackFree))
      /\ InBuffer(newCap, newAt, newCap, newAt, newCap)

ResizeBack(n) ==
  LET newCap == CalculateNewCapacity(Plus(n, FrontFree))
      newEnd == Plus(back, Minus(n, size))
  IN  /\ n > size /\ n > Minus(cap, front)
      /\ Sums("resize", n, FrontFree)
      /\ CapacityOk(Plus(n, FrontFree))
      /\ InBuffer(newCap, front, newEnd, front, newEnd)

\* emplace_reallocating_slow_path (n = 1) and insert_range_reallocating_slow_path
Reallocating(makeFrontFree, n) ==
  LET newCap   == CalculateNewCapacity(Plus(cap, n))
      newFront == IF makeFrontFree
                  THEN Minus(Minus(Minus(newCap, BackFree), size), n) ELSE front
      newEnd   == Plus(Plus(newFront, size), n)
  IN  /\ CapacityOk(Plus(cap, n))
      /\ InBuffer(newCap, newFront, newEnd, newFront, newEnd)

InsertRange(n) ==
  /\ n > FrontFree + BackFree
  /\ Sums("insert", cap, n)
  /\ \E makeFrontFree \in BOOLEAN :
       (size > 0 \/ makeFrontFree) /\ Reallocating(makeFrontFree, n)

\* emplace_front and emplace_back: no argument, so cap + 1 is computed for any cap.
EmplaceFront ==
  /\ size < MaxPushed
  /\ IF front > 0 THEN InBuffer(cap, front - 1, back, front - 1, front)
     ELSE Reallocating(TRUE, 1)

EmplaceBack ==
  /\ size < MaxPushed
  /\ IF back < cap THEN InBuffer(cap, front, back + 1, back, back + 1)
     ELSE Reallocating(FALSE, 1)

PopFront == size > 0 /\ InBuffer(cap, front + 1, back, 0, 0)
PopBack  == size > 0 /\ InBuffer(cap, front, back - 1, 0, 0)

Next ==
  \/ \E n \in Size :
       \/ ReserveFront(n) \/ ReserveBack(n)
       \/ GrowFront(n) \/ GrowBack(n)
       \/ ResizeFront(n) \/ ResizeBack(n)
       \/ InsertRange(n)
  \/ EmplaceFront \/ EmplaceBack \/ PopFront \/ PopBack

Spec == Init /\ [][Next]_sizeVars

-----------------------------------------------------------------------------
\* What a call constructed lies in the buffer it allocated, between the indices, and no
\* buffer is larger than max_size(): a request is granted or refused, never cut down
\* ("also throw std::length_error if the capacity exceeds max_size()").
NothingOutside ==
  /\ cap =< MaxSize
  /\ front =< back /\ back =< cap
  /\ touched[1] =< touched[2] /\ touched[2] =< cap

=============================================================================
