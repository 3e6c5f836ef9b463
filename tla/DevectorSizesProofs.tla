-------------------------- MODULE DevectorSizesProofs --------------------------
(***************************************************************************)
(* For a size_type of any width, any max_size() and any sequence of calls: *)
(* as long as no sum of a request and a size that exist together wraps     *)
(* around, every path that makes room allocates a buffer large enough for  *)
(* what it then puts there.                                                *)
(***************************************************************************)
EXTENDS DevectorSizes, TLAPS

\* The inductive invariant.  What an operation allocates follows from the indices and
\* the capacity, in which no difference wraps around because they are in order.
Ordered(c, f, b) ==
  /\ c \in Nat /\ f \in Nat /\ b \in Nat
  /\ f =< b /\ b =< c /\ c =< MaxSize

Inv ==
  /\ Ordered(cap, front, back)
  /\ touched \in Nat \X Nat
  /\ touched[1] =< touched[2] /\ touched[2] =< cap

\* What the assumption says of numbers.
LEMMA Numbers ==
  Word \in Nat /\ Word > 3 /\ MaxSize \in Nat /\ MaxSize < Word
  BY SizesAssumption DEF Size

-----------------------------------------------------------------------------
\* Arithmetic modulo Word

\* A sum that fits is the sum.
LEMMA PlusFits ==
  ASSUME NEW m \in Nat, NEW n \in Nat, m + n < Word
  PROVE  Plus(m, n) = m + n
  BY Numbers DEF Plus

\* A difference of a larger and a smaller number is the difference.
LEMMA MinusFits ==
  ASSUME NEW m \in Nat, NEW n \in Nat, n =< m, m < Word
  PROVE  Minus(m, n) = m - n /\ m - n \in Nat
  BY Numbers DEF Minus

\* Whatever is computed is a size_type.
LEMMA InSize ==
  ASSUME NEW n \in Int
  PROVE  n % Word \in Nat /\ n % Word < Word
  BY Numbers

\* The policy returns a size_type, and not the largest one for the largest one.
LEMMA PolicyWraps ==
  ASSUME cap \in Nat
  PROVE  /\ PolicyCapacity \in Nat
         /\ cap = Word - 1 => PolicyCapacity < cap
<1>1. PolicyCapacity \in Nat
  BY InSize DEF PolicyCapacity
<1>2. ASSUME cap = Word - 1 PROVE PolicyCapacity < cap
  <2>1. 4 * cap = 3 * Word + (Word - 4) /\ cap # 0
    BY <1>2, Numbers
  <2>2. (4 * cap) % Word = Word - 4
    BY <2>1, Numbers
  <2> QED
    BY <1>2, <2>1, <2>2, Numbers DEF PolicyCapacity
<1> QED
  BY <1>1, <1>2

\* The capacity granted is at least what was asked for, also for the one request
\* that is computed without regard to wrapping.
LEMMA CapacityGranted ==
  ASSUME cap \in Nat, cap < Word, NEW n \in Nat,
         n < Word \/ n = cap + 1, CapacityOk(n % Word)
  PROVE  LET c == CalculateNewCapacity(n % Word)
         IN  c \in Nat /\ n =< c /\ c =< MaxSize
<1>1. PolicyCapacity \in Nat /\ n % Word \in Nat
  BY PolicyWraps, InSize
<1>2. CASE n < Word
  <2>1. n % Word = n
    BY <1>2, Numbers
  <2> QED
    BY <1>1, <2>1 DEF CapacityOk, CalculateNewCapacity, Larger
<1>3. CASE n = cap + 1 /\ cap = Word - 1
  <2>1. n % Word = 0
    BY <1>3, Numbers
  <2>2. CalculateNewCapacity(n % Word) < cap
    BY <1>1, <1>3, <2>1, Numbers, PolicyWraps DEF CalculateNewCapacity, Larger
  <2> QED
    BY <1>1, <2>2, <2>1, PolicyWraps DEF CapacityOk, CalculateNewCapacity, Larger
<1> QED
  BY <1>2, <1>3, Numbers

\* size() and the free capacities are differences.
LEMMA SizesFacts ==
  ASSUME Ordered(cap, front, back)
  PROVE  /\ size = back - front /\ size \in Nat
         /\ BackFree = cap - back /\ BackFree \in Nat
         /\ Minus(cap, front) = cap - front
         /\ FrontFree = front
  BY Numbers, MinusFits DEF Ordered, size, BackFree, FrontFree

\* How many elements a request asks for beyond those there are.
LEMMA MoreThanSize ==
  ASSUME Ordered(cap, front, back), NEW n \in Nat, size =< n, n < Word
  PROVE  Minus(n, size) = n - (back - front) /\ Plus(size, Minus(n, size)) = n
<1>1. size \in Nat /\ size = back - front /\ back - front \in Int
  BY SizesFacts DEF Ordered
<1>2. Minus(n, size) = n - size /\ n - size \in Nat
  BY <1>1, MinusFits
<1>3. size + (n - size) = n
  BY <1>1
<1>4. Plus(size, n - size) = size + (n - size)
  BY <1>1, <1>2, <1>3, PlusFits
<1> QED
  BY <1>1, <1>2, <1>3, <1>4

-----------------------------------------------------------------------------
\* Operations

\* A buffer with the elements and what was constructed inside of it
LEMMA InBufferInv ==
  ASSUME NEW c, NEW f, NEW b, NEW lo \in Nat, NEW hi \in Nat,
         Ordered(c, f, b), lo =< hi, hi =< c, InBuffer(c, f, b, lo, hi)
  PROVE  Inv'
  BY DEF InBuffer, Inv, Ordered

\* reallocate_at, for an offset that leaves room
LEMMA ReallocateAtInv ==
  ASSUME Inv, NEW c \in Nat, NEW f \in Nat, NEW lo \in Nat, NEW hi \in Nat,
         f + size =< c, lo =< hi, hi =< c, ReallocateAt(c, f, lo, hi)
  PROVE  Inv'
<1>1. size \in Nat
  BY SizesFacts DEF Inv
<1>2. c =< MaxSize /\ InBuffer(c, f, Plus(size, f), lo, hi)
  BY DEF ReallocateAt
<1>3. Plus(size, f) = size + f
  BY <1>1, <1>2, Numbers, PlusFits
<1>4. Ordered(c, f, size + f)
  BY <1>1, <1>2 DEF Ordered
<1> QED
  BY <1>2, <1>3, <1>4, InBufferInv

\* reserve_front
LEMMA ReserveFrontInv ==
  ASSUME Inv, Wrapping = {}, NEW n \in Nat, ReserveFront(n)
  PROVE  Inv'
<1>1. /\ back \in Nat /\ front \in Nat /\ cap \in Nat /\ front =< back /\ back =< cap
      /\ size = back - front /\ BackFree = cap - back /\ cap < Word
  BY SizesFacts, Numbers DEF Inv, Ordered
<1>2. /\ back < n /\ n + BackFree < Word
      /\ ReallocateAt(Plus(n, BackFree), Minus(n, size), Minus(n, size),
                      Plus(size, Minus(n, size)))
  BY DEF ReserveFront, Sums
<1>3. Plus(n, BackFree) = n + (cap - back)
  BY <1>1, <1>2, PlusFits
<1>4. size =< n /\ n < Word
  BY <1>1, <1>2, Numbers
<1>5. Minus(n, size) = n - (back - front) /\ Plus(size, Minus(n, size)) = n
  BY <1>4, MoreThanSize DEF Inv
<1> QED
  BY <1>1, <1>2, <1>3, <1>4, <1>5, ReallocateAtInv

\* reserve_back
LEMMA ReserveBackInv ==
  ASSUME Inv, Wrapping = {}, NEW n \in Nat, ReserveBack(n)
  PROVE  Inv'
<1>1. /\ back \in Nat /\ front \in Nat /\ cap \in Nat /\ front =< back /\ back =< cap
      /\ size = back - front /\ FrontFree = front /\ Minus(cap, front) = cap - front
  BY SizesFacts DEF Inv, Ordered
<1>2. cap - front < n /\ n + front < Word /\ ReallocateAt(Plus(n, front), front, front, back)
  BY <1>1 DEF ReserveBack, Sums
<1>3. Plus(n, front) = n + front
  BY <1>1, <1>2, PlusFits
<1> QED
  BY <1>1, <1>2, <1>3, ReallocateAtInv

\* unsafe_uninitialized_grow_front
LEMMA GrowFrontInv ==
  ASSUME Inv, Wrapping = {}, NEW n \in Nat, GrowFront(n)
  PROVE  Inv'
<1>1. /\ back \in Nat /\ front \in Nat /\ cap \in Nat /\ front =< back /\ back =< cap
      /\ size = back - front /\ BackFree = cap - back
  BY SizesFacts DEF Inv, Ordered
<1>2. /\ n > size /\ n + BackFree < Word /\ Plus(n, BackFree) =< MaxSize
      /\ InBuffer(Plus(n, BackFree), 0, Plus(size, Minus(n, size)),
                  Minus(n, size), Plus(size, Minus(n, size)))
  BY DEF GrowFront, Sums
<1>3. Plus(n, BackFree) = n + (cap - back)
  BY <1>1, <1>2, PlusFits
<1>4. size =< n /\ n < Word
  BY <1>1, <1>2, Numbers
<1>5. Minus(n, size) = n - (back - front) /\ Plus(size, Minus(n, size)) = n
  BY <1>4, MoreThanSize DEF Inv
<1>6. Ordered(n + (cap - back), 0, n)
  BY <1>1, <1>2, <1>3 DEF Ordered
<1> QED
  BY <1>1, <1>2, <1>3, <1>4, <1>5, <1>6, InBufferInv

\* unsafe_uninitialized_grow_back
LEMMA GrowBackInv ==
  ASSUME Inv, Wrapping = {}, NEW n \in Nat, GrowBack(n)
  PROVE  Inv'
<1>1. /\ back \in Nat /\ front \in Nat /\ cap \in Nat /\ front =< back /\ back =< cap
      /\ size = back - front /\ FrontFree = front
  BY SizesFacts DEF Inv, Ordered
<1>2. /\ n > size /\ n + front < Word /\ Plus(n, front) =< MaxSize
      /\ InBuffer(Plus(n, front), front, Plus(back, Minus(n, size)), front, back)
  BY <1>1 DEF GrowBack, Sums
<1>3. Plus(n, front) = n + front
  BY <1>1, <1>2, PlusFits
<1>4. Minus(n, size) = n - (back - front)
  <2>1. size =< n /\ n < Word
    BY <1>1, <1>2, Numbers
  <2> QED
    BY <2>1, MoreThanSize DEF Inv
<1>5. Plus(back, Minus(n, size)) = n + front
  BY <1>1, <1>2, <1>4, PlusFits
<1>6. Ordered(n + front, front, n + front)
  BY <1>1, <1>2, <1>3 DEF Ordered
<1> QED
  BY <1>1, <1>2, <1>3, <1>5, <1>6, InBufferInv

\* resize_front_slow_path
LEMMA ResizeFrontInv ==
  ASSUME Inv, Wrapping = {}, NEW n \in Nat, ResizeFront(n)
  PROVE  Inv'
<1> DEFINE c     == CalculateNewCapacity(Plus(n, BackFree))
           oldAt == Minus(c, size)
           newAt == Minus(oldAt, Minus(n, size))
<1>1. /\ back \in Nat /\ front \in Nat /\ cap \in Nat /\ front =< back /\ back =< cap
      /\ size = back - front /\ BackFree = cap - back /\ cap < Word
  BY SizesFacts, Numbers DEF Inv, Ordered
<1>2. /\ n > size /\ n + BackFree < Word /\ CapacityOk(Plus(n, BackFree))
      /\ InBuffer(c, newAt, c, newAt, c)
  BY DEF ResizeFront, Sums
<1>3. c \in Nat /\ n + (cap - back) =< c /\ c =< MaxSize /\ c < Word
  <2>1. n + BackFree \in Nat /\ Plus(n, BackFree) = (n + BackFree) % Word
    BY <1>1 DEF Plus
  <2>2. c \in Nat /\ n + BackFree =< c /\ c =< MaxSize
    BY <1>1, <1>2, <2>1, CapacityGranted
  <2> QED
    BY <1>1, <2>2, Numbers
<1> HIDE DEF c
<1>4. oldAt = c - (back - front) /\ Minus(n, size) = n - (back - front)
  <2>1. size \in Nat /\ size =< n /\ size =< c /\ n < Word
    BY <1>1, <1>2, <1>3, Numbers
  <2>2. oldAt = c - size
    BY <1>3, <2>1, MinusFits
  <2> QED
    BY <1>1, <2>1, <2>2, MoreThanSize DEF Inv
<1>5. newAt = c - n /\ newAt \in Nat /\ newAt =< c
  <2> DEFINE x == c - (back - front)
             y == n - (back - front)
  <2>1. x \in Nat /\ y \in Nat /\ y =< x /\ x < Word /\ x - y = c - n
    BY <1>1, <1>2, <1>3, Numbers
  <2>2. Minus(x, y) = x - y
    <3> HIDE DEF x, y
    <3> QED
      BY <2>1, MinusFits
  <2>3. newAt = c - n
    BY <1>4, <2>1, <2>2
  <2> QED
    BY <1>1, <1>2, <1>3, <2>3
<1> HIDE DEF newAt, oldAt
<1>6. Ordered(c, newAt, c)
  BY <1>3, <1>5 DEF Ordered
<1> QED
  BY <1>2, <1>3, <1>5, <1>6, InBufferInv

\* resize_back_slow_path
LEMMA ResizeBackInv ==
  ASSUME Inv, Wrapping = {}, NEW n \in Nat, ResizeBack(n)
  PROVE  Inv'
<1> DEFINE c      == CalculateNewCapacity(Plus(n, front))
           newEnd == Plus(back, Minus(n, size))
<1>1. /\ back \in Nat /\ front \in Nat /\ cap \in Nat /\ front =< back /\ back =< cap
      /\ size = back - front /\ FrontFree = front /\ cap < Word
  BY SizesFacts, Numbers DEF Inv, Ordered
<1>2. /\ n > size /\ n + front < Word /\ CapacityOk(Plus(n, front))
      /\ InBuffer(c, front, newEnd, front, newEnd)
  BY <1>1 DEF ResizeBack, Sums
<1>3. c \in Nat /\ n + front =< c /\ c =< MaxSize
  <2>1. n + front \in Nat /\ Plus(n, front) = (n + front) % Word
    BY <1>1 DEF Plus
  <2> QED
    BY <1>1, <1>2, <2>1, CapacityGranted
<1> HIDE DEF c
<1>4. Minus(n, size) = n - (back - front)
  <2>1. size =< n /\ n < Word
    BY <1>1, <1>2, Numbers
  <2> QED
    BY <2>1, MoreThanSize DEF Inv
<1>5. newEnd = n + front
  BY <1>1, <1>2, <1>4, PlusFits
<1>6. Ordered(c, front, newEnd)
  BY <1>1, <1>2, <1>3, <1>5 DEF Ordered
<1> QED
  BY <1>1, <1>2, <1>3, <1>5, <1>6, InBufferInv

\* The slow paths of emplace and of the insertion of a range: n more elements, n being
\* 1 if their sum with the capacity may wrap around.
LEMMA ReallocatingInv ==
  ASSUME Inv, NEW makeFrontFree \in BOOLEAN, NEW n \in Nat,
         cap + n < Word \/ n = 1, Reallocating(makeFrontFree, n)
  PROVE  Inv'
<1> DEFINE c == CalculateNewCapacity(Plus(cap, n))
           f == IF makeFrontFree
                THEN Minus(Minus(Minus(c, BackFree), size), n) ELSE front
           b == Plus(Plus(f, size), n)
<1>1. /\ back \in Nat /\ front \in Nat /\ cap \in Nat /\ front =< back /\ back =< cap
      /\ size = back - front /\ BackFree = cap - back /\ cap < Word
  BY SizesFacts, Numbers DEF Inv, Ordered
<1>2. CapacityOk(Plus(cap, n)) /\ InBuffer(c, f, b, f, b)
  BY DEF Reallocating
<1>3. c \in Nat /\ cap + n =< c /\ c =< MaxSize /\ c < Word
  <2>1. cap + n \in Nat /\ Plus(cap, n) = (cap + n) % Word
    BY <1>1 DEF Plus
  <2>2. cap + n < Word \/ cap + n = cap + 1
    OBVIOUS
  <2>3. PICK k \in Nat : k = cap + n
    BY <2>1
  <2>4. (k < Word \/ k = cap + 1) /\ CapacityOk(k % Word)
    BY <1>2, <2>1, <2>2, <2>3
  <2>5. LET g == CalculateNewCapacity(k % Word) IN g \in Nat /\ k =< g /\ g =< MaxSize
    BY <1>1, <2>4, CapacityGranted
  <2>6. c = CalculateNewCapacity(k % Word)
    BY <2>1, <2>3
  <2> HIDE DEF c
  <2>7. c \in Nat /\ k =< c /\ c =< MaxSize
    BY <2>5, <2>6
  <2> QED
    BY <2>3, <2>7, Numbers
<1> HIDE DEF c
<1>4. f \in Nat /\ f + (back - front) + n =< c
  <2>1. CASE makeFrontFree
    <3> DEFINE c1 == c - (cap - back)
               c2 == c1 - (back - front)
    <3>1. c1 \in Nat /\ c1 < Word
      BY <1>1, <1>3, Numbers
    <3>2. c2 = c - cap + front /\ c2 \in Nat /\ c2 < Word /\ n =< c2
      BY <1>1, <1>3, Numbers
    <3>3. Minus(c, BackFree) = c1
      BY <1>1, <1>3, MinusFits
    <3> HIDE DEF c1
    <3>4. Minus(c1, size) = c2
      BY <1>1, <1>3, <3>1, MinusFits DEF c1
    <3> HIDE DEF c2
    <3>5. Minus(c2, n) = c2 - n
      BY <3>2, MinusFits
    <3>6. f = c2 - n
      BY <2>1, <3>3, <3>4, <3>5
    <3> HIDE DEF f
    <3> QED
      BY <1>1, <1>3, <3>2, <3>6
  <2>2. CASE ~makeFrontFree
    BY <1>1, <1>3, <2>2
  <2> QED
    BY <2>1, <2>2
<1> HIDE DEF f
<1>5. Plus(f, size) = f + (back - front)
  <2>1. size \in Nat /\ f + size < Word
    BY <1>1, <1>3, <1>4, Numbers
  <2> QED
    BY <1>1, <1>4, <2>1, PlusFits
<1>6. b = f + (back - front) + n
  <2>1. Plus(f, size) \in Nat /\ Plus(f, size) + n < Word
    BY <1>1, <1>3, <1>4, <1>5, Numbers
  <2> QED
    BY <1>5, <2>1, PlusFits
<1>7. Ordered(c, f, b)
  BY <1>1, <1>3, <1>4, <1>6 DEF Ordered
<1> HIDE DEF b
<1> QED
  BY <1>2, <1>7, InBufferInv DEF Ordered

-----------------------------------------------------------------------------
\* A constructor leaves no elements, and no free slots beyond max_size().
LEMMA InitInv == Init => Inv
<1> SUFFICES ASSUME Init PROVE Inv
  OBVIOUS
<1>1. PICK m \in Size, n \in Size :
        m + n =< MaxSize /\ cap = m + n /\ front = m /\ back = m
  BY DEF Init
<1> QED
  BY <1>1, Numbers DEF Init, Inv, Ordered, Size

\* Every call keeps the indices in order and what it constructs in the buffer.
LEMMA NextInv ==
  ASSUME Wrapping = {}
  PROVE  Inv /\ [Next]_sizeVars => Inv'
<1> SUFFICES ASSUME Inv, [Next]_sizeVars PROVE Inv'
  OBVIOUS
<1>0. /\ Size \subseteq Nat
      /\ cap \in Nat /\ front \in Nat /\ back \in Nat
      /\ front =< back /\ back =< cap /\ cap =< MaxSize
      /\ size = back - front
  BY SizesFacts, Numbers DEF Size, Inv, Ordered
<1>1. ASSUME NEW n \in Size, ReserveFront(n) PROVE Inv'
  BY <1>0, <1>1, ReserveFrontInv
<1>2. ASSUME NEW n \in Size, ReserveBack(n) PROVE Inv'
  BY <1>0, <1>2, ReserveBackInv
<1>3. ASSUME NEW n \in Size, GrowFront(n) PROVE Inv'
  BY <1>0, <1>3, GrowFrontInv
<1>4. ASSUME NEW n \in Size, GrowBack(n) PROVE Inv'
  BY <1>0, <1>4, GrowBackInv
<1>5. ASSUME NEW n \in Size, ResizeFront(n) PROVE Inv'
  BY <1>0, <1>5, ResizeFrontInv
<1>6. ASSUME NEW n \in Size, ResizeBack(n) PROVE Inv'
  BY <1>0, <1>6, ResizeBackInv
<1>7. ASSUME NEW n \in Size, InsertRange(n) PROVE Inv'
  BY <1>0, <1>7, ReallocatingInv DEF InsertRange, Sums
<1>8. ASSUME EmplaceFront PROVE Inv'
  <2>1. CASE front > 0
    <3>1. InBuffer(cap, front - 1, back, front - 1, front)
      BY <1>8, <2>1 DEF EmplaceFront
    <3>2. Ordered(cap, front - 1, back)
      BY <1>0, <2>1 DEF Ordered
    <3>3. front - 1 \in Nat /\ front - 1 =< front /\ front =< cap
      BY <1>0, <2>1
    <3> QED
      BY <1>0, <3>1, <3>2, <3>3, InBufferInv
  <2>2. CASE ~(front > 0)
    BY <1>8, <2>2, ReallocatingInv DEF EmplaceFront
  <2> QED
    BY <2>1, <2>2
<1>9. ASSUME EmplaceBack PROVE Inv'
  <2>1. CASE back < cap
    <3>1. InBuffer(cap, front, back + 1, back, back + 1)
      BY <1>9, <2>1 DEF EmplaceBack
    <3>2. Ordered(cap, front, back + 1)
      BY <1>0, <2>1 DEF Ordered
    <3>3. back + 1 \in Nat /\ back =< back + 1 /\ back + 1 =< cap
      BY <1>0, <2>1
    <3> QED
      BY <1>0, <3>1, <3>2, <3>3, InBufferInv
  <2>2. CASE ~(back < cap)
    BY <1>9, <2>2, ReallocatingInv DEF EmplaceBack
  <2> QED
    BY <2>1, <2>2
<1>10. ASSUME PopFront PROVE Inv'
  <2>1. Ordered(cap, front + 1, back)
    BY <1>0, <1>10 DEF PopFront, Ordered
  <2> QED
    BY <1>0, <1>10, <2>1, InBufferInv DEF PopFront
<1>11. ASSUME PopBack PROVE Inv'
  <2>1. Ordered(cap, front, back - 1)
    BY <1>0, <1>11 DEF PopBack, Ordered
  <2> QED
    BY <1>0, <1>11, <2>1, InBufferInv DEF PopBack
<1>12. ASSUME UNCHANGED sizeVars PROVE Inv'
  BY <1>12 DEF sizeVars, Inv, Ordered
<1> QED
  BY <1>1, <1>2, <1>3, <1>4, <1>5, <1>6, <1>7, <1>8, <1>9, <1>10, <1>11, <1>12 DEF Next

\* What a call constructs lies in the buffer it allocated, between the indices, and no
\* buffer is larger than max_size(), for every width of size_type and every request
\* whose sum with a free capacity is a size_type.
THEOREM RequestsGrantedInFull ==
  ASSUME Wrapping = {}
  PROVE  Spec => []NothingOutside
<1>1. Init => Inv
  BY InitInv
<1>2. Inv /\ [Next]_sizeVars => Inv'
  BY NextInv
<1>3. Inv => NothingOutside
  BY DEF Inv, Ordered, NothingOutside
<1> QED
  BY <1>1, <1>2, <1>3, PTL DEF Spec

=============================================================================
