-------------------------- MODULE BatchDequeElementsProofs --------------------------
(***************************************************************************)
(* What the operations of BatchDequeOps make of the elements, as a         *)
(* sequence and with the address of each, for every segment size and every *)
(* number of segments.  BatchDequeOpsProofs says where an operation leaves *)
(* the iterators and what the cells of each segment hold; from that follow *)
(* here the effects of the operations:                                     *)
(*                                                                         *)
(*   Prefixed, Suffixed   elements are new at an end, the others did not   *)
(*                        move;                                            *)
(*   PartOf, Unmoved      some, or all, of the elements are left and did   *)
(*                        not move;                                        *)
(*   AllStay              every element is still there, at its address;    *)
(*   MapP!IsSplice, MapP!IsCut                                             *)
(*                        elements are inserted, or removed, somewhere.    *)
(***************************************************************************)
EXTENDS BatchDequeOpsProofs

-----------------------------------------------------------------------------
\* Elements that are pushed to an end

\* The elements of a good object are a sequence of objects, each with an address.
LEMMA ContentsAre ==
  ASSUME NEW d, NEW kept, NEW m0, Good(d, kept, m0)
  PROVE  /\ Contents(d) \in Seq(Object) /\ Len(Contents(d)) = SizeOf(d)
         /\ SizeOf(d) \in Nat /\ SizeOf(d) = Past(d) - First(d)
         /\ First(d) \in Int /\ Past(d) \in Int
         /\ Len(Addresses(d)) = SizeOf(d)
         /\ \A i \in 1 .. SizeOf(d) :
              /\ Contents(d)[i] = Cell(d, First(d) + i - 1)
              /\ Cell(d, First(d) + i - 1) \in Object
<1>1. /\ Shaped(d) /\ Owned(d, kept) /\ Filled(d)
      /\ First(d) \in Int /\ Past(d) \in Int
      /\ SizeOf(d) = Past(d) - First(d) /\ SizeOf(d) \in Nat
  BY GoodNumbers DEF Good
<1>2. ASSUME NEW i \in 1 .. SizeOf(d) PROVE Cell(d, First(d) + i - 1) \in Object
  <2> DEFINE p == First(d) + i - 1
  <2>1. p \in Int /\ First(d) =< p /\ p < Past(d)
    BY <1>1
  <2> HIDE DEF p
  <2>2. Cell(d, p) \in Object
    BY <1>1, <2>1, ElementObject
  <2> QED
    BY <2>2 DEF p
<1>3. Contents(d) \in [1 .. SizeOf(d) -> Object]
  BY <1>2 DEF Contents
<1>4. Contents(d) \in Seq(Object) /\ Len(Contents(d)) = SizeOf(d)
  BY <1>1, <1>3
<1>5. Len(Addresses(d)) = SizeOf(d)
  BY <1>1 DEF Addresses
<1> QED
  BY <1>1, <1>2, <1>4, <1>5 DEF Contents

\* The i-th of the elements of d is the j-th of those of e, at the same address.
SameElement(d, i, e, j) ==
  Contents(e)[j] = Contents(d)[i] /\ Addresses(e)[j] = Addresses(d)[i]

\* The elements that d had are between the new ones.
LEMMA GrownElements ==
  ASSUME NEW d, NEW kept, NEW m0, Good(d, kept, m0), NEW e, Good(e, kept, m0),
         NEW f \in Nat, NEW b \in Nat, Grown(d, e, f, b)
  PROVE  /\ SizeOf(e) = SizeOf(d) + f + b
         /\ \A i \in 1 .. SizeOf(d) : SameElement(d, i, e, f + i)
<1>1. /\ Shaped(d) /\ Shaped(e) /\ First(d) \in Int /\ First(e) \in Int
      /\ SizeOf(d) = Past(d) - First(d) /\ SizeOf(d) \in Nat /\ Past(d) \in Int
      /\ d.map.front * SegmentSize \in Int /\ d.map.back * SegmentSize \in Int
      /\ d.map.front * SegmentSize =< First(d) /\ Past(d) =< d.map.back * SegmentSize
  BY GoodNumbers, ShapedNumbers DEF Shaped, Bounded
<1>2. SizeOf(e) = SizeOf(d) + f + b
  BY GrownSizeOf
<1>3. PICK shift \in Int :
        /\ First(e) = First(d) + shift * SegmentSize - f
        /\ \A a \in MapSlots(d), i \in Indices :
             Within(d, a, i) =>
               /\ a + shift \in MapSlots(e)
               /\ e.map.slots[a + shift] = d.map.slots[a]
               /\ e.mem[d.map.slots[a]][i] = d.mem[d.map.slots[a]][i]
  BY DEF Grown
<1>4. ASSUME NEW i \in 1 .. SizeOf(d) PROVE SameElement(d, i, e, f + i)
  <2> DEFINE p == First(d) + i - 1
             q == First(e) + (f + i) - 1
             a == p \div SegmentSize
             k == p % SegmentSize
  <2>1. p \in Int /\ First(d) =< p /\ p < Past(d)
    BY <1>1
  <2>2. d.map.front * SegmentSize =< p /\ p < d.map.back * SegmentSize
    BY <1>1, <2>1
  <2>3. /\ a \in MapSlots(d) /\ k \in Indices /\ a * SegmentSize + k = p
        /\ Within(d, a, k)
    <3> HIDE DEF p
    <3> QED
      BY <1>1, <2>1, <2>2, SlotAt
  <2>4. a \in Int /\ d.map.front \in Int
    BY <1>1, <2>1, PartsOf, ShapedNumbers
  <2>5. q = (a + shift) * SegmentSize + k
    <3> DEFINE u == a * SegmentSize
               v == shift * SegmentSize
               w == (a + shift) * SegmentSize
    <3>1. w = u + v /\ u \in Int /\ v \in Int
      BY <1>3, <2>4, Distribute
    <3>2. u + k = First(d) + i - 1 /\ First(e) = First(d) + v - f /\ k \in Int
      BY <1>3, <2>3 DEF Indices
    <3> HIDE DEF a, k, u, v, w
    <3> QED
      BY <1>1, <3>1, <3>2 DEF w
  <2>6. q \div SegmentSize = a + shift /\ q % SegmentSize = k
    BY <2>3, <2>4, <2>5, PlaceOf
  <2>7. /\ a + shift \in MapSlots(e) /\ e.map.slots[a + shift] = d.map.slots[a]
        /\ e.mem[d.map.slots[a]][k] = d.mem[d.map.slots[a]][k]
    BY <1>3, <2>3
  <2>8. f + i \in 1 .. SizeOf(e)
    BY <1>1, <1>2
  <2>9. Contents(e)[f + i] = Cell(e, q) /\ Contents(d)[i] = Cell(d, p)
    BY <2>8 DEF Contents
  <2>10. /\ Addresses(e)[f + i] = <<e.map.slots[q \div SegmentSize], q % SegmentSize>>
         /\ Addresses(d)[i] = <<d.map.slots[a], k>>
    BY <2>8 DEF Addresses
  <2> HIDE DEF q
  <2>11. Cell(e, q) = e.mem[d.map.slots[a]][k] /\ Cell(d, p) = d.mem[d.map.slots[a]][k]
    BY <2>3, <2>6, <2>7 DEF Cell
  <2> QED
    BY <2>6, <2>7, <2>9, <2>10, <2>11 DEF SameElement
<1> QED
  BY <1>2, <1>4

\* e has the elements of d, and those of xs in front of, or behind, them.
Prefixed(d, e, xs) ==
  /\ SizeOf(e) = SizeOf(d) + Len(xs)
  /\ \A i \in 1 .. Len(xs) : Contents(e)[i] = xs[i]
  /\ \A i \in 1 .. SizeOf(d) : SameElement(d, i, e, Len(xs) + i)

Suffixed(d, e, xs) ==
  /\ SizeOf(e) = SizeOf(d) + Len(xs)
  /\ \A i \in 1 .. SizeOf(d) : SameElement(d, i, e, i)
  /\ \A i \in 1 .. Len(xs) : Contents(e)[SizeOf(d) + i] = xs[i]

\* d and e have the same elements at the same addresses.
Unmoved(d, e) ==
  /\ SizeOf(e) = SizeOf(d)
  /\ \A i \in 1 .. SizeOf(d) : SameElement(d, i, e, i)

LEMMA GrownUnmoved ==
  ASSUME NEW d, NEW kept, NEW m0, Good(d, kept, m0), NEW e, Good(e, kept, m0),
         Grown(d, e, 0, 0)
  PROVE  Unmoved(d, e)
<1>1. 0 \in Nat /\ SizeOf(d) \in Nat
  BY GoodNumbers
<1>2. /\ SizeOf(e) = SizeOf(d) + 0 + 0
      /\ \A i \in 1 .. SizeOf(d) : SameElement(d, i, e, 0 + i)
  BY <1>1, GrownElements
<1>3. \A i \in 1 .. SizeOf(d) : 0 + i = i
  BY <1>1
<1> QED
  BY <1>1, <1>2, <1>3 DEF Unmoved

LEMMA EmplaceFrontPrefixed ==
  ASSUME NEW d, NEW kept, NEW m0, Good(d, kept, m0), NEW x \in Object, Divides,
         EmplaceFrontOk(d)
  PROVE  Prefixed(d, EmplaceFront(d, x), <<x>>)
<1> DEFINE e == EmplaceFront(d, x)
<1>1. Good(e, kept, m0) /\ Grown(d, e, 1, 0) /\ Cell(e, First(e)) = x
  BY EmplaceFrontGood DEF PushedFront
<1> HIDE DEF e
<1>2. /\ SizeOf(e) = SizeOf(d) + 1 + 0
      /\ \A i \in 1 .. SizeOf(d) : SameElement(d, i, e, 1 + i)
  BY <1>1, GrownElements
<1>3. SizeOf(d) \in Nat /\ First(e) \in Int
  BY <1>1, GoodNumbers
<1>4. Contents(e)[1] = Cell(e, First(e) + 1 - 1)
  BY <1>1, <1>2, <1>3, ContentsAre
<1>5. First(e) + 1 - 1 = First(e)
  BY <1>3
<1> QED
  BY <1>1, <1>2, <1>3, <1>4, <1>5 DEF Prefixed, e

LEMMA EmplaceBackSuffixed ==
  ASSUME NEW d, NEW kept, NEW m0, Good(d, kept, m0), NEW x \in Object,
         EmplaceBackOk(d)
  PROVE  Suffixed(d, EmplaceBack(d, x), <<x>>)
<1> DEFINE e == EmplaceBack(d, x)
           z == SizeOf(d)
<1>1. Good(e, kept, m0) /\ Grown(d, e, 0, 1) /\ Cell(e, Past(e) - 1) = x
  BY EmplaceBackGood DEF PushedBack
<1> HIDE DEF e
<1>2. /\ SizeOf(e) = z + 0 + 1
      /\ \A i \in 1 .. z : SameElement(d, i, e, 0 + i)
  BY <1>1, GrownElements
<1>3. z \in Nat /\ First(e) \in Int /\ Past(e) \in Int /\ SizeOf(e) = Past(e) - First(e)
  BY <1>1, GoodNumbers
<1> HIDE DEF z
<1>4. /\ z + 1 \in 1 .. SizeOf(e) /\ First(e) + (z + 1) - 1 = Past(e) - 1
      /\ \A i \in 1 .. z : 0 + i = i
  BY <1>2, <1>3
<1>5. Contents(e)[z + 1] = x
  BY <1>1, <1>4, ContentsAre
<1>6. Len(<<x>>) = 1 /\ <<x>>[1] = x
  OBVIOUS
<1> QED
  BY <1>2, <1>3, <1>4, <1>5, <1>6 DEF Suffixed, e, z

\* One more in front of, or behind, some others.
LEMMA PrefixedTwice ==
  ASSUME NEW d, NEW e, NEW g, NEW xs \in Seq(Object), NEW ys \in Seq(Object), NEW x,
         SizeOf(d) \in Nat, Prefixed(d, e, xs), Prefixed(e, g, <<x>>),
         Len(ys) = Len(xs) + 1, ys[1] = x, \A i \in 1 .. Len(xs) : ys[1 + i] = xs[i]
  PROVE  Prefixed(d, g, ys)
<1> DEFINE n == Len(xs)
           z == SizeOf(d)
<1>0. n \in Nat /\ z \in Nat /\ Len(ys) = n + 1 /\ Len(<<x>>) = 1 /\ <<x>>[1] = x
  OBVIOUS
<1>1. /\ SizeOf(e) = z + n /\ SizeOf(g) = SizeOf(e) + 1
      /\ \A i \in 1 .. n : Contents(e)[i] = xs[i]
      /\ \A i \in 1 .. z : SameElement(d, i, e, n + i)
      /\ Contents(g)[1] = x
      /\ \A i \in 1 .. SizeOf(e) : SameElement(e, i, g, 1 + i)
  BY <1>0 DEF Prefixed
<1> HIDE DEF n, z
<1>2. SizeOf(g) = z + Len(ys)
  BY <1>0, <1>1
<1>3. ASSUME NEW i \in 1 .. Len(ys) PROVE Contents(g)[i] = ys[i]
  <2>1. CASE i = 1
    BY <1>1, <2>1
  <2>2. CASE i # 1
    <3>1. i - 1 \in 1 .. n /\ i - 1 \in 1 .. SizeOf(e) /\ 1 + (i - 1) = i
      BY <1>0, <1>1, <2>2
    <3>2. Contents(g)[1 + (i - 1)] = Contents(e)[i - 1]
      BY <1>1, <3>1 DEF SameElement
    <3>3. Contents(e)[i - 1] = xs[i - 1] /\ ys[1 + (i - 1)] = xs[i - 1]
      BY <1>1, <3>1 DEF n
    <3> QED
      BY <3>1, <3>2, <3>3
  <2> QED
    BY <2>1, <2>2
<1>4. ASSUME NEW i \in 1 .. z PROVE SameElement(d, i, g, Len(ys) + i)
  <2>1. n + i \in 1 .. SizeOf(e) /\ 1 + (n + i) = Len(ys) + i
    <3> DEFINE m == Len(ys)
    <3>1. m = n + 1 /\ n \in Nat /\ z \in Nat
      BY <1>0
    <3> HIDE DEF m
    <3>2. n + i \in 1 .. z + n /\ 1 + (n + i) = m + i
      BY <3>1
    <3> QED
      BY <1>1, <3>2 DEF m
  <2>2. SameElement(d, i, e, n + i) /\ SameElement(e, n + i, g, 1 + (n + i))
    BY <1>1, <2>1
  <2> QED
    BY <2>1, <2>2 DEF SameElement
<1> QED
  BY <1>2, <1>3, <1>4 DEF Prefixed, z

LEMMA SuffixedTwice ==
  ASSUME NEW d, NEW e, NEW g, NEW xs \in Seq(Object), NEW ys \in Seq(Object), NEW x,
         SizeOf(d) \in Nat, Suffixed(d, e, xs), Suffixed(e, g, <<x>>),
         Len(ys) = Len(xs) + 1, ys[Len(xs) + 1] = x, \A i \in 1 .. Len(xs) : ys[i] = xs[i]
  PROVE  Suffixed(d, g, ys)
<1> DEFINE n == Len(xs)
           z == SizeOf(d)
<1>0. n \in Nat /\ z \in Nat /\ Len(ys) = n + 1 /\ Len(<<x>>) = 1 /\ <<x>>[1] = x
      /\ ys[n + 1] = x /\ \A i \in 1 .. n : ys[i] = xs[i]
  OBVIOUS
<1>1. /\ SizeOf(e) = z + n /\ SizeOf(g) = SizeOf(e) + 1
      /\ \A i \in 1 .. n : Contents(e)[z + i] = xs[i]
      /\ \A i \in 1 .. z : SameElement(d, i, e, i)
      /\ Contents(g)[SizeOf(e) + 1] = x
      /\ \A i \in 1 .. SizeOf(e) : SameElement(e, i, g, i)
  BY <1>0 DEF Suffixed
<1> HIDE DEF n, z
<1>2. SizeOf(g) = z + Len(ys)
  BY <1>0, <1>1
<1>3. ASSUME NEW i \in 1 .. Len(ys) PROVE Contents(g)[z + i] = ys[i]
  <2>1. CASE i = n + 1
    <3>1. z + i = SizeOf(e) + 1
      BY <1>0, <1>1, <2>1
    <3> QED
      BY <1>0, <1>1, <2>1, <3>1
  <2>2. CASE i # n + 1
    <3>1. i \in 1 .. n /\ z + i \in 1 .. SizeOf(e)
      BY <1>0, <1>1, <2>2
    <3>2. Contents(g)[z + i] = Contents(e)[z + i]
      BY <1>1, <3>1 DEF SameElement
    <3> QED
      BY <1>0, <1>1, <3>1, <3>2
  <2> QED
    BY <2>1, <2>2
<1>4. ASSUME NEW i \in 1 .. z PROVE SameElement(d, i, g, i)
  <2>1. i \in 1 .. SizeOf(e)
    BY <1>0, <1>1
  <2>2. SameElement(d, i, e, i) /\ SameElement(e, i, g, i)
    BY <1>1, <2>1
  <2> QED
    BY <2>2 DEF SameElement
<1> QED
  BY <1>2, <1>3, <1>4 DEF Suffixed, z

\* The first k elements of a range, and the last k.
FirstPart(xs, k) == SubSeq(xs, 1, k)
LastPart(xs, k)  == SubSeq(xs, Len(xs) - k + 1, Len(xs))

LEMMA PartsAre ==
  ASSUME NEW S, NEW xs \in Seq(S), NEW k \in 0 .. Len(xs)
  PROVE  /\ FirstPart(xs, k) \in Seq(S) /\ Len(FirstPart(xs, k)) = k
         /\ \A i \in 1 .. k : FirstPart(xs, k)[i] = xs[i]
         /\ LastPart(xs, k) \in Seq(S) /\ Len(LastPart(xs, k)) = k
         /\ \A i \in 1 .. k : LastPart(xs, k)[i] = xs[Len(xs) - k + i]
<1>1. Len(xs) \in Nat
  OBVIOUS
<1>2. /\ FirstPart(xs, k) \in Seq(S) /\ Len(FirstPart(xs, k)) = k
      /\ \A i \in 1 .. k : FirstPart(xs, k)[i] = xs[i]
  <2>1. 0 \in 0 .. Len(xs) /\ k \in 0 .. Len(xs) /\ 0 + 1 = 1 /\ k - 0 = k
    BY <1>1
  <2>2. /\ SubSeq(xs, 0 + 1, k) \in Seq(S)
        /\ Len(SubSeq(xs, 0 + 1, k)) = k - 0
        /\ \A i \in 1 .. k - 0 : SubSeq(xs, 0 + 1, k)[i] = xs[0 + i]
    BY <2>1, MapConstants, MapP!Run
  <2> QED
    BY <2>1, <2>2 DEF FirstPart
<1>3. /\ LastPart(xs, k) \in Seq(S) /\ Len(LastPart(xs, k)) = k
      /\ \A i \in 1 .. k : LastPart(xs, k)[i] = xs[Len(xs) - k + i]
  <2> DEFINE m == Len(xs) - k
  <2>1. m \in 0 .. Len(xs) /\ Len(xs) \in m .. Len(xs) /\ Len(xs) - m = k
    BY <1>1
  <2> HIDE DEF m
  <2>2. /\ SubSeq(xs, m + 1, Len(xs)) \in Seq(S)
        /\ Len(SubSeq(xs, m + 1, Len(xs))) = Len(xs) - m
        /\ \A i \in 1 .. Len(xs) - m : SubSeq(xs, m + 1, Len(xs))[i] = xs[m + i]
    BY <2>1, MapConstants, MapP!Run
  <2> QED
    BY <2>1, <2>2 DEF LastPart, m
<1> QED
  BY <1>2, <1>3

\* Nothing in front, and nothing behind.
LEMMA NothingPushed ==
  ASSUME NEW d, SizeOf(d) \in Nat, NEW xs \in Seq(Object)
  PROVE  Prefixed(d, d, LastPart(xs, 0)) /\ Suffixed(d, d, FirstPart(xs, 0))
<1>1. 0 \in 0 .. Len(xs)
  OBVIOUS
<1>2. Len(LastPart(xs, 0)) = 0 /\ Len(FirstPart(xs, 0)) = 0
  BY <1>1, PartsAre
<1>3. \A i \in 1 .. SizeOf(d) : 0 + i = i
  BY <1>1
<1> QED
  BY <1>2, <1>3 DEF Prefixed, Suffixed, SameElement

\* g[k] is the set of the objects after k pushes of elements of xs to an end.
PushedInFront(d, kept, m0, xs, g) ==
  /\ g[0] = {d}
  /\ \A k \in 1 .. Len(xs) : \A e \in g[k] : \E h \in g[k - 1] :
       /\ EmplaceFrontOk(h)
       /\ Good(h, kept, m0) /\ Grown(d, h, k - 1, 0) =>
            e = EmplaceFront(h, xs[Len(xs) - k + 1])

PushedBehind(d, kept, m0, xs, g) ==
  /\ g[0] = {d}
  /\ \A k \in 1 .. Len(xs) : \A e \in g[k] : \E h \in g[k - 1] :
       /\ EmplaceBackOk(h)
       /\ Good(h, kept, m0) /\ Grown(d, h, 0, k - 1) => e = EmplaceBack(h, xs[k])

LEMMA PushesPrefix ==
  ASSUME NEW d, NEW kept, NEW m0, Good(d, kept, m0), Divides, NEW xs \in Seq(Object),
         NEW g, PushedInFront(d, kept, m0, xs, g)
  PROVE  \A k \in 0 .. Len(xs) : \A e \in g[k] :
           Good(e, kept, m0) /\ Grown(d, e, k, 0) /\ Prefixed(d, e, LastPart(xs, k))
<1> DEFINE n == Len(xs)
           Ok(e, k) ==
             Good(e, kept, m0) /\ Grown(d, e, k, 0) /\ Prefixed(d, e, LastPart(xs, k))
           P == {k \in Nat : k =< n => \A e \in g[k] : Ok(e, k)}
<1>0. SizeOf(d) \in Nat /\ n \in Nat
  BY GoodNumbers
<1>1. 0 \in P
  <2>1. Ok(d, 0)
    BY <1>0, GrownNone, NothingPushed DEF Good
  <2> QED
    BY <2>1 DEF PushedInFront
<1>2. ASSUME NEW k \in P PROVE k + 1 \in P
  <2> SUFFICES ASSUME k + 1 =< n, NEW e \in g[k + 1] PROVE Ok(e, k + 1)
    OBVIOUS
  <2>1. k + 1 \in 1 .. n /\ (k + 1) - 1 = k /\ k =< n /\ k \in Nat
        /\ k \in 0 .. n /\ k + 1 \in 0 .. n
    OBVIOUS
  <2> DEFINE x == xs[n - (k + 1) + 1]
             ys == LastPart(xs, k)
             zs == LastPart(xs, k + 1)
  <2>2. PICK h \in g[k] :
          EmplaceFrontOk(h) /\ (Good(h, kept, m0) /\ Grown(d, h, k, 0) => e = EmplaceFront(h, x))
    BY <2>1 DEF PushedInFront
  <2>3. Ok(h, k)
    BY <2>1
  <2>4. x \in Object
    <3>1. n - (k + 1) + 1 \in 1 .. n
      BY <1>0, <2>1
    <3> QED
      BY <3>1
  <2>5. PushedFront(h, e, kept, m0) /\ Prefixed(h, e, <<x>>)
    <3> HIDE DEF x
    <3> QED
      BY <2>2, <2>3, <2>4, EmplaceFrontGood, EmplaceFrontPrefixed
  <2>6. Grown(d, e, k + 1, 0 + 0) /\ Good(e, kept, m0)
    BY <2>1, <2>3, <2>5, GrownTwice DEF PushedFront, Good
  <2>7. /\ ys \in Seq(Object) /\ zs \in Seq(Object) /\ Len(ys) = k /\ Len(zs) = k + 1
        /\ \A i \in 1 .. k : ys[i] = xs[n - k + i]
        /\ \A i \in 1 .. k + 1 : zs[i] = xs[n - (k + 1) + i]
    BY <2>1, PartsAre
  <2> HIDE DEF ys, zs
  <2>8. zs[1] = x
    <3>1. 1 \in 1 .. k + 1
      BY <2>1
    <3> QED
      BY <2>7, <3>1
  <2>9. ASSUME NEW i \in 1 .. Len(ys) PROVE zs[1 + i] = ys[i]
    <3>1. i \in 1 .. k /\ 1 + i \in 1 .. k + 1 /\ n - (k + 1) + (1 + i) = n - k + i
      BY <1>0, <2>1, <2>7, SMTT(30)
    <3>2. zs[1 + i] = xs[n - (k + 1) + (1 + i)] /\ ys[i] = xs[n - k + i]
      BY <2>7, <3>1
    <3> QED
      BY <3>1, <3>2
  <2>10. Prefixed(d, e, zs)
    <3>1. Prefixed(d, h, ys) /\ Len(zs) = Len(ys) + 1
      BY <2>3, <2>7 DEF ys
    <3> HIDE DEF x, n
    <3> QED
      BY <1>0, <2>5, <2>7, <2>8, <2>9, <3>1, PrefixedTwice
  <2> QED
    BY <2>6, <2>10 DEF zs
<1>3. P = Nat
  <2>1. P \in SUBSET Nat
    OBVIOUS
  <2> HIDE DEF P
  <2> QED
    BY <1>1, <1>2, <2>1, Induction
<1> QED
  BY <1>3

LEMMA PushesSuffix ==
  ASSUME NEW d, NEW kept, NEW m0, Good(d, kept, m0), NEW xs \in Seq(Object),
         NEW g, PushedBehind(d, kept, m0, xs, g)
  PROVE  \A k \in 0 .. Len(xs) : \A e \in g[k] :
           Good(e, kept, m0) /\ Grown(d, e, 0, k) /\ Suffixed(d, e, FirstPart(xs, k))
<1> DEFINE n == Len(xs)
           Ok(e, k) ==
             Good(e, kept, m0) /\ Grown(d, e, 0, k) /\ Suffixed(d, e, FirstPart(xs, k))
           P == {k \in Nat : k =< n => \A e \in g[k] : Ok(e, k)}
<1>0. SizeOf(d) \in Nat /\ n \in Nat
  BY GoodNumbers
<1>1. 0 \in P
  <2>1. Ok(d, 0)
    BY <1>0, GrownNone, NothingPushed DEF Good
  <2> QED
    BY <2>1 DEF PushedBehind
<1>2. ASSUME NEW k \in P PROVE k + 1 \in P
  <2> SUFFICES ASSUME k + 1 =< n, NEW e \in g[k + 1] PROVE Ok(e, k + 1)
    OBVIOUS
  <2>1. k + 1 \in 1 .. n /\ (k + 1) - 1 = k /\ k =< n /\ k \in Nat
        /\ k \in 0 .. n /\ k + 1 \in 0 .. n
    OBVIOUS
  <2> DEFINE x == xs[k + 1]
             ys == FirstPart(xs, k)
             zs == FirstPart(xs, k + 1)
  <2>2. PICK h \in g[k] :
          EmplaceBackOk(h) /\ (Good(h, kept, m0) /\ Grown(d, h, 0, k) => e = EmplaceBack(h, x))
    BY <2>1 DEF PushedBehind
  <2>3. Ok(h, k)
    BY <2>1
  <2>4. x \in Object
    BY <2>1
  <2>5. PushedBack(h, e, kept, m0) /\ Suffixed(h, e, <<x>>)
    <3> HIDE DEF x
    <3> QED
      BY <2>2, <2>3, <2>4, EmplaceBackGood, EmplaceBackSuffixed
  <2>6. Grown(d, e, 0 + 0, k + 1) /\ Good(e, kept, m0)
    BY <2>1, <2>3, <2>5, GrownTwice DEF PushedBack, Good
  <2>7. /\ ys \in Seq(Object) /\ zs \in Seq(Object) /\ Len(ys) = k /\ Len(zs) = k + 1
        /\ \A i \in 1 .. k : ys[i] = xs[i]
        /\ \A i \in 1 .. k + 1 : zs[i] = xs[i]
    BY <2>1, PartsAre
  <2> HIDE DEF ys, zs
  <2>8. zs[Len(ys) + 1] = x
    BY <2>1, <2>7
  <2>9. ASSUME NEW i \in 1 .. Len(ys) PROVE zs[i] = ys[i]
    <3>1. i \in 1 .. k /\ i \in 1 .. k + 1
      BY <2>1, <2>7
    <3> QED
      BY <2>7, <3>1
  <2>10. Suffixed(d, e, zs)
    <3>1. Suffixed(d, h, ys) /\ Len(zs) = Len(ys) + 1
      BY <2>3, <2>7 DEF ys
    <3> HIDE DEF x, n
    <3> QED
      BY <1>0, <2>5, <2>7, <2>8, <2>9, <3>1, SuffixedTwice
  <2> QED
    BY <2>6, <2>10 DEF zs
<1>3. P = Nat
  <2>1. P \in SUBSET Nat
    OBVIOUS
  <2> HIDE DEF P
  <2> QED
    BY <1>1, <1>2, <2>1, Induction
<1> QED
  BY <1>3

\* All of them.
LEMMA WholeParts ==
  ASSUME NEW S, NEW xs \in Seq(S)
  PROVE  FirstPart(xs, Len(xs)) = xs /\ LastPart(xs, Len(xs)) = xs
<1>1. Len(xs) - Len(xs) + 1 = 1
  OBVIOUS
<1>2. SubSeq(xs, 1, Len(xs)) = xs
  BY MapConstants, MapP!EndParts
<1> QED
  BY <1>1, <1>2 DEF FirstPart, LastPart

LEMMA PushFrontPrefixed ==
  ASSUME NEW d, NEW kept, NEW m0, Good(d, kept, m0), Divides, NEW xs \in Seq(Object),
         NEW k \in 0 .. Len(xs), NEW e \in PushFront(d, xs)[k]
  PROVE  Good(e, kept, m0) /\ Prefixed(d, e, LastPart(xs, k))
<1> DEFINE g == PushFront(d, xs)
<1>1. /\ g[0] = {d}
      /\ \A j \in 1 .. Len(xs) : \A u \in g[j] : \E h \in g[j - 1] :
           EmplaceFrontOk(h) /\ u = EmplaceFront(h, xs[Len(xs) - j + 1])
  BY PushFrontSteps
<1> HIDE DEF g
<1>2. PushedInFront(d, kept, m0, xs, g)
  BY <1>1 DEF PushedInFront
<1> QED
  BY <1>2, PushesPrefix DEF g

LEMMA PushBackSuffixed ==
  ASSUME NEW d, NEW kept, NEW m0, Good(d, kept, m0), NEW xs \in Seq(Object),
         NEW k \in 0 .. Len(xs), NEW e \in PushBack(d, xs)[k]
  PROVE  Good(e, kept, m0) /\ Suffixed(d, e, FirstPart(xs, k))
<1> DEFINE g == PushBack(d, xs)
<1>1. /\ g[0] = {d}
      /\ \A j \in 1 .. Len(xs) : \A u \in g[j] : \E h \in g[j - 1] :
           EmplaceBackOk(h) /\ u = EmplaceBack(h, xs[j])
  BY PushBackSteps
<1> HIDE DEF g
<1>2. PushedBehind(d, kept, m0, xs, g)
  BY <1>1 DEF PushedBehind
<1> QED
  BY <1>2, PushesSuffix DEF g

-----------------------------------------------------------------------------
\* Calls that throw, and elements removed at the ends

\* A push that throws leaves the elements where they are.
LEMMA PushFrontThrewPrefixed ==
  ASSUME NEW d, NEW kept, NEW m0, Good(d, kept, m0), Divides, NEW xs \in Seq(Object),
         NEW e \in PushFrontThrew(d, xs)
  PROVE  \E k \in 0 .. Len(xs) - 1 :
           Good(e, kept, m0) /\ Prefixed(d, e, LastPart(xs, k))
<1>1. PICK k \in 0 .. Len(xs) - 1 :
         \E h \in PushFront(d, xs)[k] : e \in EmplaceFrontThrew(h)
  BY DEF PushFrontThrew
<1>2. PICK h \in PushFront(d, xs)[k] : e \in EmplaceFrontThrew(h)
  BY <1>1
<1>3. k \in 0 .. Len(xs)
  OBVIOUS
<1>4. Good(h, kept, m0) /\ Prefixed(d, h, LastPart(xs, k))
  BY <1>3, PushFrontPrefixed
<1>5. Good(e, kept, m0) /\ Unmoved(h, e)
  BY <1>2, <1>4, EmplaceFrontThrewGood, GrownUnmoved
<1>6. Prefixed(d, e, LastPart(xs, k))
  <2> DEFINE ys == LastPart(xs, k)
  <2>1. Len(ys) \in Nat /\ SizeOf(d) \in Nat /\ SizeOf(h) = SizeOf(d) + Len(ys)
    BY <1>3, <1>4, GoodNumbers, PartsAre DEF Prefixed
  <2> HIDE DEF ys
  <2>2. \A i \in 1 .. Len(ys) : i \in 1 .. SizeOf(h)
    BY <2>1
  <2>3. \A i \in 1 .. SizeOf(d) : Len(ys) + i \in 1 .. SizeOf(h)
    BY <2>1
  <2>4. Prefixed(d, h, ys)
    BY <1>4 DEF ys
  <2>5. Prefixed(d, e, ys)
    BY <1>5, <2>2, <2>3, <2>4 DEF Prefixed, Unmoved, SameElement
  <2> QED
    BY <2>5 DEF ys
<1> QED
  BY <1>5, <1>6

LEMMA PushBackThrewSuffixed ==
  ASSUME NEW d, NEW kept, NEW m0, Good(d, kept, m0), NEW xs \in Seq(Object),
         NEW e \in PushBackThrew(d, xs)
  PROVE  \E k \in 0 .. Len(xs) - 1 :
           Good(e, kept, m0) /\ Suffixed(d, e, FirstPart(xs, k))
<1>1. PICK k \in 0 .. Len(xs) - 1 :
         \E h \in PushBack(d, xs)[k] : e \in EmplaceBackThrew(h)
  BY DEF PushBackThrew
<1>2. PICK h \in PushBack(d, xs)[k] : e \in EmplaceBackThrew(h)
  BY <1>1
<1>3. k \in 0 .. Len(xs)
  OBVIOUS
<1>4. Good(h, kept, m0) /\ Suffixed(d, h, FirstPart(xs, k))
  BY <1>3, PushBackSuffixed
<1>5. Good(e, kept, m0) /\ Unmoved(h, e)
  BY <1>2, <1>4, EmplaceBackThrewGood, GrownUnmoved
<1>6. Suffixed(d, e, FirstPart(xs, k))
  <2> DEFINE ys == FirstPart(xs, k)
  <2>1. Len(ys) \in Nat /\ SizeOf(d) \in Nat /\ SizeOf(h) = SizeOf(d) + Len(ys)
    BY <1>3, <1>4, GoodNumbers, PartsAre DEF Suffixed
  <2> HIDE DEF ys
  <2>2. \A i \in 1 .. Len(ys) : SizeOf(d) + i \in 1 .. SizeOf(h)
    BY <2>1
  <2>3. \A i \in 1 .. SizeOf(d) : i \in 1 .. SizeOf(h)
    BY <2>1
  <2>4. Suffixed(d, h, ys)
    BY <1>4 DEF ys
  <2>5. Suffixed(d, e, ys)
    BY <1>5, <2>2, <2>3, <2>4 DEF Suffixed, Unmoved, SameElement
  <2> QED
    BY <2>5 DEF ys
<1> QED
  BY <1>5, <1>6

\* e has the elements of d from the k-th, counted from 0, on, as many as it has.
PartOf(d, e, k) == \A i \in 1 .. SizeOf(e) : SameElement(d, k + i, e, i)

LEMMA InTheSameCells ==
  ASSUME NEW d, NEW kept, NEW m0, Good(d, kept, m0), NEW e, Good(e, kept, m0),
         e.map = d.map, First(d) =< First(e), Past(e) =< Past(d),
         \A p \in Int : First(e) =< p /\ p < Past(e) => Cell(e, p) = Cell(d, p)
  PROVE  /\ SizeOf(e) = Past(e) - First(e)
         /\ PartOf(d, e, First(e) - First(d))
<1> DEFINE z == SizeOf(d)
           y == SizeOf(e)
           k == First(e) - First(d)
           u == First(d)
           v == First(e)
<1>1. /\ u \in Int /\ v \in Int /\ z \in Nat /\ y \in Nat
      /\ z = Past(d) - u /\ y = Past(e) - v /\ Past(d) \in Int /\ Past(e) \in Int
  BY GoodNumbers
<1>2. ASSUME NEW i \in 1 .. y PROVE SameElement(d, k + i, e, i)
  <2> DEFINE p == v + i - 1
             j == k + i
  <2>1. j \in 1 .. z /\ u + j - 1 = p /\ p \in Int /\ v =< p /\ p < Past(e)
    BY <1>1
  <2>2. Cell(e, p) = Cell(d, p)
    BY <2>1
  <2> HIDE DEF j, z, y
  <2>3. Contents(e)[i] = Cell(e, v + i - 1) /\ Contents(d)[j] = Cell(d, u + j - 1)
    BY <2>1 DEF Contents, z, y
  <2>4. /\ Addresses(e)[i] =
             <<e.map.slots[(v + i - 1) \div SegmentSize], (v + i - 1) % SegmentSize>>
        /\ Addresses(d)[j] =
             <<d.map.slots[(u + j - 1) \div SegmentSize], (u + j - 1) % SegmentSize>>
    BY <2>1 DEF Addresses, z, y
  <2> QED
    BY <2>1, <2>2, <2>3, <2>4 DEF SameElement, j
<1> QED
  BY <1>1, <1>2 DEF PartOf

\* After the destruction of elements at one end the others are where they were.
LEMMA TrimmedElements ==
  ASSUME NEW d, NEW kept, NEW m0, Good(d, kept, m0), NEW lo \in Int, NEW hi \in Int,
         NEW e, Good(e, kept, m0), e.map = d.map, e.mem = Destroy(d, lo, hi).mem,
         First(d) =< First(e), Past(e) =< Past(d), hi =< First(e) \/ Past(e) =< lo
  PROVE  /\ SizeOf(e) = Past(e) - First(e)
         /\ PartOf(d, e, First(e) - First(d))
<1> DEFINE f == [p \in lo .. hi - 1 |-> Raw]
<1>1. /\ Shaped(d) /\ Owned(d, kept)
      /\ First(d) \in Int /\ Past(d) \in Int /\ First(e) \in Int /\ Past(e) \in Int
      /\ d.map.front * SegmentSize \in Int /\ d.map.back * SegmentSize \in Int
      /\ d.map.front * SegmentSize =< First(d) /\ Past(d) =< d.map.back * SegmentSize
  BY GoodNumbers, ShapedNumbers DEF Good, Shaped, Bounded
<1>2. e.mem = Store(d, f).mem /\ DOMAIN f = lo .. hi - 1
      /\ \A p \in DOMAIN f : f[p] \in Slot
  BY DEF Destroy, Slot
<1> HIDE DEF f
<1>3. ASSUME NEW p \in Int, First(e) =< p, p < Past(e) PROVE Cell(e, p) = Cell(d, p)
  <2>1. d.map.front * SegmentSize =< p /\ p < d.map.back * SegmentSize
    BY <1>1, <1>3
  <2>2. p \notin DOMAIN f
    BY <1>1, <1>2, <1>3
  <2> QED
    BY <1>1, <1>2, <2>1, <2>2, CellsStored
<1> QED
  BY <1>3, InTheSameCells

LEMMA EraseAtBeginElements ==
  ASSUME NEW d, NEW kept, NEW m0, Good(d, kept, m0), Divides,
         NEW n \in Nat, n =< SizeOf(d)
  PROVE  LET e == EraseAtBegin(d, n)
         IN  Good(e, kept, m0) /\ SizeOf(e) = SizeOf(d) - n /\ PartOf(d, e, n)
<1> DEFINE g == Destroy(d, First(d), First(d) + n)
           e == EraseAtBegin(d, n)
<1>1. /\ First(d) \in Int /\ Past(d) \in Int /\ SizeOf(d) = Past(d) - First(d)
      /\ First(d) + n \in Int
  BY GoodNumbers
<1>2. Good(e, kept, m0) /\ First(e) = First(d) + n /\ Past(e) = Past(d) /\ e.map = d.map
  BY EraseAtBeginGood DEF MovedTo
<1>3. e.mem = g.mem
  <2>1. IsDeque(g)
    BY DestroyIs
  <2>2. e = [g EXCEPT !.begin = Advance(g.begin, n)]
    BY DEF EraseAtBegin
  <2> HIDE DEF e, g
  <2> QED
    BY <2>1, <2>2, WithBegin
<1> HIDE DEF e, g
<1>4. SizeOf(e) = Past(e) - First(e) /\ PartOf(d, e, First(e) - First(d))
  <2>1. /\ First(d) =< First(e) /\ Past(e) =< Past(d) /\ First(d) + n =< First(e)
    BY <1>1, <1>2
  <2> QED
    BY <1>1, <1>2, <1>3, <2>1, TrimmedElements DEF g
<1>5. First(e) - First(d) = n /\ Past(e) - First(e) = SizeOf(d) - n
  BY <1>1, <1>2
<1> QED
  BY <1>2, <1>4, <1>5 DEF e

LEMMA EraseAtEndElements ==
  ASSUME NEW d, NEW kept, NEW m0, Good(d, kept, m0), Divides,
         NEW n \in Nat, n =< SizeOf(d)
  PROVE  LET e == EraseAtEnd(d, n)
         IN  Good(e, kept, m0) /\ SizeOf(e) = n /\ PartOf(d, e, 0)
<1> DEFINE g == Destroy(d, First(d) + n, Past(d))
           e == EraseAtEnd(d, n)
<1>1. /\ First(d) \in Int /\ Past(d) \in Int /\ SizeOf(d) = Past(d) - First(d)
      /\ First(d) + n \in Int
  BY GoodNumbers
<1>2. /\ Good(e, kept, m0) /\ First(e) = First(d) /\ Past(e) = First(d) + n
      /\ e.map = d.map
  BY EraseAtEndGood DEF MovedTo
<1>3. e.mem = g.mem
  <2>1. IsDeque(g)
    BY DestroyIs
  <2>2. e = [g EXCEPT !.end = Advance(d.begin, n)]
    BY DEF EraseAtEnd
  <2> HIDE DEF e, g
  <2> QED
    BY <2>1, <2>2, WithEnd
<1> HIDE DEF e, g
<1>4. SizeOf(e) = Past(e) - First(e) /\ PartOf(d, e, First(e) - First(d))
  <2>1. /\ First(d) =< First(e) /\ Past(e) =< Past(d) /\ Past(e) =< First(d) + n
    BY <1>1, <1>2
  <2> QED
    BY <1>1, <1>2, <1>3, <2>1, TrimmedElements DEF g
<1>5. First(e) - First(d) = 0 /\ Past(e) - First(e) = n
  BY <1>1, <1>2
<1> QED
  BY <1>2, <1>4, <1>5 DEF e

LEMMA PopFrontElements ==
  ASSUME NEW d, NEW kept, NEW m0, Good(d, kept, m0), d.begin # d.end
  PROVE  LET e == PopFront(d)
         IN  Good(e, kept, m0) /\ SizeOf(e) = SizeOf(d) - 1 /\ PartOf(d, e, 1)
<1> DEFINE g == Destroy(d, First(d), First(d) + 1)
           e == PopFront(d)
<1>1. /\ First(d) \in Int /\ Past(d) \in Int /\ SizeOf(d) = Past(d) - First(d)
      /\ First(d) + 1 \in Int /\ First(d) < Past(d)
  BY GoodNumbers, NotEmpty
<1>2. Good(e, kept, m0) /\ First(e) = First(d) + 1 /\ Past(e) = Past(d) /\ e.map = d.map
  BY PopFrontGood DEF MovedTo
<1>3. e.mem = g.mem
  <2>1. IsDeque(g)
    BY DestroyIs
  <2>2. e = [g EXCEPT !.begin = Increment(g.begin)]
    BY DEF PopFront
  <2> HIDE DEF e, g
  <2> QED
    BY <2>1, <2>2, WithBegin
<1> HIDE DEF e, g
<1>4. SizeOf(e) = Past(e) - First(e) /\ PartOf(d, e, First(e) - First(d))
  <2>1. /\ First(d) =< First(e) /\ Past(e) =< Past(d) /\ First(d) + 1 =< First(e)
    BY <1>1, <1>2
  <2> QED
    BY <1>1, <1>2, <1>3, <2>1, TrimmedElements DEF g
<1>5. First(e) - First(d) = 1 /\ Past(e) - First(e) = SizeOf(d) - 1
  BY <1>1, <1>2
<1> QED
  BY <1>2, <1>4, <1>5 DEF e

LEMMA PopBackElements ==
  ASSUME NEW d, NEW kept, NEW m0, Good(d, kept, m0), d.begin # d.end
  PROVE  LET e == PopBack(d)
         IN  Good(e, kept, m0) /\ SizeOf(e) = SizeOf(d) - 1 /\ PartOf(d, e, 0)
<1> DEFINE g == Destroy(d, Past(d) - 1, Past(d))
           e == PopBack(d)
<1>1. /\ First(d) \in Int /\ Past(d) \in Int /\ SizeOf(d) = Past(d) - First(d)
      /\ Past(d) - 1 \in Int /\ First(d) < Past(d)
  BY GoodNumbers, NotEmpty
<1>2. /\ Good(e, kept, m0) /\ First(e) = First(d) /\ Past(e) = Past(d) - 1
      /\ e.map = d.map
  BY PopBackGood DEF MovedTo
<1>3. e.mem = g.mem
  <2>1. IsDeque(g)
    BY DestroyIs
  <2>2. e = [g EXCEPT !.end = Decrement(g.end)]
    BY DEF PopBack
  <2> HIDE DEF e, g
  <2> QED
    BY <2>1, <2>2, WithEnd
<1> HIDE DEF e, g
<1>4. SizeOf(e) = Past(e) - First(e) /\ PartOf(d, e, First(e) - First(d))
  <2>1. /\ First(d) =< First(e) /\ Past(e) =< Past(d) /\ Past(e) =< Past(d) - 1
    BY <1>1, <1>2
  <2> QED
    BY <1>1, <1>2, <1>3, <2>1, TrimmedElements DEF g
<1>5. First(e) - First(d) = 0 /\ Past(e) - First(e) = SizeOf(d) - 1
  BY <1>1, <1>2
<1> QED
  BY <1>2, <1>4, <1>5 DEF e

-----------------------------------------------------------------------------
\* Elements that are rotated

\* f gives objects to places of d that hold elements.
WritesElements(d, f) ==
  \A p \in DOMAIN f : p \in Int /\ First(d) =< p /\ p < Past(d) /\ f[p] \in Object

\* e holds what f gives, and d's elements in the other places.
ElementsStored(d, f, e) ==
  /\ SizeOf(e) = SizeOf(d)
  /\ \A i \in 1 .. SizeOf(d) :
       Contents(e)[i] = IF First(d) + i - 1 \in DOMAIN f THEN f[First(d) + i - 1]
                        ELSE Contents(d)[i]

\* What a step that writes to the elements leaves in each place.
LEMMA RearrangedElements ==
  ASSUME NEW d, NEW kept, NEW m0, Good(d, kept, m0),
         NEW f, WritesElements(d, f),
         NEW e, e = Store(d, f), Rearranged(d, e, kept, m0)
  PROVE  ElementsStored(d, f, e)
<1>1. /\ Shaped(d) /\ Owned(d, kept)
      /\ First(d) \in Int /\ Past(d) \in Int
      /\ SizeOf(d) = Past(d) - First(d) /\ SizeOf(d) \in Nat
      /\ d.map.front * SegmentSize \in Int /\ d.map.back * SegmentSize \in Int
      /\ d.map.front * SegmentSize =< First(d) /\ Past(d) =< d.map.back * SegmentSize
  BY GoodNumbers, ShapedNumbers DEF Good, Shaped, Bounded
<1>2. /\ Good(e, kept, m0) /\ First(e) = First(d) /\ Past(e) = Past(d)
      /\ e.map = d.map /\ e.mem = Store(d, f).mem
  BY DEF Rearranged
<1>3. SizeOf(e) = SizeOf(d)
  BY <1>1, <1>2, GoodNumbers
<1>4. \A p \in DOMAIN f : f[p] \in Slot
  BY DEF WritesElements, Slot
<1>5. ASSUME NEW i \in 1 .. SizeOf(d)
      PROVE  Contents(e)[i] = IF First(d) + i - 1 \in DOMAIN f THEN f[First(d) + i - 1]
                              ELSE Contents(d)[i]
  <2> DEFINE p == First(d) + i - 1
  <2>1. p \in Int /\ d.map.front * SegmentSize =< p /\ p < d.map.back * SegmentSize
    BY <1>1
  <2>2. Contents(e)[i] = Cell(e, p) /\ Contents(d)[i] = Cell(d, p)
    BY <1>2, <1>3 DEF Contents
  <2> HIDE DEF p
  <2>3. Cell(e, p) = IF p \in DOMAIN f THEN f[p] ELSE Cell(d, p)
    BY <1>1, <1>2, <1>4, <2>1, CellsStored
  <2> QED
    BY <2>2, <2>3 DEF p
<1> QED
  BY <1>3, <1>5 DEF ElementsStored

\* e holds d's elements, those at l + 1 .. m behind those at m + 1 .. h.
IsRotated(d, e, l, m, h) ==
  /\ SizeOf(e) = SizeOf(d)
  /\ \A i \in 1 .. SizeOf(d) : Addresses(e)[i] = Addresses(d)[i]
  /\ \A i \in 1 .. SizeOf(d) :
       /\ ~(l < i /\ i =< h) => SameElement(d, i, e, i)
       /\ l < i /\ i =< h =>
            Contents(e)[i] =
              IF i + (m - l) =< h THEN Contents(d)[i + (m - l)]
              ELSE Contents(d)[i - (h - m)]

\* std::rotate: the elements before and behind `mid` change places.
LEMMA RotatedElements ==
  ASSUME NEW d, NEW kept, NEW m0, Good(d, kept, m0),
         NEW l \in Nat, NEW m \in Nat, NEW h \in Nat, l =< m, m =< h, h =< SizeOf(d),
         NEW e, e = Rotate(d, First(d) + l, First(d) + m, First(d) + h)
  PROVE  Good(e, kept, m0) /\ IsRotated(d, e, l, m, h)
<1> DEFINE u == First(d)
           z == SizeOf(d)
           lo == u + l
           mid == u + m
           hi == u + h
           f == [p \in lo .. hi - 1 |->
                   Cell(d, IF p + (mid - lo) < hi THEN p + (mid - lo)
                           ELSE p - (hi - mid))]
<1>1. /\ Shaped(d) /\ Owned(d, kept) /\ Filled(d)
      /\ u \in Int /\ Past(d) \in Int /\ z = Past(d) - u /\ z \in Nat
      /\ lo \in Int /\ mid \in Int /\ hi \in Int
      /\ u =< lo /\ lo =< mid /\ mid =< hi /\ hi =< Past(d)
      /\ lo = u + l /\ mid = u + m /\ hi = u + h /\ h =< z
  BY GoodNumbers DEF Good
<1>2. e = Store(d, f) /\ DOMAIN f = lo .. hi - 1
  BY DEF Rotate
<1>3. Rearranged(d, e, kept, m0)
  BY <1>1, RotateGood
<1>4. \A i \in 1 .. z : Contents(d)[i] = Cell(d, u + i - 1)
  BY DEF Contents
<1>5. \A p \in DOMAIN f :
        f[p] = Cell(d, IF p + (mid - lo) < hi THEN p + (mid - lo) ELSE p - (hi - mid))
  BY <1>2
<1> HIDE DEF u, z, lo, mid, hi, f
<1>6. ASSUME NEW p \in DOMAIN f
      PROVE  /\ p \in Int /\ u =< p /\ p < Past(d)
             /\ LET i == p - u + 1
                IN  /\ l < i /\ i =< h
                    /\ f[p] = IF i + (m - l) =< h THEN Contents(d)[i + (m - l)]
                              ELSE Contents(d)[i - (h - m)]
                    /\ f[p] \in Object
  <2> DEFINE i == p - u + 1
             j == IF i + (m - l) =< h THEN i + (m - l) ELSE i - (h - m)
             q == IF p + (mid - lo) < hi THEN p + (mid - lo) ELSE p - (hi - mid)
  <2>1. p \in Int /\ lo =< p /\ p < hi
    BY <1>1, <1>2
  <2>2. u =< p /\ p < Past(d) /\ i \in Int /\ l < i /\ i =< h
    BY <1>1, <2>1
  <2>3. j \in 1 .. z /\ u + j - 1 = q
    BY <1>1, <2>1
  <2>4. f[p] = Cell(d, q)
    BY <1>5
  <2> HIDE DEF j, q
  <2>5. f[p] = Contents(d)[j] /\ f[p] \in Object
    <3>1. Contents(d)[j] = Cell(d, u + j - 1)
      BY <1>4, <2>3
    <3>2. Cell(d, u + j - 1) \in Object
      BY <2>3, ContentsAre DEF u, z
    <3> QED
      BY <2>3, <2>4, <3>1, <3>2
  <2> QED
    BY <2>1, <2>2, <2>5 DEF j
<1>7. /\ SizeOf(e) = z
      /\ \A i \in 1 .. z :
           Contents(e)[i] = IF u + i - 1 \in DOMAIN f THEN f[u + i - 1]
                            ELSE Contents(d)[i]
  <2>1. ASSUME NEW p \in DOMAIN f
        PROVE  p \in Int /\ First(d) =< p /\ p < Past(d) /\ f[p] \in Object
    BY <1>6 DEF u
  <2>2. WritesElements(d, f)
    BY <2>1 DEF WritesElements
  <2>3. e = Store(d, f)
    BY <1>2
  <2>4. ElementsStored(d, f, e)
    BY <1>3, <2>2, <2>3, RearrangedElements
  <2> QED
    BY <2>4 DEF ElementsStored, u, z
<1>8. ASSUME NEW i \in 1 .. z
      PROVE  /\ Addresses(e)[i] = Addresses(d)[i]
             /\ ~(l < i /\ i =< h) => SameElement(d, i, e, i)
             /\ l < i /\ i =< h =>
                  Contents(e)[i] =
                    IF i + (m - l) =< h THEN Contents(d)[i + (m - l)]
                    ELSE Contents(d)[i - (h - m)]
  <2>1. (u + i - 1) - u + 1 = i /\ (u + i - 1 \in DOMAIN f <=> l < i /\ i =< h)
    BY <1>1, <1>2
  <2>2. Addresses(e)[i] = Addresses(d)[i]
    BY <1>3, <1>7 DEF Rearranged, Addresses, z
  <2>3. l < i /\ i =< h =>
          f[u + i - 1] = IF i + (m - l) =< h THEN Contents(d)[i + (m - l)]
                         ELSE Contents(d)[i - (h - m)]
    <3> DEFINE p == u + i - 1
    <3> HIDE DEF p
    <3>1. p \in DOMAIN f => LET k == p - u + 1 IN
            f[p] = IF k + (m - l) =< h THEN Contents(d)[k + (m - l)]
                   ELSE Contents(d)[k - (h - m)]
      BY <1>6
    <3> QED
      BY <2>1, <3>1 DEF p
  <2> QED
    BY <1>7, <2>1, <2>2, <2>3 DEF SameElement
<1> QED
  BY <1>3, <1>7, <1>8 DEF Rearranged, IsRotated, z

\* What was pushed to one end is rotated into place.
LEMMA FrontSplice ==
  ASSUME NEW d, NEW kept, NEW m0, Good(d, kept, m0), NEW g, Good(g, kept, m0),
         NEW xs \in Seq(Object), Prefixed(d, g, xs), NEW index \in 0 .. SizeOf(d),
         NEW e, e = Rotate(g, First(g), First(g) + Len(xs), First(g) + Len(xs) + index)
  PROVE  /\ Good(e, kept, m0)
         /\ MapP!IsSplice(Contents(e), Contents(d), index, xs)
         /\ \A i \in index + 1 .. SizeOf(d) : SameElement(d, i, e, Len(xs) + i)
<1> DEFINE n == Len(xs)
           z == SizeOf(d)
           h == n + index
<1>0. /\ n \in Nat /\ z \in Nat /\ First(g) \in Int /\ SizeOf(g) = z + n
      /\ Len(Contents(d)) = z /\ index \in 0 .. z /\ h = n + index
  BY GoodNumbers, ContentsAre DEF Prefixed
<1> HIDE DEF n, z, h
<1>1. /\ n \in Nat /\ z \in Nat /\ index \in Nat /\ index =< z /\ h \in Nat
      /\ First(g) \in Int /\ SizeOf(g) = z + n /\ n =< h /\ h =< SizeOf(g)
      /\ Len(Contents(d)) = z /\ h = n + index
  BY <1>0
<1>2. /\ First(g) + 0 = First(g) /\ First(g) + n + index = First(g) + h
  BY <1>1
<1>3. e = Rotate(g, First(g) + 0, First(g) + n, First(g) + h)
  BY <1>2 DEF n
<1>4. /\ \A i \in 1 .. n : Contents(g)[i] = xs[i]
      /\ \A i \in 1 .. z : SameElement(d, i, g, n + i)
  BY DEF Prefixed, SameElement, n, z
<1>5. Good(e, kept, m0) /\ IsRotated(g, e, 0, n, h)
  <2>1. 0 \in Nat /\ 0 =< n
    BY <1>1
  <2> QED
    BY <1>1, <1>3, <2>1, RotatedElements
<1>5a. /\ SizeOf(e) = SizeOf(g)
       /\ \A i \in 1 .. SizeOf(g) :
            /\ ~(0 < i /\ i =< h) => SameElement(g, i, e, i)
            /\ 0 < i /\ i =< h =>
                 Contents(e)[i] =
                   IF i + (n - 0) =< h THEN Contents(g)[i + (n - 0)]
                   ELSE Contents(g)[i - (h - n)]
  BY <1>5 DEF IsRotated
<1>6. Len(Contents(e)) = z + n
  BY <1>1, <1>5, <1>5a, ContentsAre
<1>7. ASSUME NEW i \in 1 .. index PROVE Contents(e)[i] = Contents(d)[i]
  <2>1. /\ i \in 1 .. SizeOf(g) /\ 0 < i /\ i =< h /\ i + (n - 0) =< h
        /\ i + (n - 0) = n + i /\ i \in 1 .. z
    BY <1>1
  <2>2. Contents(e)[i] = Contents(g)[n + i]
    BY <1>5a, <2>1
  <2> QED
    BY <1>4, <2>1, <2>2 DEF SameElement
<1>8. ASSUME NEW i \in 1 .. n PROVE Contents(e)[index + i] = xs[i]
  <2>1. /\ index + i \in 1 .. SizeOf(g) /\ 0 < index + i /\ index + i =< h
        /\ ~((index + i) + (n - 0) =< h) /\ (index + i) - (h - n) = i
    BY <1>1
  <2>2. Contents(e)[index + i] = Contents(g)[i]
    BY <1>5a, <2>1
  <2> QED
    BY <1>4, <2>2
<1>9. ASSUME NEW i \in index + 1 .. z PROVE SameElement(d, i, e, n + i)
  <2>1. n + i \in 1 .. SizeOf(g) /\ ~(n + i =< h) /\ i \in 1 .. z
    BY <1>1
  <2>2. SameElement(g, n + i, e, n + i)
    BY <1>5a, <2>1
  <2> QED
    BY <1>4, <2>1, <2>2 DEF SameElement
<1>10. \A i \in index + 1 .. z : Contents(e)[n + i] = Contents(d)[i]
  BY <1>9 DEF SameElement
<1> QED
  BY <1>1, <1>5, <1>6, <1>7, <1>8, <1>9, <1>10 DEF MapP!IsSplice, n, z

LEMMA BackSplice ==
  ASSUME NEW d, NEW kept, NEW m0, Good(d, kept, m0), NEW g, Good(g, kept, m0),
         NEW xs \in Seq(Object), Suffixed(d, g, xs), NEW index \in 0 .. SizeOf(d),
         NEW e, e = Rotate(g, First(g) + index, First(g) + SizeOf(d), Past(g))
  PROVE  /\ Good(e, kept, m0)
         /\ MapP!IsSplice(Contents(e), Contents(d), index, xs)
         /\ \A i \in 1 .. index : SameElement(d, i, e, i)
         /\ \A i \in 1 .. SizeOf(d) : Addresses(e)[i] = Addresses(d)[i]
<1> DEFINE n == Len(xs)
           z == SizeOf(d)
           h == z + n
<1>0. /\ n \in Nat /\ z \in Nat /\ First(g) \in Int /\ Past(g) \in Int
      /\ SizeOf(g) = Past(g) - First(g) /\ SizeOf(g) = z + n
      /\ Len(Contents(d)) = z /\ index \in 0 .. z /\ h = z + n
  BY GoodNumbers, ContentsAre DEF Suffixed
<1> HIDE DEF n, z, h
<1>1. /\ n \in Nat /\ z \in Nat /\ index \in Nat /\ index =< z /\ h \in Nat
      /\ First(g) \in Int /\ Past(g) \in Int /\ SizeOf(g) = Past(g) - First(g)
      /\ SizeOf(g) = h /\ z =< h /\ h = z + n
      /\ Len(Contents(d)) = z
  BY <1>0
<1>2. Past(g) = First(g) + h
  BY <1>1
<1>3. e = Rotate(g, First(g) + index, First(g) + z, First(g) + h)
  BY <1>2 DEF z
<1>4. /\ \A i \in 1 .. n : Contents(g)[z + i] = xs[i]
      /\ \A i \in 1 .. z : SameElement(d, i, g, i)
  BY DEF Suffixed, n, z
<1>5. Good(e, kept, m0) /\ IsRotated(g, e, index, z, h)
  <2>1. h =< SizeOf(g)
    BY <1>1
  <2> QED
    BY <1>1, <1>3, <2>1, RotatedElements
<1>5a. /\ SizeOf(e) = SizeOf(g)
       /\ \A i \in 1 .. SizeOf(g) :
            /\ ~(index < i /\ i =< h) => SameElement(g, i, e, i)
            /\ index < i /\ i =< h =>
                 Contents(e)[i] =
                   IF i + (z - index) =< h THEN Contents(g)[i + (z - index)]
                   ELSE Contents(g)[i - (h - z)]
  BY <1>5 DEF IsRotated
<1>6. Len(Contents(e)) = z + n
  BY <1>1, <1>5, <1>5a, ContentsAre
<1>7. ASSUME NEW i \in 1 .. index PROVE SameElement(d, i, e, i)
  <2>1. i \in 1 .. SizeOf(g) /\ ~(index < i) /\ i \in 1 .. z
    BY <1>1
  <2>2. SameElement(g, i, e, i)
    BY <1>5a, <2>1
  <2> QED
    BY <1>4, <2>1, <2>2 DEF SameElement
<1>8. ASSUME NEW i \in 1 .. n PROVE Contents(e)[index + i] = xs[i]
  <2>1. /\ index + i \in 1 .. SizeOf(g) /\ index < index + i /\ index + i =< h
        /\ (index + i) + (z - index) =< h /\ (index + i) + (z - index) = z + i
    BY <1>1
  <2>2. Contents(e)[index + i] = Contents(g)[z + i]
    BY <1>5a, <2>1
  <2> QED
    BY <1>4, <2>2
<1>9. ASSUME NEW i \in index + 1 .. z PROVE Contents(e)[n + i] = Contents(d)[i]
  <2>1. /\ n + i \in 1 .. SizeOf(g) /\ index < n + i /\ n + i =< h
        /\ ~((n + i) + (z - index) =< h) /\ (n + i) - (h - z) = i /\ i \in 1 .. z
    BY <1>1
  <2>2. Contents(e)[n + i] = Contents(g)[i]
    BY <1>5a, <2>1
  <2> QED
    BY <1>4, <2>1, <2>2 DEF SameElement
<1>10. \A i \in 1 .. index : Contents(e)[i] = Contents(d)[i]
  BY <1>7 DEF SameElement
<1>11. \A i \in 1 .. z : Addresses(e)[i] = Addresses(d)[i]
  <2>1. \A i \in 1 .. z : i \in 1 .. SizeOf(g)
    BY <1>1
  <2> QED
    BY <1>4, <1>5, <2>1 DEF IsRotated, SameElement
<1>12. \A i \in 1 .. SizeOf(d) : Addresses(e)[i] = Addresses(d)[i]
  BY <1>11 DEF z
<1> QED
  BY <1>1, <1>5, <1>6, <1>7, <1>8, <1>9, <1>10, <1>12 DEF MapP!IsSplice, n, z

-----------------------------------------------------------------------------
\* Insertion

\* Nothing in front of, or behind, what is inserted at an end.
LEMMA PrefixedIsSplice ==
  ASSUME NEW d, NEW kept, NEW m0, Good(d, kept, m0), NEW e, Good(e, kept, m0),
         NEW xs \in Seq(Object), Prefixed(d, e, xs)
  PROVE  /\ MapP!IsSplice(Contents(e), Contents(d), 0, xs)
         /\ \A i \in 1 .. SizeOf(d) : SameElement(d, i, e, Len(xs) + i)
<1> DEFINE n == Len(xs)
           z == SizeOf(d)
<1>1. /\ n \in Nat /\ z \in Nat /\ Len(Contents(d)) = z /\ Len(Contents(e)) = z + n
      /\ \A i \in 1 .. n : Contents(e)[i] = xs[i]
      /\ \A i \in 1 .. z : SameElement(d, i, e, n + i)
  BY ContentsAre DEF Prefixed
<1>2. \A i \in 1 .. z : Contents(e)[n + i] = Contents(d)[i]
  BY <1>1 DEF SameElement
<1> HIDE DEF n, z
<1>3. /\ \A i \in 1 .. n : 0 + i = i
      /\ 1 .. 0 = {} /\ 0 + 1 = 1
  BY <1>1
<1> QED
  BY <1>1, <1>2, <1>3 DEF MapP!IsSplice, n, z

LEMMA SuffixedIsSplice ==
  ASSUME NEW d, NEW kept, NEW m0, Good(d, kept, m0), NEW e, Good(e, kept, m0),
         NEW xs \in Seq(Object), Suffixed(d, e, xs)
  PROVE  /\ MapP!IsSplice(Contents(e), Contents(d), SizeOf(d), xs)
         /\ \A i \in 1 .. SizeOf(d) : SameElement(d, i, e, i)
<1> DEFINE n == Len(xs)
           z == SizeOf(d)
<1>1. /\ n \in Nat /\ z \in Nat /\ Len(Contents(d)) = z /\ Len(Contents(e)) = z + n
      /\ \A i \in 1 .. n : Contents(e)[z + i] = xs[i]
      /\ \A i \in 1 .. z : SameElement(d, i, e, i)
  BY ContentsAre DEF Suffixed
<1>2. \A i \in 1 .. z : Contents(e)[i] = Contents(d)[i]
  BY <1>1 DEF SameElement
<1> HIDE DEF n, z
<1>3. z + 1 .. z = {}
  BY <1>1
<1> QED
  BY <1>1, <1>2, <1>3 DEF MapP!IsSplice, n, z

\* emplace
LEMMA EmplaceSplices ==
  ASSUME NEW d, NEW kept, NEW m0, Good(d, kept, m0), Divides, NEW x \in Object,
         NEW index \in 0 .. SizeOf(d), EmplaceOk(d, index)
  PROVE  /\ Good(Emplace(d, index, x), kept, m0)
         /\ MapP!IsSplice(Contents(Emplace(d, index, x)), Contents(d), index, <<x>>)
<1>0. /\ SizeOf(d) \in Nat /\ index \in Int
      /\ <<x>> \in Seq(Object) /\ Len(<<x>>) = 1
  BY GoodNumbers
<1>1. CASE EmplaceAtBack(d, index)
  <2> DEFINE e == EmplaceBack(d, x)
  <2>1. EmplaceBackOk(d)
    BY <1>1 DEF EmplaceOk
  <2>2. Good(e, kept, m0) /\ Suffixed(d, e, <<x>>)
    BY <2>1, EmplaceBackGood, EmplaceBackSuffixed DEF PushedBack
  <2>3. CASE index = SizeOf(d)
    <3> HIDE DEF e
    <3>1. MapP!IsSplice(Contents(e), Contents(d), index, <<x>>)
      BY <1>0, <2>2, <2>3, SuffixedIsSplice
    <3> QED
      BY <2>2, <2>3, <3>1 DEF Emplace, e
  <2>4. CASE index # SizeOf(d)
    <3>1. Emplace(d, index, x) = Rotate(e, First(e) + index, Past(e) - 1, Past(e))
      BY <1>0, <1>1, <2>4 DEF Emplace, EmplaceAtBack, EmplaceNearBack
    <3> HIDE DEF e
    <3>2. SizeOf(e) = SizeOf(d) + 1 /\ SizeOf(e) = Past(e) - First(e)
          /\ First(e) \in Int /\ Past(e) \in Int
      BY <1>0, <2>2, GoodNumbers DEF Suffixed
    <3>3. Past(e) - 1 = First(e) + SizeOf(d)
      BY <1>0, <3>2
    <3> QED
      BY <1>0, <2>2, <3>1, <3>3, BackSplice
  <2> QED
    BY <2>3, <2>4
<1>2. CASE ~EmplaceAtBack(d, index)
  <2> DEFINE e == EmplaceFront(d, x)
  <2>1. EmplaceFrontOk(d)
    BY <1>2 DEF EmplaceOk
  <2>2. Good(e, kept, m0) /\ Prefixed(d, e, <<x>>)
    BY <2>1, EmplaceFrontGood, EmplaceFrontPrefixed DEF PushedFront
  <2>3. CASE index = 0
    <3> HIDE DEF e
    <3>1. MapP!IsSplice(Contents(e), Contents(d), index, <<x>>)
      BY <1>0, <2>2, <2>3, PrefixedIsSplice
    <3> QED
      BY <1>2, <2>2, <2>3, <3>1 DEF Emplace, EmplaceAtBack, e
  <2>4. CASE index # 0
    <3>1. Emplace(d, index, x) = Rotate(e, First(e), First(e) + 1, First(e) + index + 1)
      BY <1>0, <1>2, <2>4 DEF Emplace, EmplaceAtBack, EmplaceNearFront
    <3> HIDE DEF e
    <3>2. First(e) \in Int
      BY <2>2, GoodNumbers
    <3>3. First(e) + index + 1 = First(e) + Len(<<x>>) + index
      BY <1>0, <3>2
    <3>4. First(e) + 1 = First(e) + Len(<<x>>)
      BY <1>0
    <3> QED
      BY <1>0, <2>2, <3>1, <3>3, <3>4, FrontSplice
  <2> QED
    BY <2>3, <2>4
<1> QED
  BY <1>1, <1>2

\* Every element of d is one of e, at the same address.
AllStay(d, e) ==
  \A i \in 1 .. SizeOf(d) : \E j \in 1 .. SizeOf(e) : SameElement(d, i, e, j)

LEMMA ShiftedStay ==
  ASSUME NEW d, NEW e, NEW n \in Nat, SizeOf(d) \in Nat, SizeOf(e) \in Nat,
         SizeOf(e) >= SizeOf(d) + n,
         \A i \in 1 .. SizeOf(d) : SameElement(d, i, e, n + i)
  PROVE  AllStay(d, e)
<1>1. ASSUME NEW i \in 1 .. SizeOf(d)
      PROVE  \E j \in 1 .. SizeOf(e) : SameElement(d, i, e, j)
  <2>1. n + i \in 1 .. SizeOf(e)
    OBVIOUS
  <2> QED
    BY <2>1
<1> QED
  BY <1>1 DEF AllStay

\* insert(pos, first, last).  At the end, and where there is nothing to insert, all
\* elements stay where they are.
LEMMA InsertRangeSplices ==
  ASSUME NEW d, NEW kept, NEW m0, Good(d, kept, m0), Divides, NEW xs \in Seq(Object),
         NEW index \in 0 .. SizeOf(d), NEW bidirectional,
         NEW e \in InsertRange(d, index, xs, bidirectional)
  PROVE  /\ Good(e, kept, m0)
         /\ MapP!IsSplice(Contents(e), Contents(d), index, xs)
         /\ index = SizeOf(d) \/ (index = 0 /\ Len(xs) = 0) => AllStay(d, e)
<1> DEFINE n == Len(xs)
<1>0. n \in Nat /\ n \in 0 .. Len(xs) /\ SizeOf(d) \in Nat /\ index \in Nat
  BY GoodNumbers
<1> HIDE DEF n
<1>1. CASE bidirectional /\ ~PreferBack(d, index)
  <2>1. PICK g \in PushFront(d, xs)[n] :
          e = Rotate(g, First(g), First(g) + n, First(g) + n + index)
    BY <1>1 DEF InsertRange, InsertNearFront, n
  <2>2. Good(g, kept, m0) /\ Prefixed(d, g, LastPart(xs, n))
    BY <1>0, <2>1, PushFrontPrefixed
  <2>3. Prefixed(d, g, xs)
    BY <2>2, WholeParts DEF n
  <2>4. /\ Good(e, kept, m0) /\ MapP!IsSplice(Contents(e), Contents(d), index, xs)
        /\ \A i \in index + 1 .. SizeOf(d) : SameElement(d, i, e, n + i)
    BY <2>1, <2>2, <2>3, FrontSplice DEF n
  <2>5. index # SizeOf(d)
    BY <1>0, <1>1 DEF PreferBack
  <2>6. index = 0 => AllStay(d, e)
    <3>1. SizeOf(e) = SizeOf(d) + n /\ SizeOf(e) \in Nat
      BY <2>4, ContentsAre DEF MapP!IsSplice, n
    <3>2. SUFFICES ASSUME index = 0 PROVE AllStay(d, e)
      OBVIOUS
    <3>3. index + 1 = 1
      BY <3>2
    <3>4. \A i \in 1 .. SizeOf(d) : SameElement(d, i, e, n + i)
      BY <2>4, <3>3
    <3> QED
      BY <1>0, <3>1, <3>4, ShiftedStay
  <2> QED
    BY <2>4, <2>5, <2>6
<1>2. CASE ~(bidirectional /\ ~PreferBack(d, index))
  <2>1. PICK g \in PushBack(d, xs)[n] :
          e = Rotate(g, First(g) + index, First(g) + SizeOf(d), Past(g))
    BY <1>2, InsertNearBackIs DEF InsertRange, n
  <2>2. Good(g, kept, m0) /\ Suffixed(d, g, FirstPart(xs, n))
    BY <1>0, <2>1, PushBackSuffixed
  <2>3. Suffixed(d, g, xs)
    BY <2>2, WholeParts DEF n
  <2>4. /\ Good(e, kept, m0) /\ MapP!IsSplice(Contents(e), Contents(d), index, xs)
        /\ \A i \in 1 .. index : SameElement(d, i, e, i)
        /\ \A i \in 1 .. SizeOf(d) : Addresses(e)[i] = Addresses(d)[i]
    BY <2>1, <2>2, <2>3, BackSplice
  <2>5. SizeOf(e) = SizeOf(d) + n /\ SizeOf(e) \in Nat /\ Len(Contents(d)) = SizeOf(d)
        /\ \A i \in index + 1 .. SizeOf(d) : Contents(e)[n + i] = Contents(d)[i]
    BY <2>4, ContentsAre DEF MapP!IsSplice, n
  <2>6. ASSUME index = SizeOf(d) \/ (index = 0 /\ n = 0),
               NEW i \in 1 .. SizeOf(d)
        PROVE  SameElement(d, i, e, 0 + i)
    <3>1. CASE index = SizeOf(d)
      BY <2>4, <3>1
    <3>2. CASE index = 0 /\ n = 0
      <4>1. i \in index + 1 .. SizeOf(d) /\ n + i = i /\ 0 + i = i
        BY <1>0, <3>2
      <4> QED
        BY <2>4, <2>5, <4>1 DEF SameElement
    <3> QED
      BY <2>6, <3>1, <3>2
  <2>7. index = SizeOf(d) \/ (index = 0 /\ n = 0) => AllStay(d, e)
    <3>1. SizeOf(e) >= SizeOf(d) + 0 /\ 0 \in Nat
      BY <1>0, <2>5
    <3> QED
      BY <1>0, <2>5, <2>6, <3>1, ShiftedStay
  <2> QED
    BY <2>4, <2>7 DEF n
<1> QED
  BY <1>1, <1>2

\* The element that x is a reference to, in its segment
LEMMA ReferenceIs ==
  ASSUME NEW d, NEW kept, NEW m0, Good(d, kept, m0), NEW i \in 1 .. SizeOf(d)
  PROVE  \E a \in MapSlots(d), j \in Indices :
           /\ Within(d, a, j) /\ Addresses(d)[i] = <<d.map.slots[a], j>>
           /\ ObjectAt(d, d.map.slots[a], j) = Contents(d)[i]
<1> DEFINE p == First(d) + i - 1
           a == p \div SegmentSize
           j == p % SegmentSize
<1>1. /\ Shaped(d) /\ First(d) \in Int /\ Past(d) \in Int
      /\ SizeOf(d) = Past(d) - First(d) /\ SizeOf(d) \in Nat
      /\ d.map.front * SegmentSize \in Int /\ d.map.back * SegmentSize \in Int
      /\ d.map.front * SegmentSize =< First(d) /\ Past(d) =< d.map.back * SegmentSize
  BY GoodNumbers, ShapedNumbers DEF Shaped, Bounded
<1>2. /\ p \in Int /\ First(d) =< p /\ p < Past(d)
      /\ d.map.front * SegmentSize =< p /\ p < d.map.back * SegmentSize
  BY <1>1
<1>3. Addresses(d)[i] = <<d.map.slots[a], j>> /\ Contents(d)[i] = Cell(d, p)
  BY DEF Addresses, Contents
<1> HIDE DEF p
<1>4. /\ a \in MapSlots(d) /\ j \in Indices /\ Within(d, a, j)
      /\ Cell(d, p) = d.mem[d.map.slots[a]][j]
  BY <1>1, <1>2, SlotAt
<1> QED
  BY <1>3, <1>4 DEF ObjectAt

\* As long as objects only grow at the ends, the reference names the same value.
LEMMA ReferenceStays ==
  ASSUME NEW d, NEW e, NEW f, NEW b, Grown(d, e, f, b),
         NEW a \in MapSlots(d), NEW i \in Indices, Within(d, a, i)
  PROVE  ObjectAt(e, d.map.slots[a], i) = ObjectAt(d, d.map.slots[a], i)
  BY DEF Grown, ObjectAt

\* insert(pos, n, x) with x one of the elements: what is inserted has the value that
\* this element had at the call.
LEMMA InsertAliasedSplices ==
  ASSUME NEW d, NEW kept, NEW m0, Good(d, kept, m0), Divides, NEW n \in Nat,
         NEW index \in 0 .. SizeOf(d), NEW i \in 1 .. SizeOf(d),
         NEW e \in InsertAliased(d, index, n, i)
  PROVE  /\ Good(e, kept, m0)
         /\ MapP!IsSplice(Contents(e), Contents(d), index, Copies(n, Contents(d)[i]))
<1>1. PICK a \in MapSlots(d), j \in Indices :
        /\ Within(d, a, j) /\ Addresses(d)[i] = <<d.map.slots[a], j>>
        /\ ObjectAt(d, d.map.slots[a], j) = Contents(d)[i]
  BY ReferenceIs
<1> DEFINE s == d.map.slots[a]
           x == Contents(d)[i]
           xs == Copies(n, x)
<1>2. x \in Object
  BY ContentsAre
<1> HIDE DEF s, x
<1>3. xs \in Seq(Object) /\ Len(xs) = n /\ \A k \in 1 .. n : xs[k] = x
  BY <1>2, CopiesAre DEF Copies
<1> HIDE DEF xs
<1>4. ASSUME NEW h, NEW f, NEW b, Grown(d, h, f, b) PROVE ObjectAt(h, s, j) = x
  BY <1>1, <1>4, ReferenceStays DEF s, x
<1>5. CASE PreferBack(d, index)
  <2> DEFINE g == AliasedBack(d, n, s, j)
  <2>1. PICK h \in g[n] : e = Rotate(h, First(h) + index, First(h) + SizeOf(d), Past(h))
    BY <1>1, <1>5, InsertAliasedIs DEF s
  <2>2. g[0] = {d} /\ \A k \in 1 .. n : AliasedBackStep(g, k, s, j)
    BY AliasedBackSteps
  <2> HIDE DEF g
  <2>3. ASSUME NEW k \in 1 .. n, NEW u \in g[k]
        PROVE  \E v \in g[k - 1] :
                 /\ EmplaceBackOk(v)
                 /\ Good(v, kept, m0) /\ Grown(d, v, 0, k - 1) =>
                      u = EmplaceBack(v, xs[k])
    <3>1. PICK v \in g[k - 1] : EmplaceBackOk(v) /\ u = EmplaceBack(v, ObjectAt(v, s, j))
      BY <2>2 DEF AliasedBackStep
    <3> QED
      BY <1>3, <1>4, <3>1
  <2>4. PushedBehind(d, kept, m0, xs, g)
    BY <1>3, <2>2, <2>3 DEF PushedBehind
  <2>5. n \in 0 .. Len(xs)
    BY <1>3
  <2>6. Good(h, kept, m0) /\ Suffixed(d, h, FirstPart(xs, n))
    BY <1>3, <2>1, <2>4, <2>5, PushesSuffix
  <2>7. Suffixed(d, h, xs)
    BY <1>3, <2>6, WholeParts
  <2> QED
    BY <1>3, <2>1, <2>6, <2>7, BackSplice DEF xs, x
<1>6. CASE ~PreferBack(d, index)
  <2> DEFINE g == AliasedFront(d, n, s, j)
  <2>1. PICK h \in g[n] : e = Rotate(h, First(h), First(h) + n, First(h) + n + index)
    BY <1>1, <1>6, InsertAliasedIs DEF s
  <2>2. g[0] = {d} /\ \A k \in 1 .. n : AliasedFrontStep(g, k, s, j)
    BY AliasedFrontSteps
  <2> HIDE DEF g
  <2>3. ASSUME NEW k \in 1 .. n, NEW u \in g[k]
        PROVE  \E v \in g[k - 1] :
                 /\ EmplaceFrontOk(v)
                 /\ Good(v, kept, m0) /\ Grown(d, v, k - 1, 0) =>
                      u = EmplaceFront(v, xs[Len(xs) - k + 1])
    <3>1. PICK v \in g[k - 1] : EmplaceFrontOk(v) /\ u = EmplaceFront(v, ObjectAt(v, s, j))
      BY <2>2 DEF AliasedFrontStep
    <3>2. xs[Len(xs) - k + 1] = x
      BY <1>3
    <3> QED
      BY <1>4, <3>1, <3>2
  <2>4. PushedInFront(d, kept, m0, xs, g)
    BY <1>3, <2>2, <2>3 DEF PushedInFront
  <2>5. n \in 0 .. Len(xs)
    BY <1>3
  <2>6. Good(h, kept, m0) /\ Prefixed(d, h, LastPart(xs, n))
    BY <1>3, <2>1, <2>4, <2>5, PushesPrefix
  <2>7. Prefixed(d, h, xs)
    BY <1>3, <2>6, WholeParts
  <2> QED
    BY <1>3, <2>1, <2>6, <2>7, FrontSplice DEF xs, x
<1> QED
  BY <1>5, <1>6

-----------------------------------------------------------------------------
\* Fewer segments, resizing, erasure

\* Segments without elements leave the map.
LEMMA DroppedUnmoved ==
  ASSUME NEW d, NEW kept, NEW m0, Good(d, kept, m0), NEW e, Dropped(d, e)
  PROVE  Good(e, kept, m0) /\ Unmoved(d, e)
<1>1. /\ Good(e, kept, m0) /\ First(e) = First(d) /\ Past(e) = Past(d)
      /\ Shaped(d) /\ Shaped(e)
  BY DroppedGood DEF Good
<1>2. /\ First(d) \in Int /\ Past(d) \in Int /\ SizeOf(d) = Past(d) - First(d)
      /\ SizeOf(e) = SizeOf(d) /\ SizeOf(d) \in Nat
  BY <1>1, GoodNumbers
<1>3. /\ d.map.front * SegmentSize \in Int /\ d.map.back * SegmentSize \in Int
      /\ d.map.front * SegmentSize =< First(d) /\ Past(d) =< d.map.back * SegmentSize
      /\ e.map.front * SegmentSize \in Int /\ e.map.back * SegmentSize \in Int
      /\ e.map.front * SegmentSize =< First(d) /\ Past(d) =< e.map.back * SegmentSize
  BY <1>1, ShapedNumbers DEF Shaped, Bounded
<1>4. ASSUME NEW i \in 1 .. SizeOf(d) PROVE SameElement(d, i, e, i)
  <2> DEFINE p == First(d) + i - 1
             a == p \div SegmentSize
  <2>1. /\ p \in Int
        /\ d.map.front * SegmentSize =< p /\ p < d.map.back * SegmentSize
        /\ e.map.front * SegmentSize =< p /\ p < e.map.back * SegmentSize
    BY <1>2, <1>3
  <2>2. /\ Contents(d)[i] = Cell(d, p) /\ Contents(e)[i] = Cell(e, p)
        /\ Addresses(d)[i] = <<d.map.slots[a], p % SegmentSize>>
        /\ Addresses(e)[i] = <<e.map.slots[a], p % SegmentSize>>
    BY <1>1, <1>2 DEF Contents, Addresses
  <2> HIDE DEF p
  <2>3. /\ Cell(d, p) = d.mem[d.map.slots[a]][p % SegmentSize]
        /\ Cell(e, p) = e.mem[e.map.slots[a]][p % SegmentSize]
        /\ a \in MapSlots(e)
    BY <1>1, <2>1, SlotAt
  <2>4. e.map.slots[a] = d.map.slots[a] /\ e.mem = d.mem
    BY <2>3 DEF Dropped
  <2> QED
    BY <2>2, <2>3, <2>4 DEF SameElement
<1> QED
  BY <1>1, <1>2, <1>4 DEF Unmoved

LEMMA UnmovedTwice ==
  ASSUME NEW d, NEW e, NEW g, Unmoved(d, e), Unmoved(e, g)
  PROVE  Unmoved(d, g)
  BY DEF Unmoved, SameElement

\* shrink_to_fit
LEMMA ShrinkToFitUnmoved ==
  ASSUME NEW d, NEW kept, NEW m0, Good(d, kept, m0)
  PROVE  Good(ShrinkToFit(d), kept, m0) /\ Unmoved(d, ShrinkToFit(d))
<1>1. PICK e : Good(e, kept, m0) /\ Dropped(d, e) /\ Dropped(e, ShrinkToFit(d))
  BY ShrinkToFitGood
<1> QED
  BY <1>1, DroppedUnmoved, UnmovedTwice

\* An object whose elements are where they were
LEMMA UnmovedContents ==
  ASSUME NEW d, NEW e, Unmoved(d, e)
  PROVE  Contents(e) = Contents(d) /\ Addresses(e) = Addresses(d)
<1>1. SizeOf(e) = SizeOf(d)
  BY DEF Unmoved
<1>2. \A i \in 1 .. SizeOf(d) :
        Contents(e)[i] = Contents(d)[i] /\ Addresses(e)[i] = Addresses(d)[i]
  BY DEF Unmoved, SameElement
<1>3. /\ Contents(d) = [i \in 1 .. SizeOf(d) |-> Contents(d)[i]]
      /\ Contents(e) = [i \in 1 .. SizeOf(d) |-> Contents(e)[i]]
      /\ Addresses(d) = [i \in 1 .. SizeOf(d) |-> Addresses(d)[i]]
      /\ Addresses(e) = [i \in 1 .. SizeOf(d) |-> Addresses(e)[i]]
  BY <1>1 DEF Contents, Addresses
<1> QED
  BY <1>2, <1>3

\* Popped again: what was pushed to the front before a push threw
LEMMA ResizeFrontThrewUnmoved ==
  ASSUME NEW d, NEW kept, NEW m0, Good(d, kept, m0), Divides, NEW sz \in Nat,
         sz > SizeOf(d), NEW x \in Object, NEW e \in ResizeFrontThrew(d, sz, x)
  PROVE  Good(e, kept, m0) /\ Unmoved(d, e)
<1> DEFINE xs == Copies(sz - SizeOf(d), x)
           z == SizeOf(d)
<1>0. z \in Nat
  BY GoodNumbers
<1>1. xs \in Seq(Object)
  <2>1. sz - SizeOf(d) \in Nat
    BY <1>0
  <2> QED
    BY <2>1, CopiesAre
<1>2. PICK h \in PushFrontThrew(d, xs) : e = EraseAtBegin(h, SizeOf(h) - SizeOf(d))
  BY DEF ResizeFrontThrew
<1> HIDE DEF xs
<1>3. PICK k \in 0 .. Len(xs) - 1 : Good(h, kept, m0) /\ Prefixed(d, h, LastPart(xs, k))
  BY <1>1, PushFrontThrewPrefixed
<1>4. k \in Nat /\ Len(LastPart(xs, k)) = k
  <2>1. k \in 0 .. Len(xs)
    BY <1>1
  <2> QED
    BY <1>1, <2>1, PartsAre
<1>5. SizeOf(h) = z + k /\ \A i \in 1 .. z : SameElement(d, i, h, k + i)
  BY <1>3, <1>4 DEF Prefixed
<1> HIDE DEF z
<1>6. SizeOf(h) - z = k /\ k =< SizeOf(h)
  BY <1>0, <1>4, <1>5
<1>7. Good(e, kept, m0) /\ SizeOf(e) = SizeOf(h) - k /\ PartOf(h, e, k)
  <2>1. e = EraseAtBegin(h, k)
    BY <1>2, <1>6 DEF z
  <2> QED
    BY <1>3, <1>4, <1>6, <2>1, EraseAtBeginElements
<1>8. SizeOf(e) = z
  BY <1>0, <1>4, <1>5, <1>7
<1>9. \A i \in 1 .. z : SameElement(h, k + i, e, i)
  BY <1>7, <1>8 DEF PartOf
<1> QED
  BY <1>5, <1>7, <1>8, <1>9 DEF Unmoved, SameElement, z

LEMMA ResizeBackThrewUnmoved ==
  ASSUME NEW d, NEW kept, NEW m0, Good(d, kept, m0), Divides, NEW sz \in Nat,
         sz > SizeOf(d), NEW x \in Object, NEW e \in ResizeBackThrew(d, sz, x)
  PROVE  Good(e, kept, m0) /\ Unmoved(d, e)
<1> DEFINE xs == Copies(sz - SizeOf(d), x)
           z == SizeOf(d)
<1>0. z \in Nat
  BY GoodNumbers
<1>1. xs \in Seq(Object)
  <2>1. sz - SizeOf(d) \in Nat
    BY <1>0
  <2> QED
    BY <2>1, CopiesAre
<1>2. PICK h \in PushBackThrew(d, xs) : e = EraseAtEnd(h, z)
  BY DEF ResizeBackThrew
<1> HIDE DEF xs
<1>3. PICK k \in 0 .. Len(xs) - 1 : Good(h, kept, m0) /\ Suffixed(d, h, FirstPart(xs, k))
  BY <1>1, PushBackThrewSuffixed
<1>4. k \in Nat /\ Len(FirstPart(xs, k)) = k
  <2>1. k \in 0 .. Len(xs)
    BY <1>1
  <2> QED
    BY <1>1, <2>1, PartsAre
<1>5. SizeOf(h) = z + k /\ \A i \in 1 .. z : SameElement(d, i, h, i)
  BY <1>3, <1>4 DEF Suffixed
<1> HIDE DEF z
<1>6. z =< SizeOf(h)
  BY <1>0, <1>4, <1>5
<1>7. Good(e, kept, m0) /\ SizeOf(e) = z /\ PartOf(h, e, 0)
  BY <1>0, <1>2, <1>3, <1>6, EraseAtEndElements
<1>8. \A i \in 1 .. z : SameElement(h, i, e, i)
  <2>1. \A i \in 1 .. z : SameElement(h, 0 + i, e, i) /\ 0 + i = i
    BY <1>0, <1>7 DEF PartOf
  <2> QED
    BY <2>1
<1> QED
  BY <1>5, <1>7, <1>8 DEF Unmoved, SameElement, z

\* e holds d's elements, those at l + 1 .. h moved to the places from t + 1 on.
IsSlid(d, e, l, h, t) ==
  /\ SizeOf(e) = SizeOf(d)
  /\ \A i \in 1 .. SizeOf(d) :
       /\ t < i /\ i =< t + (h - l) => Contents(e)[i] = Contents(d)[i - t + l]
       /\ ~(t < i /\ i =< t + (h - l)) /\ ~(l < i /\ i =< h) =>
            Contents(e)[i] = Contents(d)[i]

LEMMA SlidElements ==
  ASSUME NEW d, NEW kept, NEW m0, Good(d, kept, m0), SelfMoveKeeps,
         NEW l \in Nat, NEW h \in Nat, NEW t \in Nat, l =< h, h =< SizeOf(d),
         t + (h - l) =< SizeOf(d),
         NEW e, e = Slide(d, First(d) + l, First(d) + h, First(d) + t)
  PROVE  Good(e, kept, m0) /\ IsSlid(d, e, l, h, t)
<1> DEFINE u == First(d)
           z == SizeOf(d)
           lo == u + l
           hi == u + h
           at == u + t
           f == [p \in (lo .. hi - 1) \cup (at .. at + (hi - lo) - 1) |->
                   IF at = lo THEN IF SelfMoveKeeps THEN Cell(d, p) ELSE Unspec
                   ELSE IF at =< p /\ p < at + (hi - lo) THEN Cell(d, p - at + lo)
                   ELSE Unspec]
<1>1. /\ Shaped(d) /\ Owned(d, kept) /\ Filled(d)
      /\ u \in Int /\ Past(d) \in Int /\ z = Past(d) - u /\ z \in Nat
      /\ lo \in Int /\ hi \in Int /\ at \in Int
      /\ u =< lo /\ lo =< hi /\ hi =< Past(d) /\ u =< at /\ at + (hi - lo) =< Past(d)
      /\ lo = u + l /\ hi = u + h /\ at = u + t /\ h =< z
  BY GoodNumbers DEF Good
<1>2. e = Store(d, f) /\ DOMAIN f = (lo .. hi - 1) \cup (at .. at + (hi - lo) - 1)
  BY DEF Slide
<1>3. Rearranged(d, e, kept, m0)
  BY <1>1, SlideGood
<1>4. \A i \in 1 .. z : Contents(d)[i] = Cell(d, u + i - 1)
  BY DEF Contents
<1>5. \A p \in DOMAIN f :
        f[p] = IF at = lo THEN Cell(d, p)
               ELSE IF at =< p /\ p < at + (hi - lo) THEN Cell(d, p - at + lo)
               ELSE Unspec
  BY <1>2
<1> HIDE DEF u, z, lo, hi, at, f
<1>6. ASSUME NEW p \in Int, at =< p, p < at + (hi - lo)
      PROVE  p \in DOMAIN f /\ f[p] = Cell(d, p - at + lo)
  <2>1. p \in DOMAIN f
    BY <1>1, <1>2, <1>6
  <2>2. at = lo => p - at + lo = p
    BY <1>1
  <2> QED
    BY <1>5, <1>6, <2>1, <2>2
<1>7. ASSUME NEW p \in Int, u =< p, p < Past(d) PROVE Cell(d, p) \in Object
  BY <1>1, <1>7, ElementObject DEF u
<1>8. WritesElements(d, f)
  <2>1. ASSUME NEW p \in DOMAIN f
        PROVE  p \in Int /\ u =< p /\ p < Past(d) /\ f[p] \in Object
    <3>1. p \in Int /\ u =< p /\ p < Past(d)
      BY <1>1, <1>2
    <3>2. CASE at =< p /\ p < at + (hi - lo)
      <4> DEFINE q == p - at + lo
      <4>1. q \in Int /\ u =< q /\ q < Past(d)
        BY <1>1, <3>1, <3>2
      <4>2. f[p] = Cell(d, q)
        BY <1>6, <3>1, <3>2
      <4> HIDE DEF q
      <4> QED
        BY <1>7, <3>1, <4>1, <4>2
    <3>3. CASE ~(at =< p /\ p < at + (hi - lo))
      <4>1. at # lo
        BY <1>1, <1>2, <3>3
      <4>2. f[p] = Unspec
        BY <1>5, <3>3, <4>1
      <4> QED
        BY <3>1, <4>2 DEF Object
    <3> QED
      BY <3>2, <3>3
  <2> QED
    BY <2>1 DEF WritesElements, u
<1>9. e = Store(d, f)
  BY <1>2
<1>10. ElementsStored(d, f, e)
  BY <1>3, <1>8, <1>9, RearrangedElements
<1>11. /\ SizeOf(e) = z
       /\ \A i \in 1 .. z :
            Contents(e)[i] = IF u + i - 1 \in DOMAIN f THEN f[u + i - 1]
                             ELSE Contents(d)[i]
  BY <1>10 DEF ElementsStored, u, z
<1>12. ASSUME NEW i \in 1 .. z, t < i, i =< t + (h - l)
       PROVE  Contents(e)[i] = Contents(d)[i - t + l]
  <2> DEFINE p == u + i - 1
             j == i - t + l
  <2>1. /\ p \in Int /\ at =< p /\ p < at + (hi - lo)
        /\ j \in 1 .. z /\ u + j - 1 = p - at + lo
    BY <1>1, <1>12
  <2>2. Contents(e)[i] = IF p \in DOMAIN f THEN f[p] ELSE Contents(d)[i]
    BY <1>11
  <2> HIDE DEF p, j
  <2>3. Contents(e)[i] = Cell(d, p - at + lo)
    BY <1>6, <2>1, <2>2
  <2>4. Contents(d)[j] = Cell(d, u + j - 1)
    BY <1>4, <2>1
  <2> QED
    BY <2>1, <2>3, <2>4 DEF j
<1>13. ASSUME NEW i \in 1 .. z, ~(t < i /\ i =< t + (h - l)), ~(l < i /\ i =< h)
       PROVE  Contents(e)[i] = Contents(d)[i]
  <2>1. u + i - 1 \notin DOMAIN f
    BY <1>1, <1>2, <1>13
  <2> QED
    BY <1>11, <2>1
<1> QED
  BY <1>3, <1>11, <1>12, <1>13 DEF Rearranged, IsSlid, z

\* erase
LEMMA EraseRangeCuts ==
  ASSUME NEW d, NEW kept, NEW m0, Good(d, kept, m0), Divides, SelfMoveKeeps,
         NEW index \in Nat, NEW n \in Nat, index + n =< SizeOf(d)
  PROVE  /\ Good(EraseRange(d, index, n), kept, m0)
         /\ MapP!IsCut(Contents(EraseRange(d, index, n)), Contents(d), index, n)
<1> DEFINE z == SizeOf(d)
           g == EraseRange(d, index, n)
           u == First(d)
<1>0. /\ u \in Int /\ Past(d) \in Int /\ z \in Nat /\ z = Past(d) - u
      /\ Len(Contents(d)) = z
  BY GoodNumbers, ContentsAre
<1>1. index + n =< z
  OBVIOUS
<1>2. CASE EraseMovesBack(d, index, n)
  <2> DEFINE e == Slide(d, u + index + n, Past(d), u + index)
  <2>1. g = EraseAtEnd(e, z - n)
    BY <1>2 DEF EraseRange
  <2> HIDE DEF g, u, z
  <2>2. /\ u + index + n = u + (index + n) /\ Past(d) = u + z
        /\ index + n \in Nat /\ index + n =< z /\ index + (z - (index + n)) =< z
        /\ z - n \in Nat
    BY <1>0, <1>1
  <2>3. e = Slide(d, u + (index + n), u + z, u + index)
    BY <2>2
  <2> HIDE DEF e
  <2>4. Good(e, kept, m0) /\ IsSlid(d, e, index + n, z, index)
    <3>1. z =< z
      BY <1>0
    <3> QED
      BY <1>0, <2>2, <2>3, <3>1, SlidElements DEF u, z
  <2>5. /\ SizeOf(e) = z
        /\ \A i \in 1 .. z :
             /\ index < i /\ i =< index + (z - (index + n)) =>
                  Contents(e)[i] = Contents(d)[i - index + (index + n)]
             /\ ~(index < i /\ i =< index + (z - (index + n)))
                  /\ ~(index + n < i /\ i =< z) => Contents(e)[i] = Contents(d)[i]
    BY <2>4 DEF IsSlid, z
  <2>6. Good(g, kept, m0) /\ SizeOf(g) = z - n /\ PartOf(e, g, 0)
    <3>1. z - n =< SizeOf(e)
      BY <1>0, <2>5
    <3> QED
      BY <2>1, <2>2, <2>4, <3>1, EraseAtEndElements
  <2>7. \A i \in 1 .. z - n : Contents(g)[i] = Contents(e)[i]
    <3>1. \A i \in 1 .. z - n : SameElement(e, 0 + i, g, i) /\ 0 + i = i
      BY <2>6 DEF PartOf
    <3> QED
      BY <3>1 DEF SameElement
  <2>8. Len(Contents(g)) = z - n
    BY <2>6, ContentsAre
  <2>9. ASSUME NEW i \in 1 .. index PROVE Contents(g)[i] = Contents(d)[i]
    <3>1. i \in 1 .. z - n /\ i \in 1 .. z /\ ~(index < i) /\ ~(index + n < i)
      BY <1>0, <1>1
    <3> QED
      BY <2>5, <2>7, <3>1
  <2>10. ASSUME NEW i \in index + 1 .. z - n PROVE Contents(g)[i] = Contents(d)[n + i]
    <3>1. /\ i \in 1 .. z - n /\ i \in 1 .. z /\ index < i
          /\ i =< index + (z - (index + n)) /\ i - index + (index + n) = n + i
      BY <1>0, <1>1
    <3> QED
      BY <2>5, <2>7, <3>1
  <2> QED
    BY <1>0, <2>6, <2>8, <2>9, <2>10 DEF MapP!IsCut, g
<1>3. CASE ~EraseMovesBack(d, index, n)
  <2> DEFINE e == Slide(d, u, u + index, u + n)
  <2>1. g = EraseAtBegin(e, n)
    BY <1>3 DEF EraseRange
  <2> HIDE DEF g, u, z
  <2>2. u = u + 0 /\ 0 \in Nat /\ 0 =< index /\ index =< z /\ n + (index - 0) =< z
    BY <1>0, <1>1
  <2>3. e = Slide(d, u + 0, u + index, u + n)
    BY <2>2
  <2> HIDE DEF e
  <2>4. Good(e, kept, m0) /\ IsSlid(d, e, 0, index, n)
    BY <1>0, <2>2, <2>3, SlidElements DEF u, z
  <2>5. /\ SizeOf(e) = z
        /\ \A i \in 1 .. z :
             /\ n < i /\ i =< n + (index - 0) =>
                  Contents(e)[i] = Contents(d)[i - n + 0]
             /\ ~(n < i /\ i =< n + (index - 0)) /\ ~(0 < i /\ i =< index) =>
                  Contents(e)[i] = Contents(d)[i]
    BY <2>4 DEF IsSlid, z
  <2>6. Good(g, kept, m0) /\ SizeOf(g) = z - n /\ PartOf(e, g, n)
    <3>1. n =< SizeOf(e)
      BY <1>0, <1>1, <2>5
    <3> QED
      BY <2>1, <2>4, <2>5, <3>1, EraseAtBeginElements
  <2>7. \A i \in 1 .. z - n : Contents(g)[i] = Contents(e)[n + i]
    BY <2>6 DEF PartOf, SameElement
  <2>8. Len(Contents(g)) = z - n
    BY <2>6, ContentsAre
  <2>9. ASSUME NEW i \in 1 .. index PROVE Contents(g)[i] = Contents(d)[i]
    <3>1. /\ i \in 1 .. z - n /\ n + i \in 1 .. z /\ n < n + i
          /\ n + i =< n + (index - 0) /\ (n + i) - n + 0 = i
      BY <1>0, <1>1
    <3> QED
      BY <2>5, <2>7, <3>1
  <2>10. ASSUME NEW i \in index + 1 .. z - n PROVE Contents(g)[i] = Contents(d)[n + i]
    <3>1. /\ i \in 1 .. z - n /\ n + i \in 1 .. z
          /\ ~(n + i =< n + (index - 0)) /\ ~(n + i =< index)
      BY <1>0, <1>1
    <3> QED
      BY <2>5, <2>7, <3>1
  <2> QED
    BY <1>0, <2>6, <2>8, <2>9, <2>10 DEF MapP!IsCut, g
<1> QED
  BY <1>2, <1>3

-----------------------------------------------------------------------------
\* Assignment

\* The elements are the first n of xs.
HoldsFirst(e, xs, n) ==
  SizeOf(e) = n /\ \A i \in 1 .. n : Contents(e)[i] = xs[i]

LEMMA HoldsFirstIs ==
  ASSUME NEW d, NEW kept, NEW m0, Good(d, kept, m0), NEW xs \in Seq(Object),
         NEW n \in 0 .. Len(xs), HoldsFirst(d, xs, n)
  PROVE  Contents(d) = FirstPart(xs, n)
<1>1. /\ Contents(d) \in Seq(Object) /\ Len(Contents(d)) = n
      /\ \A i \in 1 .. n : Contents(d)[i] = xs[i]
  BY ContentsAre DEF HoldsFirst
<1>2. /\ FirstPart(xs, n) \in Seq(Object) /\ Len(FirstPart(xs, n)) = n
      /\ \A i \in 1 .. n : FirstPart(xs, n)[i] = xs[i]
  BY PartsAre
<1> DEFINE a == Contents(d)
           b == FirstPart(xs, n)
<1> HIDE DEF a, b
<1>3. /\ a \in Seq(Object) /\ b \in Seq(Object) /\ Len(a) = Len(b)
      /\ \A i \in 1 .. Len(a) : a[i] = b[i]
  BY <1>1, <1>2 DEF a, b
<1>4. a = b
  BY <1>3
<1> QED
  BY <1>4 DEF a, b

\* More of xs behind them
LEMMA HoldsMore ==
  ASSUME NEW u, NEW e, NEW xs \in Seq(Object), NEW n \in 0 .. Len(xs),
         HoldsFirst(u, xs, n), NEW k \in 0 .. Len(xs) - n,
         Suffixed(u, e, FirstPart(SubSeq(xs, n + 1, Len(xs)), k))
  PROVE  HoldsFirst(e, xs, n + k)
<1> DEFINE rest == SubSeq(xs, n + 1, Len(xs))
           ys == FirstPart(rest, k)
           len == Len(xs)
<1>0. len \in Nat /\ n \in Nat /\ n =< len /\ k \in Nat /\ k =< len - n
  OBVIOUS
<1>1. /\ rest \in Seq(Object) /\ Len(rest) = len - n
      /\ \A i \in 1 .. len - n : rest[i] = xs[n + i]
  <2>1. n \in 0 .. Len(xs) /\ Len(xs) \in n .. Len(xs)
    BY <1>0
  <2> QED
    BY <2>1, MapConstants, MapP!Run
<1> HIDE DEF rest, len
<1>2. Len(ys) = k /\ \A i \in 1 .. k : ys[i] = rest[i]
  <2>1. k \in 0 .. Len(rest)
    BY <1>0, <1>1
  <2> QED
    BY <1>1, <2>1, PartsAre
<1> HIDE DEF ys
<1>3. /\ SizeOf(u) = n /\ \A i \in 1 .. n : Contents(u)[i] = xs[i]
      /\ SizeOf(e) = n + k
      /\ \A i \in 1 .. k : Contents(e)[n + i] = ys[i]
      /\ \A i \in 1 .. n : SameElement(u, i, e, i)
  BY <1>2 DEF HoldsFirst, Suffixed, ys, rest
<1>4. ASSUME NEW i \in 1 .. n + k PROVE Contents(e)[i] = xs[i]
  <2>1. CASE i =< n
    <3>1. i \in 1 .. n
      BY <1>0, <2>1
    <3> QED
      BY <1>3, <3>1 DEF SameElement
  <2>2. CASE ~(i =< n)
    <3>1. i - n \in 1 .. k /\ i - n \in 1 .. len - n /\ n + (i - n) = i
      BY <1>0, <2>2
    <3>2. Contents(e)[n + (i - n)] = ys[i - n]
      BY <1>3, <3>1
    <3>3. ys[i - n] = rest[i - n] /\ rest[i - n] = xs[n + (i - n)]
      BY <1>1, <1>2, <3>1
    <3> QED
      BY <3>1, <3>2, <3>3
  <2> QED
    BY <2>1, <2>2
<1> QED
  BY <1>3, <1>4 DEF HoldsFirst

\* What overwrite_buffer leaves
LEMMA OverwriteElements ==
  ASSUME NEW d, NEW kept, NEW m0, Good(d, kept, m0), NEW xs \in Seq(Object),
         NEW n \in 0 .. Len(xs), MapStart(d) + n =< d.map.back * SegmentSize,
         NEW e, MovedTo(d, e, kept, m0, MapStart(d), MapStart(d) + n),
         e.mem = Overwrite(d, n, xs).mem
  PROVE  HoldsFirst(e, xs, n)
<1> DEFINE lo == MapStart(d)
           new == lo .. lo + n - 1
           old == First(d) .. Past(d) - 1
           f == [p \in new \cup old |-> IF p \in new THEN xs[p - lo + 1] ELSE Raw]
<1>0. Shaped(d) /\ Owned(d, kept)
  BY DEF Good
<1>1. /\ Good(e, kept, m0) /\ First(e) = lo /\ Past(e) = lo + n /\ e.map = d.map
      /\ e.mem = Store(d, f).mem
  BY DEF MovedTo, Overwrite
<1>2. /\ lo \in Int /\ n \in Nat /\ lo = d.map.front * SegmentSize
      /\ lo + n =< d.map.back * SegmentSize /\ d.map.back * SegmentSize \in Int
  BY <1>0, ShapedNumbers DEF MapStart
<1>3. SizeOf(e) = n
  BY <1>1, <1>2, GoodNumbers, SMTT(30)
<1>4. ASSUME NEW p \in new PROVE xs[p - lo + 1] \in Object
  <2> DEFINE len == Len(xs)
  <2>1. len \in Nat /\ n =< len
    OBVIOUS
  <2> HIDE DEF lo, len
  <2>2. p - lo + 1 \in 1 .. len
    BY <1>2, <2>1, SMTT(30)
  <2> QED
    BY <2>2 DEF len
<1>5. \A p \in DOMAIN f : f[p] \in Slot
  BY <1>4 DEF Slot
<1>6. ASSUME NEW i \in 1 .. n PROVE Contents(e)[i] = xs[i]
  <2> DEFINE p == lo + i - 1
  <2>1. /\ p \in Int /\ p \in new /\ p - lo + 1 = i
        /\ d.map.front * SegmentSize =< p /\ p < d.map.back * SegmentSize
    <3> DEFINE a == d.map.front * SegmentSize
               b == d.map.back * SegmentSize
    <3>1. lo \in Int /\ n \in Nat /\ lo = a /\ lo + n =< b /\ b \in Int
      BY <1>2
    <3> HIDE DEF lo, a, b
    <3>2. p \in Int /\ p \in new /\ p - lo + 1 = i /\ a =< p /\ p < b
      BY <3>1
    <3> QED
      BY <3>2 DEF a, b
  <2>2. Contents(e)[i] = Cell(e, p)
    BY <1>1, <1>3 DEF Contents
  <2>3. p \in DOMAIN f /\ f[p] = xs[p - lo + 1]
    BY <2>1
  <2> HIDE DEF p, f
  <2>4. Cell(e, p) = f[p]
    BY <1>0, <1>1, <1>5, <2>1, <2>3, CellsStored
  <2> QED
    BY <2>1, <2>2, <2>3, <2>4
<1> QED
  BY <1>3, <1>6 DEF HoldsFirst

LEMMA UnmovedHolds ==
  ASSUME NEW d, NEW e, NEW xs, NEW n, HoldsFirst(d, xs, n), Unmoved(d, e)
  PROVE  HoldsFirst(e, xs, n)
  BY DEF HoldsFirst, Unmoved, SameElement

LEMMA OverwrittenHolds ==
  ASSUME NEW d, NEW kept, NEW m0, Good(d, kept, m0), NEW xs \in Seq(Object),
         NEW n \in 0 .. Len(xs), NEW u,
         \/ d.begin = d.end /\ u = d /\ n = 0
         \/ \E e : /\ MovedTo(d, e, kept, m0, MapStart(d), MapStart(d) + n)
                   /\ e.mem = Overwrite(d, n, xs).mem
                   /\ MapStart(d) + n =< d.map.back * SegmentSize
                   /\ u = e \/ Dropped(e, u)
  PROVE  HoldsFirst(u, xs, n)
<1>1. CASE d.begin = d.end /\ u = d /\ n = 0
  <2>1. SizeOf(d) = 0
    <3>1. First(d) = Past(d)
      BY <1>1 DEF First, Past
    <3> QED
      BY <3>1, GoodNumbers
  <2>2. HoldsFirst(d, xs, 0)
    BY <2>1 DEF HoldsFirst
  <2> QED
    BY <1>1, <2>2
<1>2. ASSUME NEW e, MovedTo(d, e, kept, m0, MapStart(d), MapStart(d) + n),
             e.mem = Overwrite(d, n, xs).mem,
             MapStart(d) + n =< d.map.back * SegmentSize,
             u = e \/ Dropped(e, u)
      PROVE  HoldsFirst(u, xs, n)
  <2>1. Good(e, kept, m0)
    BY <1>2 DEF MovedTo
  <2>2. HoldsFirst(e, xs, n)
    BY <1>2, OverwriteElements
  <2>3. CASE Dropped(e, u)
    BY <2>1, <2>2, <2>3, DroppedUnmoved, UnmovedHolds
  <2> QED
    BY <1>2, <2>2, <2>3
<1> QED
  BY <1>1, <1>2

LEMMA OverwriteBufferElements ==
  ASSUME NEW d, NEW kept, NEW m0, Good(d, kept, m0), Divides, NEW xs \in Seq(Object),
         NEW bytes, BeginsInFirstSegment(d) \/ (~bytes /\ d.begin = d.end)
  PROVE  /\ Good(OverwriteBuffer(d, xs, bytes), kept, m0)
         /\ Overwritten(d, Len(xs), bytes) \in 0 .. Len(xs)
         /\ HoldsFirst(OverwriteBuffer(d, xs, bytes), xs, Overwritten(d, Len(xs), bytes))
<1> DEFINE n == Overwritten(d, Len(xs), bytes)
           u == OverwriteBuffer(d, xs, bytes)
<1>1. Good(u, kept, m0) /\ n \in 0 .. Len(xs) /\ OverwrittenWith(d, kept, m0, xs, bytes)
  BY OverwriteBufferGood
<1>2. \/ d.begin = d.end /\ u = d /\ n = 0
      \/ \E e : /\ MovedTo(d, e, kept, m0, MapStart(d), MapStart(d) + n)
                /\ e.mem = Overwrite(d, n, xs).mem
                /\ MapStart(d) + n =< d.map.back * SegmentSize
                /\ u = e \/ Dropped(e, u)
  BY <1>1 DEF OverwrittenWith
<1> HIDE DEF n, u
<1>3. HoldsFirst(u, xs, n)
  BY <1>1, <1>2, OverwrittenHolds
<1> QED
  BY <1>1, <1>3 DEF n, u

\* assign
LEMMA AssignElements ==
  ASSUME NEW d, NEW kept, NEW m0, Good(d, kept, m0), Divides, NEW xs \in Seq(Object),
         NEW bytes, BeginsInFirstSegment(d) \/ (~bytes /\ d.begin = d.end),
         NEW e \in Assign(d, xs, bytes)
  PROVE  Good(e, kept, m0) /\ Contents(e) = xs
<1> DEFINE u == OverwriteBuffer(d, xs, bytes)
           n == Overwritten(d, Len(xs), bytes)
           rest == SubSeq(xs, n + 1, Len(xs))
           len == Len(xs)
<1>1. Good(u, kept, m0) /\ n \in 0 .. Len(xs) /\ HoldsFirst(u, xs, n)
  BY OverwriteBufferElements
<1>2. rest \in Seq(Object) /\ Len(rest) = Len(xs) - n
  BY <1>1, RestIs
<1>3. e \in PushBack(u, rest)[Len(rest)]
  BY DEF Assign, RestToPush
<1>4. len \in Nat /\ n \in Nat /\ n =< len /\ len = Len(xs)
  BY <1>1
<1> HIDE DEF u, n, len
<1> DEFINE k == len - n
<1>5. k \in 0 .. Len(rest) /\ k \in 0 .. Len(xs) - n /\ Len(rest) = k /\ n + k = len
      /\ len \in 0 .. Len(xs)
  BY <1>2, <1>4
<1> HIDE DEF k
<1>6. Good(e, kept, m0) /\ Suffixed(u, e, FirstPart(rest, k))
  <2> HIDE DEF rest
  <2> QED
    BY <1>1, <1>2, <1>3, <1>5, PushBackSuffixed
<1>7. HoldsFirst(e, xs, len)
  BY <1>1, <1>5, <1>6, HoldsMore
<1>8. Contents(e) = FirstPart(xs, len)
  BY <1>5, <1>6, <1>7, HoldsFirstIs
<1> QED
  BY <1>6, <1>8, WholeParts DEF len

\* An assign that throws leaves the elements alone, or as many of the new ones as
\* there was room for or were pushed.
LEMMA AssignThrewElements ==
  ASSUME NEW d, NEW kept, NEW m0, Good(d, kept, m0), Divides, NEW xs \in Seq(Object),
         NEW bytes, BeginsInFirstSegment(d) \/ (~bytes /\ d.begin = d.end),
         ~ShiftMayThrow, NEW e \in AssignThrew(d, xs, bytes)
  PROVE  /\ Good(e, kept, m0)
         /\ \/ e = d /\ Len(xs) > 0
            \/ \E k \in 0 .. Len(xs) - 1 : Contents(e) = FirstPart(xs, k)
<1> DEFINE u == OverwriteBuffer(d, xs, bytes)
           n == Overwritten(d, Len(xs), bytes)
           rest == SubSeq(xs, n + 1, Len(xs))
           len == Len(xs)
<1>1. Good(u, kept, m0) /\ n \in 0 .. Len(xs) /\ HoldsFirst(u, xs, n)
  BY OverwriteBufferElements
<1>2. rest \in Seq(Object) /\ Len(rest) = Len(xs) - n
  BY <1>1, RestIs
<1>3. e \in PushBackThrew(u, rest) \/ (e = d /\ Smaller(Len(xs), First(d) - MapStart(d)) > 0)
  BY DEF AssignThrew, RestToPush
<1>4. len \in Nat /\ n \in Nat /\ n =< len /\ len = Len(xs)
  BY <1>1
<1>5. CASE e \in PushBackThrew(u, rest)
  <2> HIDE DEF u, n, len
  <2>1. PICK k \in 0 .. Len(rest) - 1 :
          Good(e, kept, m0) /\ Suffixed(u, e, FirstPart(rest, k))
    <3> HIDE DEF rest
    <3> QED
      BY <1>1, <1>2, <1>5, PushBackThrewSuffixed
  <2>2. /\ k \in 0 .. Len(xs) - n /\ n + k \in 0 .. Len(xs)
        /\ n + k \in 0 .. Len(xs) - 1
    BY <1>2, <1>4, <2>1
  <2>3. HoldsFirst(e, xs, n + k)
    BY <1>1, <2>1, <2>2, HoldsMore
  <2>4. Contents(e) = FirstPart(xs, n + k)
    BY <2>1, <2>2, <2>3, HoldsFirstIs
  <2> QED
    BY <2>1, <2>2, <2>4
<1>6. CASE e = d /\ Smaller(Len(xs), First(d) - MapStart(d)) > 0
  <2>1. Len(xs) > 0
    <3>1. First(d) \in Int /\ MapStart(d) \in Int /\ Len(xs) \in Nat
      BY GoodNumbers DEF MapStart
    <3> QED
      BY <1>6, <3>1 DEF Smaller
  <2> QED
    BY <1>6, <2>1
<1> QED
  BY <1>3, <1>5, <1>6

-----------------------------------------------------------------------------
\* stable_insert

\* An element whose segment is another slot of e, with the same value in its cell.
LEMMA SameCell ==
  ASSUME NEW d, NEW kept, NEW m0, Good(d, kept, m0), NEW e, First(e) \in Int,
         NEW i \in 1 .. SizeOf(d), NEW j \in 1 .. SizeOf(e), NEW shift \in Int,
         First(e) + j = First(d) + i + shift * SegmentSize,
         \A a \in MapSlots(d), k \in Indices :
           a * SegmentSize + k = First(d) + i - 1 =>
             /\ a + shift \in MapSlots(e)
             /\ e.map.slots[a + shift] = d.map.slots[a]
             /\ e.mem[d.map.slots[a]][k] = d.mem[d.map.slots[a]][k]
  PROVE  SameElement(d, i, e, j)
<1>1. /\ Shaped(d) /\ First(d) \in Int
      /\ SizeOf(d) = Past(d) - First(d) /\ SizeOf(d) \in Nat /\ Past(d) \in Int
      /\ d.map.front * SegmentSize \in Int /\ d.map.back * SegmentSize \in Int
      /\ d.map.front * SegmentSize =< First(d) /\ Past(d) =< d.map.back * SegmentSize
  BY GoodNumbers, ShapedNumbers DEF Shaped, Bounded
<1> DEFINE p == First(d) + i - 1
           q == First(e) + j - 1
           a == p \div SegmentSize
           k == p % SegmentSize
<1>2. p \in Int /\ First(d) =< p /\ p < Past(d)
  BY <1>1
<1>3. d.map.front * SegmentSize =< p /\ p < d.map.back * SegmentSize
  BY <1>1, <1>2
<1>4. /\ a \in MapSlots(d) /\ k \in Indices /\ a * SegmentSize + k = p
      /\ Within(d, a, k)
  <2> HIDE DEF p
  <2> QED
    BY <1>1, <1>2, <1>3, SlotAt
<1>5. a \in Int
  BY <1>2, PartsOf
<1>6. q = (a + shift) * SegmentSize + k
  <2> DEFINE u == a * SegmentSize
             v == shift * SegmentSize
             w == (a + shift) * SegmentSize
             x == First(d)
             y == First(e)
  <2>1. w = u + v /\ u \in Int /\ v \in Int
    BY <1>5, Distribute
  <2>2. u + k = First(d) + i - 1 /\ First(e) + j = First(d) + i + v /\ k \in Int
    BY <1>4 DEF Indices
  <2>3. j \in Int /\ i \in Int
    BY <1>1
  <2>4. q = y + j - 1 /\ x \in Int /\ y \in Int /\ u + k = x + i - 1 /\ y + j = x + i + v
    BY <1>1, <2>2
  <2> HIDE DEF a, k, q, u, v, w, x, y
  <2>5. q = w + k
    BY <2>1, <2>2, <2>3, <2>4
  <2> QED
    BY <2>5 DEF w
<1>7. q \div SegmentSize = a + shift /\ q % SegmentSize = k
  BY <1>4, <1>5, <1>6, PlaceOf
<1>8. /\ a + shift \in MapSlots(e) /\ e.map.slots[a + shift] = d.map.slots[a]
      /\ e.mem[d.map.slots[a]][k] = d.mem[d.map.slots[a]][k]
  BY <1>4
<1>9. Contents(e)[j] = Cell(e, q) /\ Contents(d)[i] = Cell(d, p)
  BY DEF Contents
<1>10. /\ Addresses(e)[j] = <<e.map.slots[q \div SegmentSize], q % SegmentSize>>
       /\ Addresses(d)[i] = <<d.map.slots[a], k>>
  BY DEF Addresses
<1> HIDE DEF q
<1>11. Cell(e, q) = e.mem[d.map.slots[a]][k] /\ Cell(d, p) = d.mem[d.map.slots[a]][k]
  BY <1>4, <1>7, <1>8 DEF Cell
<1> QED
  BY <1>7, <1>8, <1>9, <1>10, <1>11 DEF SameElement

\* The elements of t are between those of d, which keep their addresses.
LEMMA JoinedElements ==
  ASSUME NEW d, NEW kept, NEW m0, Good(d, kept, m0), NEW t, Good(t, d.allocated, d.mem),
         First(t) = t.map.front * SegmentSize, Past(t) = t.map.back * SegmentSize,
         NEW e, Good(e, kept, m0), NEW h, JoinedAs(d, t, e, h),
         NEW at, at = h * SegmentSize - First(d)
  PROVE  /\ at \in 0 .. SizeOf(d)
         /\ MapP!IsSplice(Contents(e), Contents(d), at, Contents(t))
         /\ \A i \in 1 .. at : SameElement(d, i, e, i)
         /\ \A i \in at + 1 .. SizeOf(d) : SameElement(d, i, e, SizeOf(t) + i)
<1> DEFINE f == d.map.front
           b == d.map.back
           tf == t.map.front
           tb == t.map.back
           rf == e.map.front
           rb == e.map.back
           n == tb - tf
           up == rf - f
           lo == First(d)
           z == SizeOf(d)
           H == h * SegmentSize
           U == up * SegmentSize
           N == n * SegmentSize
           TF == tf * SegmentSize
<1>1. /\ rb - rf = b - f + n
      /\ \A a \in f .. h - 1 : e.map.slots[a + up] = d.map.slots[a]
      /\ \A a \in tf .. tb - 1 : e.map.slots[a + up + (h - tf)] = t.map.slots[a]
      /\ \A a \in h .. b - 1 : e.map.slots[a + up + n] = d.map.slots[a]
      /\ e.mem = t.mem /\ h \in f .. b /\ lo < H /\ H < Past(d)
      /\ First(e) = lo + U /\ Past(e) = Past(d) + U + N
  BY DEF JoinedAs, Joined
<1>2. /\ f \in Int /\ b \in Int /\ tf \in Int /\ tb \in Int /\ tf =< tb /\ f =< b
      /\ rf \in Int /\ rb \in Int /\ lo \in Int /\ Past(d) \in Int
      /\ First(e) \in Int /\ Past(e) \in Int /\ First(t) \in Int
      /\ z = Past(d) - lo /\ SizeOf(e) = Past(e) - First(e)
      /\ SizeOf(t) = Past(t) - First(t) /\ z \in Nat /\ SizeOf(e) \in Nat
      /\ SizeOf(t) \in Nat /\ Shaped(d) /\ Shaped(e) /\ Shaped(t)
  BY GoodNumbers, ShapedNumbers
<1>3. /\ n \in Int /\ up \in Int /\ h \in Int /\ 0 =< n /\ h - tf \in Int /\ f =< h /\ h =< b
  BY <1>1, <1>2
<1>4. H \in Int /\ U \in Int /\ N \in Int /\ TF \in Int
  BY <1>2, <1>3, Distribute
<1>5. SizeOf(t) = N /\ N >= 0
  <2>1. n * SegmentSize = tb * SegmentSize - tf * SegmentSize
    BY <1>2, Distribute
  <2> QED
    BY <1>2, <2>1
<1>6. SizeOf(e) = z + N
  <2> HIDE DEF N, U, lo, z
  <2> QED
    BY <1>1, <1>2, <1>4
<1>7. at \in 0 .. z /\ at = H - lo
  <2> HIDE DEF H, z
  <2>1. at = H - lo
    BY DEF H
  <2> QED
    BY <1>1, <1>2, <1>4, <2>1
<1>8. MapSlots(d) = f .. b - 1 /\ MapSlots(t) = tf .. tb - 1 /\ MapSlots(e) = rf .. rb - 1
  BY DEF MapSlots
<1>8a. \A a \in MapSlots(d) : a \in Int /\ f =< a /\ a < b
  BY <1>2, <1>8, SMTT(30)
<1>9. ASSUME NEW a \in MapSlots(d)
      PROVE  t.mem[d.map.slots[a]] = d.mem[d.map.slots[a]]
  BY DEF Good, Owned
<1>10. (up + n) * SegmentSize = U + N
  BY <1>3, Distribute
<1>11. (up + (h - tf)) * SegmentSize = U + H - TF
  <2>1. (h - tf) * SegmentSize = H - TF
    <3>1. h \in Int /\ tf \in Int
      BY <1>2, <1>3
    <3> HIDE DEF tf
    <3>2. (h - tf) * SegmentSize = h * SegmentSize - tf * SegmentSize
      BY <3>1, Distribute
    <3> QED
      BY <3>2
  <2>2. (up + (h - tf)) * SegmentSize = U + (h - tf) * SegmentSize
    BY <1>3, Distribute
  <2> QED
    BY <1>4, <2>1, <2>2
<1> DEFINE shift == up + n
           over == up + (h - tf)
<1>12. shift \in Int /\ over \in Int
  BY <1>3
\* Before the segment of the hint
<1>13. ASSUME NEW i \in 1 .. at PROVE SameElement(d, i, e, i)
  <2>1. i \in 1 .. z /\ i \in 1 .. SizeOf(e) /\ i \in Int /\ lo + i - 1 < H
    <3> HIDE DEF z, N, H, lo
    <3> QED
      BY <1>2, <1>4, <1>5, <1>6, <1>7
  <2>2. ASSUME NEW a \in MapSlots(d), NEW k \in Indices, a * SegmentSize + k = lo + i - 1
        PROVE  /\ a + up \in MapSlots(e) /\ e.map.slots[a + up] = d.map.slots[a]
               /\ e.mem[d.map.slots[a]][k] = d.mem[d.map.slots[a]][k]
    <3>1. a \in Int /\ f =< a /\ a < b
      BY <1>8a
    <3>2. a < h
      BY <1>3, <2>1, <2>2, <3>1, PlaceOrder
    <3>3. a \in f .. h - 1 /\ a + up \in rf .. rb - 1
      BY <1>1, <1>2, <1>3, <3>1, <3>2
    <3> QED
      BY <1>1, <1>8, <1>9, <3>3
  <2>3. First(e) + i = First(d) + i + up * SegmentSize
    <3> HIDE DEF U, lo
    <3>1. First(e) + i = lo + i + U
      BY <1>1, <1>2, <1>4, <2>1
    <3> QED
      BY <3>1 DEF U, lo
  <2> HIDE DEF up
  <2> QED
    BY <1>2, <1>3, <2>1, <2>2, <2>3, SameCell
\* From the segment of the hint on
<1>14. ASSUME NEW i \in at + 1 .. z PROVE SameElement(d, i, e, N + i)
  <2>1. /\ i \in 1 .. z /\ N + i \in 1 .. SizeOf(e) /\ i \in Int /\ H =< lo + i - 1
        /\ lo + i - 1 \in Int
    <3> HIDE DEF z, N, H, lo
    <3> QED
      BY <1>2, <1>4, <1>5, <1>6, <1>7
  <2>2. ASSUME NEW a \in MapSlots(d), NEW k \in Indices, a * SegmentSize + k = lo + i - 1
        PROVE  /\ a + shift \in MapSlots(e) /\ e.map.slots[a + shift] = d.map.slots[a]
               /\ e.mem[d.map.slots[a]][k] = d.mem[d.map.slots[a]][k]
    <3>1. a \in Int /\ f =< a /\ a < b
      BY <1>8a
    <3>2. h =< a
      BY <1>3, <2>1, <2>2, <3>1, PlaceOrder
    <3>3. a \in h .. b - 1 /\ a + up + n \in rf .. rb - 1 /\ a + up + n = a + shift
      BY <1>1, <1>2, <1>3, <3>1, <3>2
    <3> QED
      BY <1>1, <1>8, <1>9, <3>3
  <2>3. First(e) + (N + i) = First(d) + i + shift * SegmentSize
    <3> HIDE DEF U, lo, N, shift
    <3>1. First(e) + (N + i) = lo + i + (U + N)
      BY <1>1, <1>2, <1>4, <2>1
    <3> QED
      BY <1>10, <3>1 DEF lo, shift
  <2> HIDE DEF shift, N
  <2> QED
    BY <1>2, <1>12, <2>1, <2>2, <2>3, SameCell
\* The segments of t
<1>15. ASSUME NEW i \in 1 .. N PROVE SameElement(t, i, e, at + i)
  <2>1. i \in 1 .. SizeOf(t) /\ at + i \in 1 .. SizeOf(e) /\ i \in Int
    <3> HIDE DEF z, N, H, lo
    <3> QED
      BY <1>2, <1>4, <1>5, <1>6, <1>7
  <2>2. ASSUME NEW a \in MapSlots(t), NEW k \in Indices
        PROVE  /\ a + over \in MapSlots(e) /\ e.map.slots[a + over] = t.map.slots[a]
               /\ e.mem[t.map.slots[a]][k] = t.mem[t.map.slots[a]][k]
    <3>1. a \in tf .. tb - 1 /\ a \in Int /\ tf =< a /\ a < tb
      BY <1>2, <1>8, SMTT(30)
    <3>2. a + up + (h - tf) \in rf .. rb - 1 /\ a + up + (h - tf) = a + over
      BY <1>1, <1>2, <1>3, <3>1
    <3> QED
      BY <1>1, <1>8, <3>1, <3>2
  <2>3. First(e) + (at + i) = First(t) + i + over * SegmentSize
    <3> HIDE DEF U, lo, H, TF, over
    <3>1. First(t) = TF
      BY DEF TF
    <3>2. First(e) + (at + i) = TF + i + (U + H - TF)
      BY <1>1, <1>2, <1>4, <1>7, <2>1
    <3> QED
      BY <1>11, <3>1, <3>2 DEF over
  <2> HIDE DEF over
  <2> QED
    BY <1>2, <1>12, <2>1, <2>2, <2>3, SameCell
<1>16. /\ Len(Contents(e)) = SizeOf(e) /\ Len(Contents(d)) = z /\ Len(Contents(t)) = SizeOf(t)
  BY ContentsAre
<1>17. /\ \A i \in 1 .. at : Contents(e)[i] = Contents(d)[i]
       /\ \A i \in 1 .. N : Contents(e)[at + i] = Contents(t)[i]
       /\ \A i \in at + 1 .. z : Contents(e)[N + i] = Contents(d)[i]
  BY <1>13, <1>14, <1>15 DEF SameElement
<1> HIDE DEF N, z
<1>18. MapP!IsSplice(Contents(e), Contents(d), at, Contents(t))
  BY <1>5, <1>6, <1>16, <1>17 DEF MapP!IsSplice
<1>19. \A i \in at + 1 .. z : SameElement(d, i, e, SizeOf(t) + i)
  BY <1>5, <1>14
<1> QED
  BY <1>7, <1>13, <1>18, <1>19 DEF z

\* The second deque holds the range, and default values up to the end of its segments.
LEMMA StableTmpElements ==
  ASSUME NEW d, NEW kept, NEW m0, Good(d, kept, m0), Divides, NEW xs \in Seq(Object),
         NEW t \in StableTmp(d, xs)
  PROVE  \E c \in Nat : Contents(t) = xs \o Copies(c, Default)
<1> DEFINE K == d.allocated
           n == Len(xs)
           o == Beside(d)
<1>0. n \in Nat /\ n \in 0 .. Len(xs)
  OBVIOUS
<1>1. Good(o, K, d.mem) /\ SizeOf(o) = 0
  <2>1. Good(o, K, d.mem)
    BY BesideGood
  <2>2. First(o) = Past(o)
    BY DEF Beside, First, Past
  <2> HIDE DEF o, K
  <2> QED
    BY <2>1, <2>2, GoodNumbers
<1>2. PICK u \in PushBack(o, xs)[n] :
        t \in ResizeBack(u, SizeOf(u) + BackFreeCapacity(u), Default)
  BY DEF StableTmp
<1> HIDE DEF o, K
<1>3. Good(u, K, d.mem) /\ Suffixed(o, u, xs)
  <2>1. Good(u, K, d.mem) /\ Suffixed(o, u, FirstPart(xs, n))
    BY <1>0, <1>1, <1>2, PushBackSuffixed
  <2> QED
    BY <2>1, WholeParts
<1> DEFINE c == BackFreeCapacity(u)
           ys == Copies(c, Default)
<1>4. SizeOf(u) \in Nat /\ c \in Nat
  BY <1>3, GoodNumbers, FreeCells
<1>5. t \in PushBack(u, ys)[c]
  <2>1. SizeOf(u) + c >= SizeOf(u) /\ (SizeOf(u) + c) - SizeOf(u) = c
    BY <1>4
  <2> HIDE DEF c
  <2>2. t \in ResizeBack(u, SizeOf(u) + c, Default)
    BY <1>2 DEF c
  <2> QED
    BY <2>1, <2>2 DEF ResizeBack
<1> HIDE DEF c
<1>6. ys \in Seq(Object) /\ Len(ys) = c
  <2>1. Default \in Object
    BY BatchAssumption DEF Object
  <2> QED
    BY <1>4, <2>1, CopiesAre
<1> HIDE DEF ys
<1>7. Good(t, K, d.mem) /\ Suffixed(u, t, ys)
  <2>1. Good(t, K, d.mem) /\ Suffixed(u, t, FirstPart(ys, c))
    BY <1>3, <1>4, <1>5, <1>6, PushBackSuffixed
  <2> QED
    BY <1>6, <2>1, WholeParts
<1>8. /\ SizeOf(u) = n /\ \A i \in 1 .. n : Contents(u)[i] = xs[i]
  <2>1. SizeOf(u) = 0 + n /\ \A i \in 1 .. n : Contents(u)[0 + i] = xs[i]
    BY <1>1, <1>3 DEF Suffixed
  <2>2. \A i \in 1 .. n : 0 + i = i
    OBVIOUS
  <2> QED
    BY <1>0, <2>1, <2>2
<1>9. /\ SizeOf(t) = n + c
      /\ \A i \in 1 .. n : Contents(t)[i] = xs[i]
      /\ \A i \in 1 .. c : Contents(t)[n + i] = ys[i]
  BY <1>6, <1>7, <1>8 DEF Suffixed, SameElement
<1>10. Contents(t) \in Seq(Object) /\ Len(Contents(t)) = n + c
  BY <1>7, <1>9, ContentsAre
<1>11. Contents(t) = xs \o ys
  <2> DEFINE r == Contents(t)
             w == xs \o ys
  <2>1. w \in Seq(Object) /\ Len(w) = n + c
    BY <1>6
  <2>2. ASSUME NEW i \in 1 .. n + c PROVE r[i] = w[i]
    <3>1. CASE i =< n
      BY <1>4, <1>6, <1>9, <3>1
    <3>2. CASE ~(i =< n)
      <4>1. i - n \in 1 .. c /\ n + (i - n) = i
        BY <1>0, <1>4, <3>2
      <4>2. r[i] = ys[i - n]
        BY <1>9, <4>1
      <4>3. w[i] = ys[i - n]
        BY <1>6, <3>2
      <4> QED
        BY <4>2, <4>3
    <3> QED
      BY <3>1, <3>2
  <2> HIDE DEF r, w
  <2>3. r = w
    <3>1. r \in Seq(Object) /\ Len(r) = n + c
      BY <1>10 DEF r
    <3> QED
      BY <2>1, <2>2, <3>1
  <2> QED
    BY <2>3 DEF r, w
<1> QED
  BY <1>4, <1>11 DEF ys

\* stable_insert: the range, and perhaps some default values, are inserted at or before
\* the position.
StablySpliced(d, e, at, xs) ==
  \E c \in Nat : MapP!IsSplice(Contents(e), Contents(d), at, xs \o Copies(c, Default))

LEMMA StableInsertElements ==
  ASSUME NEW d, NEW kept, NEW m0, Good(d, kept, m0), Divides, NEW xs \in Seq(Object),
         NEW index \in 0 .. SizeOf(d), NEW bidirectional,
         NEW e \in StableInsert(d, index, xs, bidirectional),
         NEW at, at = StablePosition(d, index)
  PROVE  /\ Good(e, kept, m0)
         /\ at \in 0 .. index
         /\ StablySpliced(d, e, at, xs)
         /\ at > 0 \/ Len(xs) = 0 => AllStay(d, e)
<1>0. /\ SizeOf(d) \in Nat /\ index \in Int /\ 0 =< index /\ index =< SizeOf(d)
      /\ First(d) \in Int /\ SizeOf(d) = Past(d) - First(d)
  BY GoodNumbers
<1>1. ASSUME NEW r, MapP!IsSplice(r, Contents(d), at, xs)
      PROVE  \E c \in Nat : MapP!IsSplice(r, Contents(d), at, xs \o Copies(c, Default))
  <2>1. Copies(0, Default) = << >>
    BY DEF Copies
  <2>2. xs \o Copies(0, Default) = xs
    BY <2>1
  <2>3. MapP!IsSplice(r, Contents(d), at, xs \o Copies(0, Default))
    BY <1>1, <2>2
  <2>4. 0 \in Nat
    OBVIOUS
  <2> QED
    BY <2>3, <2>4
<1>2. CASE StableAtEnd(d, index)
  <2>1. at = index /\ index = SizeOf(d)
    BY <1>2 DEF StablePosition, StableAtEnd
  <2>2. e \in InsertRange(d, index, xs, bidirectional)
    BY <1>2 DEF StableInsert
  <2>3. /\ Good(e, kept, m0) /\ MapP!IsSplice(Contents(e), Contents(d), index, xs)
        /\ AllStay(d, e)
    BY <2>1, <2>2, InsertRangeSplices
  <2> QED
    BY <1>0, <1>1, <2>1, <2>3 DEF StablySpliced
<1>3. CASE ~StableAtEnd(d, index) /\ StableAtStart(d, index)
  <2>1. at = 0 /\ 0 \in 0 .. SizeOf(d)
    BY <1>0, <1>3 DEF StablePosition
  <2>2. e \in InsertRange(d, 0, xs, bidirectional)
    BY <1>3 DEF StableInsert
  <2>3. /\ Good(e, kept, m0) /\ MapP!IsSplice(Contents(e), Contents(d), 0, xs)
        /\ Len(xs) = 0 => AllStay(d, e)
    BY <2>1, <2>2, InsertRangeSplices
  <2> QED
    BY <1>0, <1>1, <2>1, <2>3 DEF StablySpliced
<1>4. CASE ~StableAtEnd(d, index) /\ ~StableAtStart(d, index)
  <2>1. PICK t \in StableTmp(d, xs) :
               /\ Map!InsertRangeOk(d.map, Map!SizeOf(t.map))
               /\ e = StableSplice(d, t, StableHint(d, index))
    BY <1>4 DEF StableInsert, StableBetween
  <2>2. /\ Good(t, d.allocated, d.mem)
        /\ First(t) = t.map.front * SegmentSize /\ Past(t) = t.map.back * SegmentSize
    BY <2>1, StableTmpGood
  <2> DEFINE h == StableHint(d, index).at
             H == h * SegmentSize
  <2>3. at = H - First(d)
    BY <1>4 DEF StablePosition
  <2>4. Good(e, kept, m0) /\ JoinedAs(d, t, e, h) /\ H =< First(d) + index
    BY <1>4, <2>1, <2>2, StableSpliceGood
  <2> HIDE DEF h
  <2>5. /\ at \in 0 .. SizeOf(d)
        /\ MapP!IsSplice(Contents(e), Contents(d), at, Contents(t))
        /\ \A i \in 1 .. at : SameElement(d, i, e, i)
        /\ \A i \in at + 1 .. SizeOf(d) : SameElement(d, i, e, SizeOf(t) + i)
    BY <2>2, <2>3, <2>4, JoinedElements
  <2>6. at \in 0 .. index
    <3>1. H \in Int
      <4>1. h \in Int
        BY <2>4, GoodNumbers, ShapedNumbers DEF JoinedAs
      <4> QED
        BY <4>1, Distribute
    <3> HIDE DEF H
    <3> QED
      BY <1>0, <2>3, <2>4, <2>5, <3>1
  <2>7. StablySpliced(d, e, at, xs)
    BY <2>1, <2>5, StableTmpElements DEF StablySpliced
  <2>8. SizeOf(e) = SizeOf(d) + SizeOf(t) /\ SizeOf(t) \in Nat
    BY <2>2, <2>4, <2>5, ContentsAre DEF MapP!IsSplice
  <2>9. ASSUME NEW i \in 1 .. SizeOf(d)
        PROVE  \E j \in 1 .. SizeOf(e) : SameElement(d, i, e, j)
    <3>1. CASE i =< at
      <4>1. i \in 1 .. at /\ i \in 1 .. SizeOf(e)
        BY <1>0, <2>5, <2>8, <3>1
      <4> QED
        BY <2>5, <4>1
    <3>2. CASE ~(i =< at)
      <4>1. i \in at + 1 .. SizeOf(d) /\ SizeOf(t) + i \in 1 .. SizeOf(e)
        BY <1>0, <2>5, <2>8, <3>2
      <4> QED
        BY <2>5, <4>1
    <3> QED
      BY <3>1, <3>2
  <2> QED
    BY <2>4, <2>6, <2>7, <2>9 DEF AllStay
<1> QED
  BY <1>2, <1>3, <1>4

-----------------------------------------------------------------------------
\* What each call leaves, as a sequence

\* Elements pushed to an end, as one sequence.
LEMMA PrefixedIs ==
  ASSUME NEW d, NEW kept, NEW m0, Good(d, kept, m0), NEW e, Good(e, kept, m0),
         NEW xs \in Seq(Object), Prefixed(d, e, xs)
  PROVE  Contents(e) = xs \o Contents(d)
<1> DEFINE s == Contents(d)
           r == Contents(e)
<1>1. s \in Seq(Object) /\ r \in Seq(Object) /\ 0 \in 0 .. Len(s)
      /\ MapP!IsSplice(r, s, 0, xs)
  <2>1. s \in Seq(Object) /\ r \in Seq(Object) /\ MapP!IsSplice(r, s, 0, xs)
    BY ContentsAre, PrefixedIsSplice
  <2> HIDE DEF s, r
  <2>2. 0 \in 0 .. Len(s)
    BY <2>1
  <2> QED
    BY <2>1, <2>2
<1> HIDE DEF s, r
<1>2. r = SubSeq(s, 1, 0) \o xs \o SubSeq(s, 0 + 1, Len(s))
  BY <1>1, MapConstants, MapP!SplicedIs
<1>3. SubSeq(s, 1, 0) \o xs \o SubSeq(s, 0 + 1, Len(s)) = xs \o s
  BY <1>1, MapConstants, MapP!EndParts
<1> QED
  BY <1>2, <1>3 DEF r, s

LEMMA SuffixedIs ==
  ASSUME NEW d, NEW kept, NEW m0, Good(d, kept, m0), NEW e, Good(e, kept, m0),
         NEW xs \in Seq(Object), Suffixed(d, e, xs)
  PROVE  Contents(e) = Contents(d) \o xs
<1> DEFINE s == Contents(d)
           r == Contents(e)
<1>1. s \in Seq(Object) /\ r \in Seq(Object) /\ Len(s) \in 0 .. Len(s)
      /\ MapP!IsSplice(r, s, Len(s), xs)
  <2>1. s \in Seq(Object) /\ r \in Seq(Object) /\ MapP!IsSplice(r, s, Len(s), xs)
    BY ContentsAre, SuffixedIsSplice
  <2> HIDE DEF s, r
  <2>2. Len(s) \in 0 .. Len(s)
    BY <2>1
  <2> QED
    BY <2>1, <2>2
<1> HIDE DEF s, r
<1>2. r = SubSeq(s, 1, Len(s)) \o xs \o SubSeq(s, Len(s) + 1, Len(s))
  BY <1>1, MapConstants, MapP!SplicedIs
<1>3. SubSeq(s, 1, Len(s)) \o xs \o SubSeq(s, Len(s) + 1, Len(s)) = s \o xs
  BY <1>1, MapConstants, MapP!EndParts
<1> QED
  BY <1>2, <1>3 DEF r, s

\* What a removal at an end leaves is the old elements without some.
LEMMA FrontPartIsCut ==
  ASSUME NEW d, NEW kept, NEW m0, Good(d, kept, m0), NEW e, Good(e, kept, m0),
         NEW n \in Nat, SizeOf(e) = SizeOf(d) - n, PartOf(d, e, n)
  PROVE  MapP!IsCut(Contents(e), Contents(d), 0, n)
<1>1. Len(Contents(e)) = SizeOf(e) /\ Len(Contents(d)) = SizeOf(d)
  BY ContentsAre
<1>2. \A i \in 0 + 1 .. SizeOf(e) : Contents(e)[i] = Contents(d)[n + i]
  BY DEF PartOf, SameElement
<1>3. \A i \in 1 .. 0 : Contents(e)[i] = Contents(d)[i]
  OBVIOUS
<1> QED
  BY <1>1, <1>2, <1>3 DEF MapP!IsCut

LEMMA BackPartIsCut ==
  ASSUME NEW d, NEW kept, NEW m0, Good(d, kept, m0), NEW e, Good(e, kept, m0),
         NEW n \in Nat, SizeOf(e) = SizeOf(d) - n, PartOf(d, e, 0)
  PROVE  /\ SizeOf(d) - n \in Nat
         /\ MapP!IsCut(Contents(e), Contents(d), SizeOf(d) - n, n)
<1> DEFINE z == SizeOf(e)
<1>1. Len(Contents(e)) = z /\ Len(Contents(d)) = SizeOf(d) /\ z = SizeOf(d) - n /\ z \in Nat
  BY ContentsAre
<1>2. \A i \in 1 .. z : Contents(e)[i] = Contents(d)[0 + i]
  BY DEF PartOf, SameElement
<1> HIDE DEF z
<1>3. \A i \in 1 .. z : 0 + i = i
  BY <1>1
<1>4. z + 1 .. z = {}
  BY <1>1
<1>5. MapP!IsCut(Contents(e), Contents(d), z, n)
  BY <1>1, <1>2, <1>3, <1>4 DEF MapP!IsCut
<1> QED
  BY <1>1, <1>5

LEMMA ClearElements ==
  ASSUME NEW d, NEW kept, NEW m0, Good(d, kept, m0)
  PROVE  Contents(Clear(d)) = << >>
<1> DEFINE e == Clear(d)
           s == Contents(e)
<1>1. Good(e, kept, m0) /\ First(e) = Past(e)
  BY ClearGood DEF MovedTo
<1> HIDE DEF e
<1>2. s \in Seq(Object) /\ Len(s) = 0
  BY <1>1, ContentsAre
<1> HIDE DEF s
<1>3. s = << >>
  BY <1>2
<1> QED
  BY <1>3 DEF s, e

\* resize_front and resize_back put copies at the end, or remove what is too much.
LEMMA ResizeFrontElements ==
  ASSUME NEW d, NEW kept, NEW m0, Good(d, kept, m0), Divides, NEW sz \in Nat,
         NEW x \in Object, NEW e \in ResizeFront(d, sz, x)
  PROVE  /\ Good(e, kept, m0)
         /\ sz > SizeOf(d) => Prefixed(d, e, Copies(sz - SizeOf(d), x))
         /\ ~(sz > SizeOf(d)) => SizeOf(e) = sz /\ PartOf(d, e, SizeOf(d) - sz)
<1>0. SizeOf(d) \in Nat
  BY GoodNumbers
<1>1. CASE sz >= SizeOf(d)
  <2> DEFINE n == sz - SizeOf(d)
             xs == Copies(n, x)
  <2>1. n \in Nat /\ n = sz - SizeOf(d)
    BY <1>0, <1>1
  <2>2. e \in PushFront(d, xs)[n]
    BY <1>1 DEF ResizeFront
  <2> HIDE DEF n
  <2>3. xs \in Seq(Object) /\ Len(xs) = n
    BY <2>1, CopiesAre
  <2> HIDE DEF xs
  <2>4. n \in 0 .. Len(xs) /\ LastPart(xs, n) = xs
    BY <2>1, <2>3, WholeParts
  <2>5. Good(e, kept, m0) /\ Prefixed(d, e, xs)
    BY <2>2, <2>3, <2>4, PushFrontPrefixed
  <2>6. CASE sz > SizeOf(d)
    BY <2>5, <2>6 DEF xs, n
  <2>7. CASE ~(sz > SizeOf(d))
    <3>1. n = 0 /\ sz = SizeOf(d) /\ SizeOf(d) - sz = 0
      BY <1>0, <1>1, <2>1, <2>7
    <3>2. SizeOf(e) = SizeOf(d) /\ \A i \in 1 .. SizeOf(d) : SameElement(d, 0 + i, e, i)
      <4>1. SizeOf(e) = SizeOf(d) + 0 /\ \A i \in 1 .. SizeOf(d) : SameElement(d, i, e, 0 + i)
        BY <2>3, <2>5, <3>1 DEF Prefixed
      <4>2. SizeOf(d) + 0 = SizeOf(d) /\ \A i \in 1 .. SizeOf(d) : 0 + i = i
        BY <1>0
      <4> QED
        BY <4>1, <4>2
    <3> QED
      BY <2>5, <2>7, <3>1, <3>2 DEF PartOf
  <2> QED
    BY <2>6, <2>7
<1>2. CASE ~(sz >= SizeOf(d))
  <2> DEFINE n == SizeOf(d) - sz
  <2>1. n \in Nat /\ n =< SizeOf(d) /\ ~(sz > SizeOf(d)) /\ SizeOf(d) - n = sz
    BY <1>0, <1>2
  <2>2. e = EraseAtBegin(d, n)
    BY <1>2 DEF ResizeFront
  <2> HIDE DEF n
  <2>3. Good(e, kept, m0) /\ SizeOf(e) = SizeOf(d) - n /\ PartOf(d, e, n)
    BY <2>1, <2>2, EraseAtBeginElements
  <2> QED
    BY <2>1, <2>3 DEF n
<1> QED
  BY <1>1, <1>2

LEMMA ResizeBackElements ==
  ASSUME NEW d, NEW kept, NEW m0, Good(d, kept, m0), Divides, NEW sz \in Nat,
         NEW x \in Object, NEW e \in ResizeBack(d, sz, x)
  PROVE  /\ Good(e, kept, m0)
         /\ sz > SizeOf(d) => Suffixed(d, e, Copies(sz - SizeOf(d), x))
         /\ ~(sz > SizeOf(d)) => SizeOf(e) = sz /\ PartOf(d, e, 0)
<1>0. SizeOf(d) \in Nat
  BY GoodNumbers
<1>1. CASE sz >= SizeOf(d)
  <2> DEFINE n == sz - SizeOf(d)
             xs == Copies(n, x)
  <2>1. n \in Nat /\ n = sz - SizeOf(d)
    BY <1>0, <1>1
  <2>2. e \in PushBack(d, xs)[n]
    BY <1>1 DEF ResizeBack
  <2> HIDE DEF n
  <2>3. xs \in Seq(Object) /\ Len(xs) = n
    BY <2>1, CopiesAre
  <2> HIDE DEF xs
  <2>4. n \in 0 .. Len(xs) /\ FirstPart(xs, n) = xs
    BY <2>1, <2>3, WholeParts
  <2>5. Good(e, kept, m0) /\ Suffixed(d, e, xs)
    BY <2>2, <2>3, <2>4, PushBackSuffixed
  <2>6. CASE sz > SizeOf(d)
    BY <2>5, <2>6 DEF xs, n
  <2>7. CASE ~(sz > SizeOf(d))
    <3>1. n = 0 /\ sz = SizeOf(d)
      BY <1>0, <1>1, <2>1, <2>7
    <3>2. SizeOf(e) = SizeOf(d) /\ \A i \in 1 .. SizeOf(d) : SameElement(d, 0 + i, e, i)
      <4>1. SizeOf(e) = SizeOf(d) + 0 /\ \A i \in 1 .. SizeOf(d) : SameElement(d, i, e, i)
        BY <2>3, <2>5, <3>1 DEF Suffixed
      <4>2. SizeOf(d) + 0 = SizeOf(d) /\ \A i \in 1 .. SizeOf(d) : 0 + i = i
        BY <1>0
      <4> QED
        BY <4>1, <4>2
    <3> QED
      BY <2>5, <2>7, <3>1, <3>2 DEF PartOf
  <2> QED
    BY <2>6, <2>7
<1>2. CASE ~(sz >= SizeOf(d))
  <2>1. sz =< SizeOf(d) /\ ~(sz > SizeOf(d))
    BY <1>0, <1>2
  <2>2. e = EraseAtEnd(d, sz)
    BY <1>2 DEF ResizeBack
  <2>3. Good(e, kept, m0) /\ SizeOf(e) = sz /\ PartOf(d, e, 0)
    BY <2>1, <2>2, EraseAtEndElements
  <2> QED
    BY <2>1, <2>3
<1> QED
  BY <1>1, <1>2

\* Where exchanging elements does not throw, an insertion of one element that throws
\* changes nothing, and one of a range leaves what it had pushed.
LEMMA EmplaceThrewUnmoved ==
  ASSUME NEW d, NEW kept, NEW m0, Good(d, kept, m0), ~ShiftMayThrow, NEW index, NEW x,
         NEW e \in EmplaceThrew(d, index, x)
  PROVE  Unmoved(d, e)
<1>1. e \in EmplaceFrontThrew(d) \/ e \in EmplaceBackThrew(d)
  BY DEF EmplaceThrew
<1>2. Good(e, kept, m0) /\ Grown(d, e, 0, 0)
  BY <1>1, EmplaceFrontThrewGood, EmplaceBackThrewGood
<1> QED
  BY <1>2, GrownUnmoved

\* The elements of d with the first, or the last, elements of xs at an end.
PartlyInserted(d, e, xs) ==
  \E k \in 0 .. Len(xs) - 1 :
    \/ Contents(e) = Contents(d) \o FirstPart(xs, k)
    \/ Contents(e) = LastPart(xs, k) \o Contents(d)

LEMMA InsertRangeThrewElements ==
  ASSUME NEW d, NEW kept, NEW m0, Good(d, kept, m0), Divides, ~ShiftMayThrow,
         NEW xs \in Seq(Object), NEW index, NEW bidirectional,
         NEW e \in InsertRangeThrew(d, index, xs, bidirectional)
  PROVE  PartlyInserted(d, e, xs)
<1>1. e \in PushFrontThrew(d, xs) \/ e \in PushBackThrew(d, xs)
  BY DEF InsertRangeThrew
<1>2. ASSUME NEW k \in 0 .. Len(xs) - 1
      PROVE  FirstPart(xs, k) \in Seq(Object) /\ LastPart(xs, k) \in Seq(Object)
  <2>1. k \in 0 .. Len(xs)
    OBVIOUS
  <2> QED
    BY <2>1, PartsAre
<1>3. CASE e \in PushFrontThrew(d, xs)
  <2>1. PICK k \in 0 .. Len(xs) - 1 : Good(e, kept, m0) /\ Prefixed(d, e, LastPart(xs, k))
    BY <1>3, PushFrontThrewPrefixed
  <2>2. Contents(e) = LastPart(xs, k) \o Contents(d)
    BY <1>2, <2>1, PrefixedIs
  <2> QED
    BY <2>1, <2>2 DEF PartlyInserted
<1>4. CASE e \in PushBackThrew(d, xs)
  <2>1. PICK k \in 0 .. Len(xs) - 1 : Good(e, kept, m0) /\ Suffixed(d, e, FirstPart(xs, k))
    BY <1>4, PushBackThrewSuffixed
  <2>2. Contents(e) = Contents(d) \o FirstPart(xs, k)
    BY <1>2, <2>1, SuffixedIs
  <2> QED
    BY <2>1, <2>2 DEF PartlyInserted
<1> QED
  BY <1>1, <1>3, <1>4

LEMMA StableInsertThrewElements ==
  ASSUME NEW d, NEW kept, NEW m0, Good(d, kept, m0), Divides, ~ShiftMayThrow,
         NEW xs \in Seq(Object), NEW index, NEW bidirectional,
         NEW e \in StableInsertThrew(d, index, xs, bidirectional)
  PROVE  PartlyInserted(d, e, xs)
<1>1. CASE \/ e \in InsertRangeThrew(d, index, xs, bidirectional)
           \/ e \in InsertRangeThrew(d, 0, xs, bidirectional)
  BY <1>1, InsertRangeThrewElements
<1>2. CASE e = d /\ Len(xs) > 0
  <2>1. 0 \in 0 .. Len(xs) - 1 /\ 0 \in 0 .. Len(xs)
    BY <1>2
  <2>2. Contents(d) = Contents(d) \o FirstPart(xs, 0)
    <3>1. FirstPart(xs, 0) \in Seq(Object) /\ Len(FirstPart(xs, 0)) = 0
      BY <2>1, PartsAre
    <3>2. FirstPart(xs, 0) = << >>
      BY <3>1
    <3>3. Contents(d) \in Seq(Object)
      BY ContentsAre
    <3> QED
      BY <3>2, <3>3
  <2> QED
    BY <1>2, <2>1, <2>2 DEF PartlyInserted
<1> QED
  BY <1>1, <1>2 DEF StableInsertThrew

-----------------------------------------------------------------------------
\* What invariants_ok() and the ownership of segments and objects say of a good object

LEMMA GoodFits ==
  ASSUME NEW d, NEW kept, NEW m0, Good(d, kept, m0)
  PROVE  /\ InvariantsOk(d) /\ Map!InvariantsOk(d.map)
         /\ d.end.at = d.map.back => d.end.index = 0
<1>1. Shaped(d)
  BY DEF Good
<1>2. /\ d.begin \in Iterators /\ d.end \in Iterators
      /\ First(d) \in Int /\ Past(d) \in Int
      /\ d.map.front * SegmentSize \in Int /\ d.map.back * SegmentSize \in Int
      /\ Locate(First(d)) = d.begin /\ Locate(Past(d)) = d.end
      /\ d.map.front \in Nat /\ d.map.back \in Nat
      /\ d.map.front * SegmentSize =< First(d) /\ First(d) =< Past(d)
      /\ Past(d) =< d.map.back * SegmentSize
  BY <1>1, ShapedNumbers DEF Shaped, Bounded
<1>3. Map!InvariantsOk(d.map)
  <2>1. MapP!InvariantsOk(d.map)
    BY <1>1 DEF Shaped, MapGood, MapP!Good
  <2> QED
    BY <2>1, MapSameInvariantsOk
<1>4. Map!SizeOf(d.map) = 0 => d.begin = d.end
  <2>1. SUFFICES ASSUME d.map.front = d.map.back PROVE d.begin = d.end
    BY <1>2 DEF Map!SizeOf
  <2>2. First(d) = Past(d)
    BY <1>2, <2>1
  <2> QED
    BY <1>2, <2>2
<1>5. /\ d.map.front =< d.begin.at
      /\ d.end.at =< d.map.back /\ (d.end.at = d.map.back => d.end.index = 0)
  <2>1. MapGood(d.map)
    BY <1>1 DEF Shaped
  <2>2. /\ d.map.front * SegmentSize =< Past(d)
        /\ First(d) =< d.map.back * SegmentSize
    BY <1>2
  <2> QED
    BY <1>2, <2>1, <2>2, InMap DEF First, Past
<1>6. /\ d.begin.at \in Int /\ d.begin.index < SegmentSize
      /\ d.end.index < SegmentSize
  BY <1>2, SegmentAssumption DEF Iterators, Indices
<1> QED
  BY <1>2, <1>3, <1>4, <1>5, <1>6 DEF InvariantsOk

LEMMA GoodOwns ==
  ASSUME NEW d, NEW m0, Good(d, {}, m0)
  PROVE  SegmentsOwned(d)
  BY DEF Good, Owned, SegmentsOwned

LEMMA GoodHolds ==
  ASSUME NEW d, NEW kept, NEW m0, Good(d, kept, m0)
  PROVE  /\ \A p \in First(d) .. Past(d) - 1 : Cell(d, p) # Raw
         /\ First(d) \in Int /\ Past(d) \in Int
<1>1. Shaped(d) /\ Owned(d, kept) /\ Filled(d) /\ First(d) \in Int /\ Past(d) \in Int
  BY GoodNumbers DEF Good
<1>2. ASSUME NEW p \in First(d) .. Past(d) - 1 PROVE Cell(d, p) # Raw
  <2>1. p \in Int /\ First(d) =< p /\ p < Past(d)
    BY <1>1
  <2>2. Cell(d, p) \in Object
    BY <1>1, <2>1, ElementObject
  <2> QED
    BY <2>2, BatchAssumption DEF Object
<1> QED
  BY <1>1, <1>2

LEMMA GoodLives ==
  ASSUME NEW d, NEW m0, Good(d, {}, m0), ~ShiftMayThrow
  PROVE  LiveExactly(d)
<1>1. Shaped(d) /\ Owned(d, {}) /\ Tidy(d)
  BY DEF Good
<1>2. ASSUME NEW s \in Segments, NEW i \in Indices, d.mem[s][i] # Raw
      PROVE  \E a \in MapSlots(d) :
               /\ d.map.slots[a] = s
               /\ a * SegmentSize + i \in First(d) .. Past(d) - 1
  <2>1. s \in d.allocated
    BY <1>1, <1>2 DEF Tidy, EmptySegment
  <2>2. PICK a \in MapSlots(d) : d.map.slots[a] = s
    BY <1>1, <2>1 DEF Owned
  <2>3. Within(d, a, i)
    BY <1>1, <1>2, <2>2 DEF Tidy
  <2>4. a * SegmentSize + i \in Int
    BY <1>1, PlaceInMap
  <2>5. First(d) \in Int /\ Past(d) \in Int
    BY GoodHolds
  <2> DEFINE x == a * SegmentSize + i
  <2>6. First(d) =< x /\ x < Past(d) /\ x \in Int
    BY <2>3, <2>4 DEF Within
  <2> HIDE DEF x
  <2>7. x \in First(d) .. Past(d) - 1
    BY <2>5, <2>6
  <2> QED
    BY <2>2, <2>7 DEF x
<1> QED
  BY <1>2, GoodHolds DEF LiveExactly

-----------------------------------------------------------------------------
\* The segment iterators

\* The segments with elements, as the segment iterators see them.
LEMMA SegmentNumbers ==
  ASSUME NEW d, Shaped(d)
  PROVE  LET last == SegmentEnd(d.end).at - d.begin.at
         IN  /\ last \in Nat /\ d.begin.at \in Int /\ d.begin.index \in Indices
             /\ d.end.at \in Int /\ d.end.index \in Indices /\ d.begin.at =< d.end.at
             /\ SegmentEnd(d.end) = It(d.begin.at + last, 0)
             /\ last = 0 => d.begin.index = 0
             /\ \A k \in Nat : k < last =>
                  \/ d.begin.at + k < d.end.at
                  \/ d.begin.at + k = d.end.at /\ d.end.index > 0
<1> DEFINE ba == d.begin.at
           bi == d.begin.index
           ea == d.end.at
           ei == d.end.index
           to == SegmentEnd(d.end).at
<1>1. /\ ba \in Int /\ bi \in Indices /\ ea \in Int /\ ei \in Indices
      /\ bi \in Nat /\ ei \in Nat
      /\ ba * SegmentSize + bi =< ea * SegmentSize + ei
  <2>1. d.begin \in Iterators /\ d.end \in Iterators /\ First(d) =< Past(d)
    BY ShapedNumbers DEF Shaped, Bounded
  <2> QED
    BY <2>1, SegmentAssumption DEF Iterators, Indices, First, Past, Position
<1>2. to = ea + (IF ei > 0 THEN 1 ELSE 0) /\ SegmentEnd(d.end) = It(to, 0)
  BY DEF SegmentEnd, It
<1> HIDE DEF ba, bi, ea, ei, to
<1>3. ba =< ea
  <2>1. ba * SegmentSize \in Int /\ ea * SegmentSize \in Int
    BY <1>1, Distribute
  <2> DEFINE x == ba * SegmentSize
             y == ea * SegmentSize
  <2>2. x \in Int /\ y \in Int /\ x + bi =< y + ei
    BY <1>1, <2>1
  <2> HIDE DEF x, y
  <2>3. x =< y + ei
    BY <1>1, <2>2
  <2> QED
    BY <1>1, <2>3, PlaceOrder DEF x, y
<1>4. to - ba \in Nat /\ ba + (to - ba) = to
  BY <1>1, <1>2, <1>3
<1>5. ASSUME to = ba PROVE bi = 0
  <2>1. ea = ba /\ ei = 0
    BY <1>1, <1>2, <1>3, <1>5
  <2>2. ba * SegmentSize + bi =< ba * SegmentSize
    <3>1. ba * SegmentSize \in Int
      BY <1>1, Distribute
    <3>2. ba * SegmentSize + bi =< ba * SegmentSize + 0
      BY <1>1, <2>1
    <3> QED
      BY <3>1, <3>2
  <2> QED
    BY <1>1, <2>2, UpTo
<1>6. \A k \in Nat : k < to - ba => ba + k < ea \/ (ba + k = ea /\ ei > 0)
  BY <1>1, <1>2, <1>3
<1>7. to - ba = 0 => bi = 0
  BY <1>1, <1>2, <1>5
<1> QED
  BY <1>1, <1>2, <1>3, <1>4, <1>6, <1>7 DEF ba, bi, ea, ei, to

=============================================================================
