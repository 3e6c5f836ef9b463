------------------------- MODULE DevectorSerialization -------------------------
(***************************************************************************)
(* A devector that is saved to an archive and loaded from it by Boost.     *)
(* Serialization, and whose caller changes its size without constructing   *)
(* or destroying elements, as the load of trivially copyable ones does.    *)
(*                                                                         *)
(* An archive is what one save wrote: the size and the elements.  Reading  *)
(* it can throw at any element.                                            *)
(***************************************************************************)
EXTENDS DevectorOps

CONSTANTS
  Trivial, \* T is trivially copyable
  Default, \* the value of a default constructed element
  MaxSaved \* bound: the largest size() a caller brings about

VARIABLES
  vec,     \* the devector, see DevectorOps
  archive, \* the elements saved
  latest   \* the latest call

serialVars == <<vec, archive, latest>>

SerialInit ==
  /\ \E m, n \in 0 .. MaxSaved : m + n =< MaxSaved /\ vec = Reserved(m, n)
  /\ archive = << >>
  /\ latest = [op |-> "construct", n |-> 0, out |-> "ok"]

Recorded(op, n, out) == latest' = [op |-> op, n |-> n, out |-> out]

Initialized(d) == \A a \in d.front .. d.back - 1 : d.slots[a] # Raw

\* Trivially copyable elements need no destruction: outside the indices there is
\* storage only.
Forget(d) ==
  [d EXCEPT !.slots = [a \in Address |->
                         IF d.front =< a /\ a < d.back THEN @[a] ELSE Raw]]

-----------------------------------------------------------------------------
\* The caller's own operations; the first four need initialized elements.

Push(x) ==
  /\ Initialized(vec) /\ SizeOf(vec) < MaxSaved
  /\ \/ EmplaceFrontOk(vec) /\ vec' = EmplaceFront(vec, x)
     \/ EmplaceBackOk(vec) /\ vec' = EmplaceBack(vec, x)
  /\ UNCHANGED archive /\ Recorded("push", 1, "ok")

Pop ==
  /\ Initialized(vec) /\ SizeOf(vec) > 0
  /\ vec' \in {PopFront(vec, 1), PopBack(vec, 1)}
  /\ UNCHANGED archive /\ Recorded("pop", 1, "ok")

\* save
Save ==
  /\ Initialized(vec)
  /\ archive' = Contents(vec)
  /\ UNCHANGED vec /\ Recorded("save", SizeOf(vec), "ok")

\* unsafe_uninitialized_resize_front(n), n > size()
GrowFront(n) ==
  /\ UnsafeResizeFrontOk(vec, n)
  /\ vec' = UnsafeResizeFront(vec, n)
  /\ UNCHANGED archive /\ Recorded("grow front", n, "ok")

GrowBack(n) ==
  /\ UnsafeResizeBackOk(vec, n)
  /\ vec' = UnsafeResizeBack(vec, n)
  /\ UNCHANGED archive /\ Recorded("grow back", n, "ok")

\* The caller initializes what is not.
Fill(x) ==
  /\ ~Initialized(vec)
  /\ vec' = [vec EXCEPT !.slots =
              [a \in Address |-> IF vec.front =< a /\ a < vec.back /\ @[a] = Raw
                                 THEN x ELSE @[a]]]
  /\ UNCHANGED archive /\ Recorded("fill", 0, "ok")

\* The caller destroys what it then removes.
ShrinkFront(n) ==
  LET keep == vec.back - n
  IN  /\ vec' = UnsafeResizeFront(
                 [vec EXCEPT !.slots = Destroy(@, vec.front, keep)], n)
      /\ UNCHANGED archive /\ Recorded("shrink front", n, "ok")

ShrinkBack(n) ==
  LET keep == vec.front + n
  IN  /\ vec' = UnsafeResizeBack(
                 [vec EXCEPT !.slots = Destroy(@, keep, vec.back)], n)
      /\ UNCHANGED archive /\ Recorded("shrink back", n, "ok")

-----------------------------------------------------------------------------
\* load

\* Mutant: the elements are not taken into account.
ToFrontOfFree(d, n) == Smaller(FrontFree(d), n)

\* How many elements it makes use of the front for
ToFront(d, n) == Smaller(FrontFree(d) + SizeOf(d), n)

\* Mutant: c.size() is read before the front is resized.
SizeToReachOld(d, front, n) == n - ToFront(d, n) + SizeOf(d)

\* new_size - to_front + c.size()
SizeToReach(d, front, n) == n - ToFront(d, n) + SizeOf(front)

\* The devector with n elements to be read over; empty if it cannot have as many.
ResizedTrivially(d, n) ==
  LET front == UnsafeResizeFront(d, ToFront(d, n))
  IN  IF n =< d.cap THEN {UnsafeResizeBack(front, SizeToReach(d, front, n))}
      ELSE {UnsafeResizeBack(e, n) :
              e \in {e \in {Clear(d)} : UnsafeResizeBackOk(e, n)}}

ResizedByElement(d, n) ==
  LET front == ResizeFront(d, ToFront(d, n), Default)
      size  == SizeToReach(d, front, n)
  IN  IF n =< d.cap
      THEN IF ResizeBackOk(front, size) THEN {ResizeBack(front, size, Default)} ELSE {}
      ELSE {ResizeBack(e, n, Default) : e \in {e \in {Clear(d)} : ResizeBackOk(e, n)}}

Resized(d, n) ==
  IF Trivial THEN {Forget(e) : e \in ResizedTrivially(d, n)}
  ELSE ResizedByElement(d, n)

\* An allocation throws, or a default constructor when elements are constructed.
ResizeThrew(d, n) ==
  LET toFront == ToFront(d, n)
  IN  IF n > d.cap THEN {Clear(d)}
      ELSE IF Trivial THEN {}
      ELSE (IF toFront > SizeOf(d) THEN {d} ELSE {}) \cup
           (IF n > toFront THEN {ResizeFront(d, toFront, Default)} ELSE {})

\* The first k elements were read.
Read(d, k) == [d EXCEPT !.slots = Put(@, d.front, FirstOf(archive, k))]

Load ==
  /\ Initialized(vec)
  /\ \E d \in Resized(vec, Len(archive)) : vec' = Read(d, Len(archive))
  /\ UNCHANGED archive /\ Recorded("load", Len(archive), "ok")

\* Mutant: the handler leaves the size as it is.
AfterReadThrewNoHandler(d, k) == Read(d, k)

\* Reading element k + 1 throws: load_trivial removes all of them.
AfterReadThrew(d, k) ==
  IF Trivial THEN Forget(UnsafeResizeBack(Read(d, k), 0)) ELSE Read(d, k)

LoadThrows ==
  /\ Initialized(vec) /\ Len(archive) > 0
  /\ \/ \E d \in Resized(vec, Len(archive)), k \in 0 .. Len(archive) - 1 :
          vec' = AfterReadThrew(d, k)
     \/ vec' \in ResizeThrew(vec, Len(archive))
  /\ UNCHANGED archive /\ Recorded("load", Len(archive), "threw")

SerialNext ==
  \/ \E x \in Values : Push(x) \/ Fill(x)
  \/ Pop \/ Save \/ Load \/ LoadThrows
  \/ \E n \in SizeOf(vec) + 1 .. MaxSaved : GrowFront(n) \/ GrowBack(n)
  \/ \E n \in 0 .. SizeOf(vec) : ShrinkFront(n) \/ ShrinkBack(n)

SerialSpec == SerialInit /\ [][SerialNext]_serialVars

-----------------------------------------------------------------------------
\* devector::invariants_ok() holds and no object lies outside the elements, and once a
\* load has returned or thrown, however far it came, every element is an object.
LeavesObjects ==
  /\ InvariantsOk(vec) /\ BufferMatches(vec)
  /\ \A a \in Address : vec.slots[a] # Raw => vec.front =< a /\ a < vec.back
  /\ latest.op = "load" => Initialized(vec)

\* The contents after a load are those saved.
Restores == latest'.out = "ok" => Contents(vec') = archive

\* With the elements moved to the front there is room for the rest.
ReusesMemory == Len(archive) =< vec.cap => vec'.cap = vec.cap

\* Growing without constructing keeps the elements that are there, in order, and adds
\* as many as asked for at the end asked for, also when it reallocates a buffer that
\* has uninitialized elements in it; shrinking removes those at that end.
LastOf(s, n) == SubSeq(s, Len(s) - n + 1, Len(s))

ResizeKeeps ==
  LET old == Contents(vec)
      new == Contents(vec')
      n   == Smaller(Len(old), Len(new))
  IN  /\ latest'.op \in {"grow front", "shrink front"} =>
           Len(new) = latest'.n /\ LastOf(new, n) = LastOf(old, n)
      /\ latest'.op \in {"grow back", "shrink back"} =>
           Len(new) = latest'.n /\ FirstOf(new, n) = FirstOf(old, n)

=============================================================================
