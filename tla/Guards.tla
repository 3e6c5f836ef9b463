--------------------------------- MODULE Guards ---------------------------------
(***************************************************************************)
(* The guards of detail/guards.hpp.  A construction_guard is a record      *)
(*                                                                         *)
(*   at     _alloc_ptr, as the number of a slot    count  _elem_count      *)
(*                                                                         *)
(* Its destructor destroys the objects in count slots from `at` on, one    *)
(* after the other.  nand_construction_guard is two of them, for the       *)
(* source and the copy of a range, and one flag.                           *)
(***************************************************************************)
EXTENDS Integers

NewGuard(at) == [at |-> at, count |-> 0]

\* Mutant: the next slot is guarded instead of one slot more.
ExtendMoves(g) == [at |-> g.at + 1, count |-> 1]

Extend(g)  == [g EXCEPT !.count = @ + 1]
Release(g) == [g EXCEPT !.count = 0]

\* The slots whose objects the destructor would destroy
Guarded(g) == g.at .. g.at + g.count - 1

\* One round of the destructor's loop: it destroys the object at g.at.
AfterOne(g) == [at |-> g.at + 1, count |-> g.count - 1]

\* The destructor is finished.
Spent(g) == g.count = 0

\* nand_construction_guard: src and dst grow together.
NewNand(src, dst) ==
  [src |-> NewGuard(src), dst |-> NewGuard(dst), released |-> FALSE]

ExtendNand(g) == [g EXCEPT !.src = Extend(@), !.dst = Extend(@)]

ReleaseNand(g) == [g EXCEPT !.dst = Release(@), !.released = TRUE]

\* Mutant: the test of the flag is inverted.
DestructNandInverted(g) == IF g.released THEN [g EXCEPT !.src = Release(@)] ELSE g

\* The destructor's body; the destructors of dst and src follow.
DestructNand(g) == IF ~g.released THEN [g EXCEPT !.src = Release(@)] ELSE g

=============================================================================
