----------------------------- MODULE Serialization -----------------------------
(***************************************************************************)
(* Saving and loading, for each kind of container: devectors and           *)
(* batch_deques, of trivially copyable elements and of others.  The kind   *)
(* is chosen once.                                                         *)
(*                                                                         *)
(* Trivially copyable elements go to an archive that reads as it pleases,  *)
(* the others to one that reads only what one call wrote.                  *)
(***************************************************************************)
EXTENDS Integers, Sequences

CONSTANTS
  Values, Raw, Unspec, Default, SelfMoveKeeps, ShiftMayThrow,  \* of both
  SBuf, SizeMax, MaxSize, Growth, AllowsShrink(_, _),          \* of DevectorOps
  SegmentSize, Word, MaxSegments, MapMax,                      \* of BatchDequeOps
  MaxLen    \* bound: the largest size() a caller brings about

ASSUME SerializationAssumption ==
  Default \in Values /\ MaxLen \in 0 .. MaxSize

VARIABLES kind, dv, dq, archive, call

loadVars == <<kind, dv, dq, archive, call>>

TrivialDevector == INSTANCE DevectorSerialization WITH
                     Trivial <- TRUE, NewCapacity <- Growth, ShouldShrink <- AllowsShrink,
                     MaxSaved <- MaxLen, vec <- dv, latest <- call
Devector        == INSTANCE DevectorSerialization WITH
                     Trivial <- FALSE, NewCapacity <- Growth, ShouldShrink <- AllowsShrink,
                     SBuf <- 0, MaxSaved <- MaxLen, vec <- dv, latest <- call
TrivialDeque    == INSTANCE BatchDequeSerialization WITH
                     Trivial <- TRUE, Seamless <- TRUE,
                     MaxSaved <- MaxLen, deque <- dq, latest <- call
Deque           == INSTANCE BatchDequeSerialization WITH
                     Trivial <- FALSE, Seamless <- FALSE,
                     MaxSaved <- MaxLen, deque <- dq, latest <- call

NoContainer == << >>

Init ==
  \/ kind = "trivial devector" /\ TrivialDevector!SerialInit /\ dq = NoContainer
  \/ kind = "devector" /\ Devector!SerialInit /\ dq = NoContainer
  \/ kind = "trivial batch_deque" /\ TrivialDeque!SerialInit /\ dv = NoContainer
  \/ kind = "batch_deque" /\ Deque!SerialInit /\ dv = NoContainer

Next ==
  /\ UNCHANGED kind
  /\ \/ kind = "trivial devector" /\ TrivialDevector!SerialNext /\ UNCHANGED dq
     \/ kind = "devector" /\ Devector!SerialNext /\ UNCHANGED dq
     \/ kind = "trivial batch_deque" /\ TrivialDeque!SerialNext /\ UNCHANGED dv
     \/ kind = "batch_deque" /\ Deque!SerialNext /\ UNCHANGED dv

Spec == Init /\ [][Next]_loadVars

-----------------------------------------------------------------------------
\* The container is whole, and once a load has returned or thrown, however far it came,
\* every element is an object and no other object is left.
LoadLeavesObjects ==
  CASE kind = "trivial devector"    -> TrivialDevector!LeavesObjects
    [] kind = "devector"            -> Devector!LeavesObjects
    [] kind = "trivial batch_deque" -> TrivialDeque!LeavesObjects
    [] kind = "batch_deque"         -> Deque!LeavesObjects

\* What is saved can be loaded, and is what the container then holds, whatever it held
\* and wherever its free capacity was.
LoadRestores ==
  [][call'.op = "load" =>
       IF dq = NoContainer THEN Devector!Restores ELSE Deque!Restores]_loadVars

\* A load that fits into the memory there is allocates none.
LoadReusesMemory ==
  [][call'.op = "load" =>
       IF dq = NoContainer THEN Devector!ReusesMemory ELSE Deque!ReusesMemory]_loadVars

\* unsafe_uninitialized_resize_front and _back change the size at their end and keep
\* the elements there are, also when they reallocate.
UnsafeResizeKeeps == [][dq = NoContainer => Devector!ResizeKeeps]_loadVars

=============================================================================
