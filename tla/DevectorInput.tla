----------------------------- MODULE DevectorInput -----------------------------
(***************************************************************************)
(* A devector filled from input iterators, which can be read only once and *)
(* do not tell how many elements there are: the constructor, assign and    *)
(* insert from such a range, step by step.                                 *)
(*                                                                         *)
(* stream is what was not read yet.  What is read is gone from it, whether *)
(* or not it could be stored; after a call that threw it is of no account. *)
(***************************************************************************)
EXTENDS DevectorOps

CONSTANTS
  MaxBefore, \* bound: the size() when the call is made
  MaxFree,   \* bound: the free capacity at each end then
  MaxStream  \* bound: the length of the range

VARIABLES
  dv,       \* the devector, see DevectorOps
  request,  \* the call: which, the position relative to begin(), the whole range
  initial,  \* dv when the call was made (a history variable)
  next,     \* what comes next
  stream,   \* the elements not read yet
  range     \* the elements of the temporary devector that insert fills

inputVars == <<dv, request, initial, next, stream, range>>

Ranges(n) == UNION {[1 .. m -> Values] : m \in 0 .. n}

\* A devector with the elements xs, m free slots before them and n behind
Holding(m, xs, n) == PutBack(Reserved(m, Len(xs) + n), xs)

Devectors ==
  {d \in {Holding(m, xs, n) :
             m \in 0 .. MaxFree, n \in 0 .. MaxFree, xs \in Ranges(MaxBefore)} :
     d.cap =< MaxSize}

\* What insert_range asks of a new buffer is a size_type, it does not wrap around.
RequestFits(d, n) == FreeSlots(d) >= n \/ d.cap + n =< SizeMax

\* The constructor starts from an empty devector.
Requests(d) ==
  {[op |-> "assign", at |-> 0, xs |-> xs] : xs \in Ranges(MaxStream)} \cup
  {r \in {[op |-> "insert", at |-> i, xs |-> xs] :
            i \in 0 .. SizeOf(d), xs \in Ranges(MaxStream)} :
     r.at = SizeOf(d) \/ RequestFits(d, Len(r.xs))} \cup
  (IF d = Reserved(0, 0)
   THEN {[op |-> "construct", at |-> 0, xs |-> xs] : xs \in Ranges(MaxStream)} ELSE {})

\* insert at end() pushes; elsewhere it reads the whole range first.
FirstStep(r, d) ==
  IF r.op = "assign" THEN "overwrite"
  ELSE IF r.op = "construct" \/ r.at = SizeOf(d) THEN "push" ELSE "gather"

InputInit ==
  /\ dv \in Devectors
  /\ request \in Requests(dv)
  /\ initial = dv
  /\ next = FirstStep(request, dv)
  /\ stream = request.xs
  /\ range = << >>

-----------------------------------------------------------------------------
\* The number of elements overwrite_buffer_impl reads
Overwritten == Smaller(dv.cap, Len(stream))

\* Mutant: overwrite_buffer_impl takes `first` by value.
NotOverwrittenByValue == stream

NotOverwritten == Without(stream, Overwritten)

\* overwrite_buffer_impl(first, last)
Overwrite ==
  /\ next = "overwrite"
  /\ LET xs == FirstOf(stream, Overwritten)
     IN  \/ dv' = OverwriteBuffer(dv, xs) /\ next' = "push"
         \/ dv' \in AssignThrew(dv, xs) /\ next' = "threw"
  /\ stream' = NotOverwritten
  /\ UNCHANGED <<request, initial, range>>

\* emplace_back(*first++), push_back(*first++)
PushNext ==
  /\ next = "push" /\ stream # << >>
  /\ \/ /\ EmplaceBackOk(dv)
        /\ dv' = EmplaceBack(dv, Head(stream)) /\ next' = next
     \/ dv' = dv /\ next' = "threw"
  /\ stream' = Tail(stream)
  /\ UNCHANGED <<request, initial, range>>

AllPushed ==
  /\ next = "push" /\ stream = << >>
  /\ next' = "done"
  /\ UNCHANGED <<dv, request, initial, stream, range>>

\* temp_devector range(first, last): its destructor cleans up if something throws.
GatherNext ==
  /\ next = "gather" /\ stream # << >>
  /\ \/ range' = Append(range, Head(stream)) /\ next' = next
     \/ range' = << >> /\ next' = "threw"
  /\ stream' = Tail(stream)
  /\ UNCHANGED <<dv, request, initial>>

\* insert_range(position, range.begin(), range.end())
InsertGathered ==
  /\ next = "gather" /\ stream = << >>
  /\ \/ /\ InsertRangeOk(dv, Len(range))
        /\ dv' = InsertRange(dv, request.at, range)
        /\ next' = "done"
     \/ /\ dv' \in InsertRangeThrew(dv, request.at, range)
        /\ next' = "threw"
  /\ range' = << >>
  /\ UNCHANGED <<request, initial, stream>>

InputStep == Overwrite \/ PushNext \/ AllPushed \/ GatherNext \/ InsertGathered

InputSpec == InputInit /\ [][InputStep]_inputVars

-----------------------------------------------------------------------------
\* The devector is whole: its members, its buffer and the objects in it fit each other.
Whole == InvariantsOk(dv) /\ BufferMatches(dv) /\ LiveExactly(dv)

\* None of the elements read is lost, read twice or out of place.
ReadInOrder ==
  LET old == Contents(initial)
      xs  == request.xs
  IN  next = "done" =>
        Contents(dv) = IF request.op # "insert" THEN xs
                       ELSE SubSeq(old, 1, request.at) \o xs \o Without(old, request.at)

=============================================================================
