----------------------------- MODULE MCDevectorPairs ----------------------------
\* Values for the constants of DevectorPairs, for TLC.
EXTENDS DevectorPairs, TLC

Doubling == [c \in Size |-> IF c = 0 THEN 2 ELSE (2 * c) % (SizeMax + 1)]

Always(size, capacity) == TRUE

\* What a call does depends neither on the call before it, nor on which buffers are in
\* use or how the two are named; what the latest call returned is judged of the step.
TheObjects ==
  <<small, propagates, at["a"] = at["b"],
    {<<obj[o], alloc[o], at[o] = o, at[o] \in Buffers /\ heap[at[o]] = alloc[o]>> :
       o \in Names}>>

\* Nothing tells the allocators apart but that they are not equal.
Symmetry == Permutations(Allocators)

=============================================================================
