---------------------------- MODULE MCBatchDequePair ----------------------------
\* For TLC: what of the two objects decides how they go on.
EXTENDS BatchDequePair, TLC

Shape(d) ==
  <<d.map.cap, d.map.front, d.begin, d.end,
    [a \in MapSlots(d) |-> d.mem[d.map.slots[a]]],
    d.allocated = {d.map.slots[a] : a \in MapSlots(d)}>>

\* What a call does depends neither on the call before it, nor on how segments are
\* numbered or the two are named; what the latest call returned is judged of the step.
TheObjects ==
  <<propagates,
    {<<Shape(obj[o]), [a \in MapSlots(obj[o]) |-> source[o][obj[o].map.slots[a]] = alloc[o]],
       alloc[o]>> : o \in Names},
    call.out = "asserted">>

\* Nothing tells the allocators apart but that they are not equal.
Symmetry == Permutations(Allocators)

=============================================================================
