---------------------------- MODULE MCSerialization ----------------------------
\* Values for the constants of Serialization, for TLC.
EXTENDS Serialization

Doubling == [c \in 0 .. MaxSize |-> IF c = 0 THEN 2 ELSE (2 * c) % (SizeMax + 1)]

Always(size, capacity) == TRUE

\* What a call does to a batch_deque depends neither on the call before it nor on how
\* segments are numbered.
Shape ==
  <<dq.map.cap, dq.map.front, dq.begin, dq.end,
    [a \in Deque!MapSlots(dq) |-> dq.mem[dq.map.slots[a]]],
    dq.allocated = {dq.map.slots[a] : a \in Deque!MapSlots(dq)}>>

TheState == <<kind, archive, IF dq = NoContainer THEN <<dv, call>> ELSE Shape>>

=============================================================================
