----------------------------- MODULE MCBatchDeque -----------------------------
\* For TLC: the calls made, and what of the object decides how it goes on.
EXTENDS BatchDeque

Ends == {"emplace_front", "emplace_back", "pop_front", "pop_back"}

EveryCall ==
  Ends \cup {"clear", "resize_front", "resize_back", "reserve_front", "reserve_back",
             "shrink_to_fit", "insert", "stable_insert", "erase", "assign"}

\* What a call does depends neither on the call before it nor on which segments the
\* map points to, only on what they hold: states that differ in these need to be
\* continued once.
TheObject ==
  <<dq.map.cap, dq.map.front, dq.begin, dq.end,
    [a \in MapSlots(dq) |-> dq.mem[dq.map.slots[a]]],
    \* segments that leaked, and what they hold
    dq.allocated = {dq.map.slots[a] : a \in MapSlots(dq)},
    {dq.mem[s] : s \in Segments \ {dq.map.slots[a] : a \in MapSlots(dq)}}>>

=============================================================================
