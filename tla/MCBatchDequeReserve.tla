-------------------------- MODULE MCBatchDequeReserve --------------------------
\* For TLC: the calls made, and what decides how the object goes on.
EXTENDS BatchDequeReserve

ReservingCalls ==
  {"emplace_front", "emplace_back", "pop_front", "pop_back", "resize_front",
   "resize_back", "reserve_front", "reserve_back", "shrink_to_fit", "insert",
   "stable_insert", "erase", "assign", "clear"}

\* Segments differ in what they hold only: which of them the map points to is left
\* out, and so are the values of the objects in them, and owedBack, on which nothing
\* else depends.
Occupied(cells) == [i \in DOMAIN cells |-> cells[i] # Raw]

TheObject ==
  <<dq.map.cap, dq.map.front, dq.begin, dq.end,
    [a \in MapSlots(dq) |-> Occupied(dq.mem[dq.map.slots[a]])],
    dq.allocated = {dq.map.slots[a] : a \in MapSlots(dq)}, owedFront>>

=============================================================================
