--------------------------- MODULE MCDevectorReserve ---------------------------
\* Values for the constants of DevectorReserve, for TLC.
EXTENDS DevectorReserve

\* The growth policy of the library, scaled down: n times the capacity, wrapping.
Tripling == [c \in Size |-> IF c = 0 THEN 2 ELSE (3 * c) % (SizeMax + 1)]

\* shrink_to_fit is never refused.
Always(size, capacity) == TRUE

\* `call` only reports what the step did.
ObjectAndPromise == <<dv, owedFront, owedBack>>

=============================================================================
