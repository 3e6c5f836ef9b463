------------------------------ MODULE MCDevector ------------------------------
\* Values for the constants of Devector, for TLC.
EXTENDS Devector

\* A policy that doubles, wrapping around as unsigned arithmetic does.
Doubling == [c \in Size |-> IF c = 0 THEN 3 ELSE (2 * c) % (SizeMax + 1)]

\* The shrink policy of devector_growth_policy
FitsSmallBuffer(size, capacity) == size =< SBuf

\* What a call does depends on the object, not on the call before it: states that
\* differ in `call` only need to be continued once.
TheObject == dv

=============================================================================
