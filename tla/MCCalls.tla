-------------------------------- MODULE MCCalls --------------------------------
\* Values for the constants of Calls, for TLC.
EXTENDS Calls

Always(size, capacity) == TRUE

=============================================================================
