------------------------------- MODULE StrongCall -------------------------------
(***************************************************************************)
(* What "Strong exception guarantee" promises of one call: it ends, and    *)
(* then the object is either what the call is to make of it or as it was   *)
(* before.  Nothing in between is ever seen.                               *)
(***************************************************************************)

VARIABLES
  object,   \* as the caller sees it
  wanted,   \* what the call is to make of it
  outcome   \* "running", "done" or "threw"

callVars == <<object, wanted, outcome>>

Init == outcome = "running"

Return ==
  /\ outcome = "running" /\ outcome' = "done"
  /\ object' = wanted
  /\ wanted' = wanted

Throw ==
  /\ outcome = "running" /\ outcome' = "threw"
  /\ UNCHANGED <<object, wanted>>

Next == Return \/ Throw

Spec == Init /\ [][Next]_callVars /\ WF_callVars(Next)

=============================================================================
