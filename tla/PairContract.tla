------------------------------ MODULE PairContract ------------------------------
(***************************************************************************)
(* What copying, moving and swapping promise about the contents of two     *)
(* containers: one is a sequence each, and call says what was done to      *)
(* which of them (`to`, from `from`) and whether it threw.                 *)
(***************************************************************************)
EXTENDS Integers, Sequences

CONSTANTS Element, Names

VARIABLES
  seqs,
  strong,  \* whether a copy assignment is held to the strong guarantee
  call

Init == seqs \in [Names -> Seq(Element)]

Done(op) == call'.op = op /\ call'.out = "ok"
Others(changed) == \A o \in Names \ changed : seqs'[o] = seqs[o]

Copy ==
  /\ Done("copy")
  /\ seqs'[call'.to] = seqs[call'.from]
  /\ Others({call'.to})

\* The other one is left in an unspecified but valid state; so is one moved to itself.
Move ==
  /\ Done("move") \/ Done("move construct")
  /\ call'.to # call'.from => seqs'[call'.to] = seqs[call'.from]
  /\ \A o \in Names : \A i \in DOMAIN seqs'[o] : seqs'[o][i] \in Element
  /\ Others({call'.to, call'.from})

Swap ==
  /\ Done("swap")
  /\ seqs'[call'.to] = seqs[call'.from] /\ seqs'[call'.from] = seqs[call'.to]
  /\ Others({call'.to, call'.from})

\* Anything that is done to one container leaves the other one alone.
ToOne ==
  /\ Done("edit")
  /\ Others({call'.to})

\* Basic guarantee: what is left is a container, and only that one is affected.  A copy
\* assignment that is held to the strong guarantee has no effect.
Threw ==
  /\ call'.out = "threw"
  /\ strong /\ call'.op = "copy" => seqs'[call'.to] = seqs[call'.to]
  /\ \A i \in DOMAIN seqs'[call'.to] : seqs'[call'.to][i] \in Element
  /\ Others({call'.to})

Next == Copy \/ Move \/ Swap \/ ToOne \/ Threw

Spec == Init /\ [][Next]_<<seqs, call>>

=============================================================================
