------------------------ MODULE MCOpenCodeSupervisor ------------------------
(* The instances of OpenCodeSupervisor that TLC checks.                    *)
EXTENDS OpenCodeSupervisor, TLC

Symmetry == Permutations(Clients)

\* Bound: three sessions are in a method or on the server at a time only as long
\* as no fault happened.
TwoAfterFault ==
  faults = MaxFaults \/ Cardinality({c \in Clients : sup.p[c] # Resting}) <= 2
=============================================================================
