-------------------------------- MODULE MCBeacon ------------------------------
(* Instances of Beacon for TLC. *)
EXTENDS Beacon, TLC

\* Endpoints, uuids and list nodes are interchangeable.
Symmetry == Permutations(Endpoints) \cup Permutations(Uuids) \cup Permutations(Cards)
===============================================================================
