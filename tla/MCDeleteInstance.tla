-------------------------- MODULE MCDeleteInstance --------------------------
(* DeleteInstance for TLC. *)
EXTENDS DeleteInstance, TLC

\* The requests of users are interchangeable, and so are the instances.
Symmetry == Permutations(ApiRequests) \cup Permutations(Instances)
=============================================================================
