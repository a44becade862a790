-------------------------- MODULE MCLiveMigration --------------------------
(* LiveMigration on three hosts, for TLC. *)
EXTENDS LiveMigration, TLC

\* Hosts are interchangeable: no operator of LiveMigration names one.
Symmetry == Permutations(Hosts)
============================================================================
