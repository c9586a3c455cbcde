--------------------------- MODULE MCAccountSync ---------------------------
(* Workers and credentials are interchangeable, and no run checks liveness. *)
EXTENDS AccountSync, TLC

Symmetry == Permutations(Worker) \cup Permutations(Credential)
=============================================================================
