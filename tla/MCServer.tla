------------------------------ MODULE MCServer ------------------------------
(* Instances of Server for TLC.                                             *)
EXTENDS Server, TLC

\* Slots and task ids are only drawn and compared.
Symmetry == Permutations(Launches) \cup Permutations(Enis) \cup Permutations(Procs)
=============================================================================
