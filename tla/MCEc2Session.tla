--------------------------- MODULE MCEc2Session ---------------------------
(* Instances of Ec2Session for TLC.                                        *)
EXTENDS Ec2Session, TLC

\* Slots are only drawn and compared.
Symmetry == Permutations(Launches) \cup Permutations(Enis)
=============================================================================
