------------------------------ MODULE MCStateFile ------------------------------
(* Instances of StateFile for TLC. *)
EXTENDS StateFile, TLC

CONSTANTS w1, w2

OneWriter == {w1}
TwoWriters == {w1, w2}
Symmetry == Permutations(TwoWriters)
BothForms == {"plain", "sealed"}
SealedOnly == {"sealed"}
\* With MaxBytes = 2 and Overhead = 1: fits, fits until it is sealed, too large.
SizesAroundTheBound == {1, 2, 3}

=============================================================================
