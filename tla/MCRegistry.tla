----------------------------- MODULE MCRegistry -----------------------------
(* Small instances of Registry for TLC. *)
EXTENDS Registry, TLC

CONSTANTS in1, in2, i1, i2, i3, i4

TwoInputs == {in1, in2}
FourInodes == {i1, i2, i3, i4}
Alike == Permutations(TwoInputs) \cup Permutations(FourInodes)
=============================================================================
