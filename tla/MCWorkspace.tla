----------------------------- MODULE MCWorkspace -----------------------------
(* Small instances of Workspace for TLC. *)
EXTENDS Workspace

CONSTANTS p1, p2, q1, q2, r1, r2

TwoProjects == {p1, p2}
TwoQueries == {q1, q2}
TwoRanges == {r1, r2}
Start == [query |-> q1, range |-> r1]
=============================================================================
