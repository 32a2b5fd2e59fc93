----------------------------- MODULE MCFileTail -----------------------------
(* Small instances of FileTail for TLC. *)
EXTENDS FileTail

CONSTANTS i1, i2

OneInode == {i1}
TwoInodes == {i1, i2}
=============================================================================
