----------------------------- MODULE MCGoClient -----------------------------
(* Small instances of GoClient for TLC. *)
EXTENDS GoClient

CONSTANTS e1, e2, c1, c2, w1, w2

TwoEntries == {e1, e2}
TwoClosers == {c1, c2}
TwoWorkers == {w1, w2}
=============================================================================
