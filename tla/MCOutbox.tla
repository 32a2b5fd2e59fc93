------------------------------ MODULE MCOutbox ------------------------------
(* Small instances of Outbox for TLC. *)
EXTENDS Outbox

CONSTANTS r1, r2

TwoRelays == {r1, r2}
TwoEvents == 1..2
=============================================================================
