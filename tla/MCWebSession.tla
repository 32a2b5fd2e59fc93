---------------------------- MODULE MCWebSession ----------------------------
(* Small instances of WebSession for TLC. *)
EXTENDS WebSession

CONSTANTS t1, t2, u1, u2

TwoTabs == {t1, t2}
TwoUsers == {u1, u2}
=============================================================================
