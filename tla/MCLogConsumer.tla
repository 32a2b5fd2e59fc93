--------------------------- MODULE MCLogConsumer ---------------------------
(* Instances of LogConsumer for TLC.                                        *)
EXTENDS LogConsumer

CONSTANTS m1, m2

TwoMembers == {m1, m2}
SecondIsUnparsable == {1}
NoneUnparsable == {}
=============================================================================
