--------------------------- MODULE MCOutboxRelay ---------------------------
(* Instance of OutboxRelay for TLC *)
EXTENDS OutboxRelay

CONSTANTS m1, m2, r1, r2

NoMessage == {}
OneMessage == {m1}
TwoMessages == {m1, m2}
OneWorkerEvent == {m2}
TwoRelays == {r1, r2}
=============================================================================
