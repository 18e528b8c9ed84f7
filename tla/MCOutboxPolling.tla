-------------------------- MODULE MCOutboxPolling --------------------------
(* Instance of OutboxPolling for TLC *)
EXTENDS OutboxPolling

CONSTANTS m1, m2, m3, r1

NoMessage == {}
OneRelay == {r1}
ThreeMessages == {m1, m2, m3}
=============================================================================
