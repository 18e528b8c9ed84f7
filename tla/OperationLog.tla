---------------------------- MODULE OperationLog ----------------------------
(***************************************************************************)
(* What the command pipeline promises its clients, without requests,       *)
(* versions, caches or locks: operations take effect one at a time, each   *)
(* at most once, and a client is told of success only for an operation     *)
(* that has taken effect.                                                  *)
(***************************************************************************)
EXTENDS Naturals, Sequences

CONSTANT Operations

VARIABLES
    log,       \* the operations in the order they took effect
    answered   \* the operations some client was told succeeded

vars == <<log, answered>>

Init ==
    /\ log = <<>>
    /\ answered = {}

Effect(o) ==
    /\ \A i \in DOMAIN log : log[i] # o
    /\ log' = Append(log, o)
    /\ UNCHANGED answered

Answer(o) ==
    /\ \E i \in DOMAIN log : log[i] = o
    /\ answered' = answered \union {o}
    /\ UNCHANGED log

Next == \E o \in Operations : Effect(o) \/ Answer(o)

Spec == Init /\ [][Next]_vars
=============================================================================
