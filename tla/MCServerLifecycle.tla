---------------------------- MODULE MCServerLifecycle ----------------------------
(* ServerLifecycle on a small instance.                                     *)
EXTENDS ServerLifecycle, TLC

CONSTANTS c1, c2

OneClient == {c1}
TwoClients == {c1, c2}

Symmetric == Permutations(TwoClients)
================================================================================
