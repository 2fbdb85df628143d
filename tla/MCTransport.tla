----------------------------- MODULE MCTransport -----------------------------
(* Transport on a small instance: two session threads share the sender, as  *)
(* the handler thread and the encode thread do.                             *)
EXTENDS Transport, TLC

CONSTANTS handler, encoder

Clones == {handler, encoder}

OneClone == {encoder}

Symmetric == Permutations(Clones)
===============================================================================
