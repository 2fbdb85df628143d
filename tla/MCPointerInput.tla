----------------------------- MODULE MCPointerInput -----------------------------
(* PointerInput on a small instance.                                        *)
EXTENDS PointerInput, TLC

CONSTANTS f1, f2, f3

ThreeFingers == {f1, f2, f3}

Symmetric == Permutations(ThreeFingers)
================================================================================
