---------------------------- MODULE MCClientSession ----------------------------
(* ClientSession on a small instance.                                       *)
EXTENDS ClientSession

CONSTANTS s0, s1, s2

LaterSockets == {s1, s2}
================================================================================
