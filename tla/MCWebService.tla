----------------------------- MODULE MCWebService -----------------------------
(* WebService on a small instance.                                          *)
EXTENDS WebService

CONSTANTS r1, r2, c1, c2
================================================================================
