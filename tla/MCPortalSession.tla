-------------------------- MODULE MCPortalSession --------------------------
(* Two clients that list and leave in any order, one of which records.        *)
EXTENDS PortalSession, TLC
=============================================================================
