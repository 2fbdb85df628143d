---------------------------- MODULE MCStreamSession ----------------------------
(* StreamSession on a small instance.                                       *)
EXTENDS StreamSession

EncodeThread == {"encode"}
================================================================================
