----------------------------- MODULE EncodeOutput ------------------------------
(***************************************************************************)
(* What the encode thread promises about its output, and what a session    *)
(* that carries the output may rely on (encode_thread in                   *)
(* crates/rylus-server/src/session.rs, VideoEncoder in                     *)
(* crates/rylus-encode/src/lib.rs).  A stream is announced with NewVideo,  *)
(* its encoder writes the init segment while it is being opened, VideoInit *)
(* follows, and then, as the old encoder is dropped, the old stream's      *)
(* trailer; fragments come only from an encoder whose init segment is out. *)
(***************************************************************************)

VARIABLES
  at,        \* what the thread is about to hand over, or else where it is
  encoding,  \* there is an encoder
  opened     \* the next encoder is open and about to replace it

vars == <<at, encoding, opened>>

Init == at = "ready" /\ encoding = FALSE /\ opened = FALSE

Restart == at = "ready" /\ at' = "NewVideo" /\ UNCHANGED <<encoding, opened>>

NewVideoSaid == at = "NewVideo" /\ at' = "open" /\ UNCHANGED <<encoding, opened>>

Opens == at = "open" /\ at' = "init" /\ opened' = TRUE /\ UNCHANGED encoding

OpenFails == at = "open" /\ at' = "swap" /\ UNCHANGED <<encoding, opened>>

InitEmitted == at = "init" /\ at' = "VideoInit" /\ UNCHANGED <<encoding, opened>>

VideoInitSaid == at = "VideoInit" /\ at' = "swap" /\ UNCHANGED <<encoding, opened>>

Swap ==
  /\ at = "swap"
  /\ encoding' = opened /\ opened' = FALSE
  /\ at' = IF encoding THEN "trailer" ELSE "ready"

TrailerEmitted == at = "trailer" /\ at' = "ready" /\ UNCHANGED <<encoding, opened>>

Encodes ==
  /\ at = "ready" /\ encoding
  /\ at' = "fragment" /\ UNCHANGED <<encoding, opened>>

FragmentEmitted == at = "fragment" /\ at' = "ready" /\ UNCHANGED <<encoding, opened>>

(* The thread ends, with its last encoder's trailer or in a panic.         *)
Stops ==
  /\ at = "ready"
  /\ at' \in (IF encoding THEN {"last", "done"} ELSE {"done"})
  /\ encoding' = FALSE /\ UNCHANGED opened

LastEmitted == at = "last" /\ at' = "done" /\ UNCHANGED <<encoding, opened>>

Internal == Restart \/ Opens \/ OpenFails \/ Swap \/ Encodes \/ Stops
Say      == NewVideoSaid \/ VideoInitSaid
Emit     == InitEmitted \/ TrailerEmitted \/ FragmentEmitted \/ LastEmitted

Next == Internal \/ Say \/ Emit

Spec == Init /\ [][Next]_vars
================================================================================
