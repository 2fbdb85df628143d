----------------------------- MODULE ServerService -----------------------------
(***************************************************************************)
(* What Rylus::start and Rylus::stop promise whoever calls them, without   *)
(* tasks, counters or notifications: sessions come and go while the        *)
(* server is up, some may still begin while it is going down, and it is    *)
(* down - ready to be started again - only when none is left.              *)
(***************************************************************************)
CONSTANT Clients

VARIABLES
  power,      \* "off", "on", or "stopping" until stop() has returned
  sessions    \* the clients with a running session

vars == <<power, sessions>>

Init == power = "off" /\ sessions = {}

Start == power = "off" /\ power' = "on" /\ UNCHANGED sessions

Begin ==
  /\ power # "off"
  /\ \E c \in Clients \ sessions : sessions' = sessions \cup {c}
  /\ UNCHANGED power

End == \E c \in sessions : sessions' = sessions \ {c} /\ UNCHANGED power

Stop == power = "on" /\ power' = "stopping" /\ UNCHANGED sessions

Stopped ==
  /\ power = "stopping" /\ sessions = {}
  /\ power' = "off"
  /\ UNCHANGED sessions

Next == Start \/ Begin \/ End \/ Stop \/ Stopped

Spec == Init /\ [][Next]_vars
================================================================================
