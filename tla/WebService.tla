------------------------------ MODULE WebService ------------------------------
(***************************************************************************)
(* What the requests of the web server share (web.rs): the access code's   *)
(* hash and the configuration file, the sessions, and the failed attempts  *)
(* of an address.  Requests run on a multi-threaded runtime; a handler     *)
(* waits for the body of its request, and others run meanwhile.            *)
(*                                                                         *)
(* Time is what the rate limiter tells apart: a failure has an age, in     *)
(* units of which Lockout and Window are multiples.  The limiter keeps the *)
(* addresses apart, so there is one.  A hash stands for its code.          *)
(***************************************************************************)
EXTENDS Naturals, Sequences, FiniteSets

CONSTANTS
  Requests,       \* requests that are served at the same time
  Codes, NoCode,
  MaxFailed,      \* MAX_FAILED_ATTEMPTS
  Window,         \* RATE_LIMIT_WINDOW
  Lockout         \* LOCKOUT_DURATION

ASSUME WebAssumption ==
  /\ IsFiniteSet(Requests) /\ NoCode \notin Codes
  /\ MaxFailed \in Nat \ {0} /\ Lockout \in Nat \ {0} /\ Window \in Nat
  /\ Lockout < Window

VARIABLES
  code,           \* access_code_hash
  file,           \* access_code in the configuration file, if it has one
  sessions,       \* the session store
  failures,       \* ages of the failed attempts in the window, the last one last
  request         \* what each request is at, and what it has read

vars == <<code, file, sessions, failures, request>>

MaybeCode == Codes \cup {NoCode}
Free == [at |-> "free"]

(* A session: the code that was given for it, and whether that was still   *)
(* the access code when the session was made.                              *)
Session(given) == [code |-> given, late |-> given # code]

Init ==
  /\ code \in MaybeCode /\ file \in MaybeCode
  /\ sessions = {} /\ failures = <<>>
  /\ request = [r \in Requests |-> Free]

Becomes(r, state) == request' = [request EXCEPT ![r] = state]
Answered(r) == Becomes(r, Free)

--------------------------------------------------------------------------------
(* The rate limiter.                                                       *)

(* A plausible slip: the lockout is counted from the first failure.        *)
LockedOutSinceFirst ==
  Len(failures) >= MaxFailed /\ Head(failures) < Lockout

(* lockout_remaining                                                       *)
LockedOut == Len(failures) >= MaxFailed /\ failures[Len(failures)] < Lockout

(* record_failure                                                          *)
RecordFailure == failures' = Append(failures, 0)

(* Time passes, and what has left the window is forgotten: the first of    *)
(* the failures, which are kept in the order they were made.               *)
Tick ==
  /\ LET gone == Cardinality({i \in DOMAIN failures : failures[i] + 1 >= Window})
     IN  failures' = [i \in 1 .. Len(failures) - gone |-> failures[i + gone] + 1]
  /\ UNCHANGED <<code, file, sessions, request>>

--------------------------------------------------------------------------------
(* POST /auth                                                              *)

(* A plausible slip: an attempt during the lockout is one more failure.    *)
RefuseAndRecord == RecordFailure

(* An attempt during the lockout is refused, and not counted.              *)
Refuse == UNCHANGED failures

LoginRefused ==
  /\ code # NoCode /\ LockedOut
  /\ Refuse
  /\ UNCHANGED <<code, file, sessions, request>>

(* The hash is read before the body is waited for.                         *)
LoginBegins(r) ==
  /\ request[r] = Free /\ code # NoCode /\ ~LockedOut
  /\ Becomes(r, [at |-> "login", hash |-> code])
  /\ UNCHANGED <<code, file, sessions, failures>>

(* verify_access_code.  A code given is right if it is the one hashed.     *)
Verifies(given, hash) == given = hash

LoginSucceeds(r) ==
  /\ request[r].at = "login"
  /\ \E given \in Codes :
       /\ Verifies(given, request[r].hash)
       /\ sessions' = sessions \cup {Session(given)}
  /\ Answered(r)
  /\ UNCHANGED <<code, file, failures>>

(* A wrong code, or none.                                                  *)
LoginFails(r) ==
  /\ request[r].at = "login"
  /\ \E given \in MaybeCode : ~Verifies(given, request[r].hash)
  /\ RecordFailure
  /\ Answered(r)
  /\ UNCHANGED <<code, file, sessions>>

(* The body could not be read: no attempt was made.                        *)
LoginBroken(r) ==
  /\ request[r].at = "login"
  /\ Answered(r)
  /\ UNCHANGED <<code, file, sessions, failures>>

--------------------------------------------------------------------------------
(* POST /api/config, of which the access code is what is shared.           *)

(* is_authed                                                               *)
Authed == code = NoCode \/ sessions # {}

UpdateBegins(r) ==
  /\ request[r] = Free /\ Authed
  /\ Becomes(r, [at |-> "update"])
  /\ UNCHANGED <<code, file, sessions, failures>>

(* Its body cannot be read, is no JSON, or has an invalid address.         *)
UpdateRejected(r) ==
  /\ request[r].at = "update"
  /\ Answered(r)
  /\ UNCHANGED <<code, file, sessions, failures>>

(* read_config: the defaults, which have no code, if there is no file or it*)
(* cannot be read or parsed.                                               *)
ReadConfig == {file, NoCode}

(* write_config only logs that it cannot write; the file is truncated      *)
(* first, and a file without contents has no code.                         *)
WriteConfig(given) == file' \in {file, NoCode, given}

(* The code is new if it is not the one read; it is changed at once.       *)
UpdateRotates(r) ==
  /\ request[r].at = "update"
  /\ \E read \in ReadConfig : \E given \in MaybeCode \ {read} :
       /\ code' = given
       /\ Becomes(r, [at |-> "clear", code |-> given])
  /\ UNCHANGED <<file, sessions, failures>>

(* A plausible slip: the sessions are cleared only when the code is taken  *)
(* away.                                                                   *)
ClearIfOpen(given) == sessions' = IF given = NoCode THEN {} ELSE sessions

(* SessionStore::clear                                                     *)
ClearFor(given) == sessions' = {}

(* Then every session is ended.                                            *)
UpdateClears(r) ==
  /\ request[r].at = "clear"
  /\ ClearFor(request[r].code)
  /\ Becomes(r, [at |-> "write", code |-> request[r].code])
  /\ UNCHANGED <<code, file, failures>>

(* The code is the one read, or is not in the update: other settings are   *)
(* changed.                                                                *)
UpdateKeeps(r) ==
  /\ request[r].at = "update"
  /\ \E read \in ReadConfig : Becomes(r, [at |-> "write", code |-> read])
  /\ UNCHANGED <<code, file, sessions, failures>>

(* What was read is written with its changes.                              *)
UpdateSaved(r) ==
  /\ request[r].at = "write"
  /\ WriteConfig(request[r].code)
  /\ Answered(r)
  /\ UNCHANGED <<code, sessions, failures>>

--------------------------------------------------------------------------------
(* A session is SESSION_TTL old.                                           *)
SessionExpires ==
  /\ \E s \in sessions : sessions' = sessions \ {s}
  /\ UNCHANGED <<code, file, failures, request>>

Login(r) == LoginBegins(r) \/ LoginSucceeds(r) \/ LoginFails(r) \/ LoginBroken(r)

Update(r) ==
  \/ UpdateBegins(r) \/ UpdateRejected(r) \/ UpdateRotates(r)
  \/ UpdateClears(r) \/ UpdateKeeps(r) \/ UpdateSaved(r)

Next ==
  \/ Tick \/ LoginRefused \/ SessionExpires
  \/ \E r \in Requests : Login(r) \/ Update(r)

Spec == Init /\ [][Next]_vars /\ WF_vars(Tick)

--------------------------------------------------------------------------------
(* Properties.                                                             *)

RequestState ==
  {Free, [at |-> "update"]}
    \cup [at : {"login"}, hash : Codes]
    \cup [at : {"clear", "write"}, code : MaybeCode]

TypeOK ==
  /\ code \in MaybeCode /\ file \in MaybeCode
  /\ sessions \subseteq [code : Codes, late : BOOLEAN]
  /\ failures \in Seq(Nat)
  /\ request \in [Requests -> RequestState]

(* In as long as a lockout lasts no more attempts fail than the limit      *)
(* allows and were under way when it was reached: requests that passed the *)
(* check before are not checked again after their body arrived.  This is   *)
(* what the code keeps.  docs/SECURITY-REVIEW.md:94-95 claims less for     *)
(* more: MaxFailed tries per Window.  It does not hold: attempts that pass *)
(* the check together exceed it, and so does one made after the lockout,   *)
(* which ends before the window does.                                      *)
AttemptsBounded ==
  Cardinality({i \in DOMAIN failures : failures[i] < Lockout})
    <= MaxFailed - 1 + Cardinality(Requests)

(* A lockout ends, however often the address tries again meanwhile.        *)
LockoutLifted == LockedOut ~> ~LockedOut

(* Rotating the access code ends the sessions of the old one: a session is *)
(* of the present code, or its login was under way when the code changed,  *)
(* or the update that changed it is about to clear it.                     *)
SessionsAreCurrent ==
  \A s \in sessions :
    s.code = code \/ s.late \/ \E r \in Requests : request[r].at = "clear"
================================================================================
