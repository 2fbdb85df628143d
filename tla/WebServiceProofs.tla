---------------------------- MODULE WebServiceProofs ----------------------------
(***************************************************************************)
(* What TLAPS proves of WebService, for any number of requests and codes,  *)
(* and any limit, window and lockout.                                      *)
(***************************************************************************)
EXTENDS WebService, TLAPS, FiniteSetTheorems, SequenceTheorems

USE WebAssumption

--------------------------------------------------------------------------------
(* The types.                                                              *)

LEMMA StatesOfRequests ==
  /\ Free \in RequestState
  /\ [at |-> "update"] \in RequestState
  /\ \A h \in Codes : [at |-> "login", hash |-> h] \in RequestState
  /\ \A k \in MaybeCode : /\ [at |-> "clear", code |-> k] \in RequestState
                          /\ [at |-> "write", code |-> k] \in RequestState
  /\ \A q \in RequestState :
       /\ q.at = "login" => q.hash \in Codes
       /\ q.at \in {"clear", "write"} => q.code \in MaybeCode
  BY DEF RequestState, Free

(* When time passes the first failures go and the others age.              *)
LEMMA TickFacts ==
  ASSUME failures \in Seq(Nat), Tick
  PROVE  \E gone \in 0 .. Len(failures) :
           /\ failures' \in Seq(Nat)
           /\ Len(failures') = Len(failures) - gone
           /\ \A i \in 1 .. Len(failures) - gone : failures'[i] = failures[i + gone] + 1
<1> DEFINE old == {i \in DOMAIN failures : failures[i] + 1 >= Window}
           gone == Cardinality(old)
           n == Len(failures) - gone
<1>1. Len(failures) \in Nat /\ DOMAIN failures = 1 .. Len(failures)
  BY LenProperties
<1>2. /\ IsFiniteSet(1 .. Len(failures))
      /\ Cardinality(1 .. Len(failures)) = Len(failures)
  BY SMTT(20), <1>1, FS_Interval
<1>3. IsFiniteSet(old) /\ gone \in Nat /\ gone <= Len(failures)
  <2>1. old \in SUBSET (1 .. Len(failures))
    BY <1>1
  <2> HIDE DEF old
  <2> QED
    BY <1>2, <2>1, FS_Subset, FS_CardinalityType
<1>4. failures' = [i \in 1 .. n |-> failures[i + gone] + 1]
  BY DEF Tick
<1> HIDE DEF gone
<1>5. n \in Nat /\ gone \in 0 .. Len(failures)
  BY <1>1, <1>3
<1>6. \A i \in 1 .. n : failures[i + gone] + 1 \in Nat
  <2> SUFFICES ASSUME NEW i \in 1 .. n PROVE failures[i + gone] \in Nat
    OBVIOUS
  <2>1. i + gone \in 1 .. Len(failures)
    BY <1>1, <1>5
  <2> QED
    BY <2>1, ElementOfSeq
<1>7. failures' \in Seq(Nat) /\ Len(failures') = n
  BY <1>4, <1>5, <1>6
<1> QED
  BY <1>4, <1>5, <1>7

LEMMA TypeStep == TypeOK /\ [Next]_vars => TypeOK'
<1> SUFFICES ASSUME TypeOK, [Next]_vars PROVE TypeOK'
  OBVIOUS
<1> USE DEF TypeOK
<1>1. CASE Tick
  BY <1>1, TickFacts DEF Tick
<1>2. CASE LoginRefused \/ SessionExpires \/ UNCHANGED vars
  BY <1>2 DEF LoginRefused, Refuse, SessionExpires, vars
<1>3. ASSUME NEW r \in Requests, Login(r) PROVE TypeOK'
  <2>1. CASE LoginBegins(r)
    <3>1. code \in Codes
      BY <2>1 DEF LoginBegins, MaybeCode
    <3> QED
      BY <2>1, <3>1, StatesOfRequests DEF LoginBegins, Becomes
  <2>2. CASE LoginSucceeds(r)
    <3>1. request[r].hash \in Codes
      BY <2>2, StatesOfRequests DEF LoginSucceeds, Verifies
    <3>2. Session(request[r].hash) \in [code : Codes, late : BOOLEAN]
      BY <3>1 DEF Session
    <3>3. sessions' = sessions \cup {Session(request[r].hash)}
      BY <2>2 DEF LoginSucceeds, Verifies
    <3> QED
      BY <2>2, <3>2, <3>3, StatesOfRequests DEF LoginSucceeds, Answered, Becomes
  <2>3. CASE LoginFails(r)
    <3>1. failures' \in Seq(Nat)
      BY <2>3, AppendProperties DEF LoginFails, RecordFailure
    <3> QED
      BY <2>3, <3>1, StatesOfRequests DEF LoginFails, Answered, Becomes
  <2>4. CASE LoginBroken(r)
    BY <2>4, StatesOfRequests DEF LoginBroken, Answered, Becomes
  <2> QED
    BY <1>3, <2>1, <2>2, <2>3, <2>4 DEF Login
<1>4. ASSUME NEW r \in Requests, Update(r) PROVE TypeOK'
  <2>1. CASE UpdateBegins(r) \/ UpdateRejected(r)
    BY <2>1, StatesOfRequests DEF UpdateBegins, UpdateRejected, Answered, Becomes
  <2>2. CASE UpdateRotates(r)
    BY <2>2, StatesOfRequests DEF UpdateRotates, Becomes
  <2>3. CASE UpdateClears(r)
    <3>1. request[r].code \in MaybeCode
      BY <2>3, StatesOfRequests DEF UpdateClears
    <3> QED
      BY <2>3, <3>1, StatesOfRequests DEF UpdateClears, ClearFor, Becomes
  <2>4. CASE UpdateKeeps(r)
    <3>1. PICK read \in ReadConfig : Becomes(r, [at |-> "write", code |-> read])
      BY <2>4 DEF UpdateKeeps
    <3>2. read \in MaybeCode
      BY DEF ReadConfig, MaybeCode
    <3> QED
      BY <2>4, <3>1, <3>2, StatesOfRequests DEF UpdateKeeps, Becomes
  <2>5. CASE UpdateSaved(r)
    <3>1. request[r].code \in MaybeCode
      BY <2>5, StatesOfRequests DEF UpdateSaved
    <3>2. file' \in MaybeCode
      BY <2>5, <3>1 DEF UpdateSaved, WriteConfig, MaybeCode
    <3> QED
      BY <2>5, <3>2, StatesOfRequests DEF UpdateSaved, Answered, Becomes
  <2> QED
    BY <1>4, <2>1, <2>2, <2>3, <2>4, <2>5 DEF Update
<1> QED
  BY <1>1, <1>2, <1>3, <1>4 DEF Next

(* The variables keep their types (RateLimiter, SessionStore, serve,       *)
(* handle_post_config).                                                    *)
THEOREM TypeCorrect == Spec => []TypeOK
<1>1. Init => TypeOK
  BY StatesOfRequests, EmptySeq DEF Init, TypeOK
<1> QED
  BY <1>1, TypeStep, PTL DEF Spec

--------------------------------------------------------------------------------
(* The sessions.                                                           *)

(* Every session of an access code that was rotated is ended, but for one  *)
(* whose login was under way (SessionStore::clear): SessionsAreCurrent is  *)
(* inductive with the types.                                               *)
THEOREM RotationEndsSessions == Spec => []SessionsAreCurrent
<1>1. Init => SessionsAreCurrent
  BY DEF Init, SessionsAreCurrent
<1>2. TypeOK /\ SessionsAreCurrent /\ [Next]_vars => SessionsAreCurrent'
  <2> SUFFICES ASSUME TypeOK, SessionsAreCurrent, [Next]_vars PROVE SessionsAreCurrent'
    OBVIOUS
  <2> USE DEF TypeOK, SessionsAreCurrent, Becomes, Answered, Free
  <2>1. CASE Tick \/ LoginRefused \/ SessionExpires \/ UNCHANGED vars
    BY <2>1 DEF Tick, LoginRefused, SessionExpires, vars
  <2>2. ASSUME NEW r \in Requests, UpdateRotates(r) PROVE SessionsAreCurrent'
    BY <2>2 DEF UpdateRotates
  <2>3. ASSUME NEW r \in Requests, UpdateClears(r) PROVE SessionsAreCurrent'
    BY <2>3 DEF UpdateClears, ClearFor
  <2>4. ASSUME NEW r \in Requests, LoginSucceeds(r) PROVE SessionsAreCurrent'
    <3>1. /\ sessions' = sessions \cup {Session(request[r].hash)} /\ code' = code
          /\ \A q \in Requests : request[q].at = "clear" => request'[q].at = "clear"
      BY <2>4 DEF LoginSucceeds, Verifies
    <3>2. LET s == Session(request[r].hash) IN s.code = code \/ s.late
      BY DEF Session
    <3> QED
      BY <3>1, <3>2
  <2>5. ASSUME NEW r \in Requests,
               \/ LoginBegins(r) \/ LoginFails(r) \/ LoginBroken(r) \/ UpdateBegins(r)
               \/ UpdateRejected(r) \/ UpdateKeeps(r) \/ UpdateSaved(r)
        PROVE  SessionsAreCurrent'
    <3>1. /\ sessions' = sessions /\ code' = code
          /\ \A q \in Requests : request[q].at = "clear" => request'[q].at = "clear"
      BY <2>5 DEF LoginBegins, LoginFails, LoginBroken, UpdateBegins, UpdateRejected,
                  UpdateKeeps, UpdateSaved
    <3> QED
      BY <3>1
  <2> QED
    BY <2>1, <2>2, <2>3, <2>4, <2>5 DEF Next, Login, Update
<1> QED
  BY <1>1, <1>2, TypeCorrect, PTL DEF Spec

--------------------------------------------------------------------------------
(* The failed attempts.                                                    *)

(* Logins that passed the check and have not been answered; each may add a *)
(* failure, so what may have failed lately is the less the more of them    *)
(* there are.                                                              *)
UnderWay == {r \in Requests : request[r].at = "login"}
Allowed == MaxFailed - 1 + Cardinality(Requests) - Cardinality(UnderWay)

(* All but so many failures are older than a lockout, and none is younger  *)
(* than the last.                                                          *)
OthersAreOld ==
  \A i \in 1 .. Len(failures) : i + Allowed <= Len(failures) => failures[i] >= Lockout
LastIsYoungest ==
  \A i \in 1 .. Len(failures) : failures[i] >= failures[Len(failures)]

AttemptsInv == TypeOK /\ OthersAreOld /\ LastIsYoungest

LEMMA AllowedType ==
  /\ Cardinality(Requests) \in Nat /\ Cardinality(UnderWay) \in Nat
  /\ Cardinality(UnderWay) <= Cardinality(Requests) /\ IsFiniteSet(UnderWay)
  BY FS_Subset, FS_CardinalityType DEF UnderWay

(* A step that records no failure keeps the bound, if it lets no further   *)
(* login pass while failures are young.                                    *)
LEMMA NoFailureKeeps ==
  ASSUME AttemptsInv, failures' = failures, TypeOK',
         \/ Cardinality(UnderWay)' <= Cardinality(UnderWay)
         \/ /\ Cardinality(UnderWay)' = Cardinality(UnderWay) + 1
            /\ ~LockedOut
            /\ Cardinality(UnderWay)' <= Cardinality(Requests),
         Cardinality(UnderWay)' \in Nat
  PROVE  AttemptsInv'
<1> USE DEF AttemptsInv, TypeOK
<1>1. /\ Len(failures) \in Nat
      /\ \A i \in 1 .. Len(failures) : failures[i] \in Nat
  BY LenProperties, ElementOfSeq
<1>2. LastIsYoungest'
  BY DEF LastIsYoungest
<1>3. CASE Cardinality(UnderWay)' <= Cardinality(UnderWay)
  <2>1. Allowed' >= Allowed /\ Allowed \in Int /\ Allowed' \in Int
    BY <1>3, AllowedType DEF Allowed
  <2> QED
    BY <1>1, <1>2, <2>1 DEF OthersAreOld
<1>4. CASE ~LockedOut /\ Cardinality(UnderWay)' <= Cardinality(Requests)
  <2>1. Allowed' \in Int /\ Allowed' >= MaxFailed - 1
    BY <1>4, AllowedType DEF Allowed
  <2>2. CASE Len(failures) < MaxFailed
    <3>1. \A i \in 1 .. Len(failures) : ~(i + Allowed' <= Len(failures))
      BY <1>1, <2>1, <2>2
    <3> QED
      BY <1>2, <3>1 DEF OthersAreOld
  <2>3. CASE Len(failures) >= MaxFailed /\ failures[Len(failures)] >= Lockout
    <3>1. Len(failures) \in 1 .. Len(failures)
      BY <1>1, <2>3
    <3>2. \A i \in 1 .. Len(failures) : failures[i] >= Lockout
      BY <1>1, <2>3, <3>1 DEF LastIsYoungest
    <3> QED
      BY <1>2, <3>2 DEF OthersAreOld
  <2>4. Len(failures) >= MaxFailed => failures[Len(failures)] \in Nat
    BY <1>1
  <2> QED
    BY <1>1, <1>4, <2>2, <2>3, <2>4 DEF LockedOut
<1> QED
  BY <1>3, <1>4

(* What admitting or answering one login does to those under way.          *)
LoginLeft(r) == request'[r].at # "login"
Others(r) == \A q \in Requests : q # r => request'[q] = request[q]

LEMMA UnderWayChanges ==
  ASSUME NEW r \in Requests, Others(r)
  PROVE  /\ Cardinality(UnderWay') \in Nat
         /\ Cardinality(UnderWay') <= Cardinality(Requests)
         /\ LoginLeft(r) =>
              Cardinality(UnderWay') =
                IF request[r].at = "login" THEN Cardinality(UnderWay) - 1 ELSE Cardinality(UnderWay)
         /\ ~LoginLeft(r) =>
              Cardinality(UnderWay') =
                IF request[r].at = "login" THEN Cardinality(UnderWay) ELSE Cardinality(UnderWay) + 1
<1>1. /\ LoginLeft(r) => UnderWay' = UnderWay \ {r}
      /\ ~LoginLeft(r) => UnderWay' = UnderWay \cup {r}
      /\ r \in UnderWay <=> request[r].at = "login"
  BY DEF UnderWay, LoginLeft, Others
<1>3. UnderWay' \in SUBSET Requests
  BY DEF UnderWay
<1>4. Cardinality(UnderWay') \in Nat /\ Cardinality(UnderWay') <= Cardinality(Requests)
  BY <1>3, FS_Subset, FS_CardinalityType
<1>5. /\ Cardinality(UnderWay \ {r}) =
           IF r \in UnderWay THEN Cardinality(UnderWay) - 1 ELSE Cardinality(UnderWay)
      /\ Cardinality(UnderWay \cup {r}) =
           IF r \in UnderWay THEN Cardinality(UnderWay) ELSE Cardinality(UnderWay) + 1
  BY AllowedType, FS_AddElement, FS_RemoveElement
<1> QED
  BY <1>1, <1>4, <1>5

LEMMA AttemptsStep == AttemptsInv /\ [Next]_vars => AttemptsInv'
<1> SUFFICES ASSUME AttemptsInv, [Next]_vars PROVE AttemptsInv'
  OBVIOUS
<1>1. TypeOK /\ TypeOK'
  BY TypeStep DEF AttemptsInv
<1>2. /\ failures \in Seq(Nat) /\ Len(failures) \in Nat
      /\ \A i \in 1 .. Len(failures) : failures[i] \in Nat
  BY <1>1, LenProperties, ElementOfSeq DEF TypeOK
<1>3. CASE Tick
  <2>1. PICK gone \in 0 .. Len(failures) :
          /\ failures' \in Seq(Nat)
          /\ Len(failures') = Len(failures) - gone
          /\ \A i \in 1 .. Len(failures) - gone : failures'[i] = failures[i + gone] + 1
    BY <1>2, <1>3, TickFacts
  <2>2. Allowed' = Allowed /\ Allowed \in Int
    <3>1. UnderWay' = UnderWay
      BY <1>3 DEF Tick, UnderWay
    <3> QED
      BY <3>1, AllowedType DEF Allowed
  <2>3. ASSUME NEW i \in 1 .. Len(failures')
        PROVE  /\ failures'[i] = failures[i + gone] + 1
               /\ i + gone \in 1 .. Len(failures)
               /\ Len(failures') + gone = Len(failures)
               /\ Len(failures') \in 1 .. Len(failures')
    BY <1>2, <2>1
  <2>4. OthersAreOld'
    <3> SUFFICES ASSUME NEW i \in 1 .. Len(failures'), i + Allowed <= Len(failures')
                 PROVE  failures'[i] >= Lockout
      BY <2>2 DEF OthersAreOld
    <3>1. (i + gone) + Allowed <= Len(failures)
      BY <1>2, <2>1, <2>2, <2>3
    <3>2. failures[i + gone] >= Lockout /\ failures[i + gone] \in Nat
      BY <1>2, <2>3, <3>1 DEF AttemptsInv, OthersAreOld
    <3> QED
      BY <2>3, <3>2
  <2>5. LastIsYoungest'
    <3> SUFFICES ASSUME NEW i \in 1 .. Len(failures')
                 PROVE  failures'[i] >= failures'[Len(failures')]
      BY DEF LastIsYoungest
    <3>1. failures'[Len(failures')] = failures[Len(failures)] + 1
      BY <2>1, <2>3
    <3>2. failures[i + gone] >= failures[Len(failures)]
      BY <2>3 DEF AttemptsInv, LastIsYoungest
    <3>3. failures[i + gone] \in Nat /\ failures[Len(failures)] \in Nat
      <4>1. Len(failures) \in 1 .. Len(failures)
        BY <1>2, <2>3
      <4> QED
        BY <1>2, <2>3, <4>1
    <3> QED
      BY <2>3, <3>1, <3>2, <3>3
  <2> QED
    BY <1>1, <2>4, <2>5 DEF AttemptsInv
<1>4. CASE LoginRefused \/ SessionExpires \/ UNCHANGED vars
  <2>1. failures' = failures /\ UnderWay' = UnderWay
    BY <1>4 DEF LoginRefused, Refuse, SessionExpires, vars, UnderWay
  <2>2. Cardinality(UnderWay)' = Cardinality(UnderWay)
    BY <2>1
  <2>3. Cardinality(UnderWay)' \in Nat /\ Cardinality(UnderWay)' <= Cardinality(UnderWay)
    BY <2>2, AllowedType
  <2> QED
    BY <1>1, <2>1, <2>3, NoFailureKeeps
<1>5. ASSUME NEW r \in Requests, LoginBegins(r) PROVE AttemptsInv'
  <2>1. failures' = failures /\ ~LockedOut /\ Others(r)
    BY <1>5 DEF LoginBegins, Becomes, Others
  <2>2. request[r].at # "login"
    BY <1>5 DEF LoginBegins, Free
  <2>3. ~LoginLeft(r)
    BY <1>1, <1>5 DEF LoginBegins, Becomes, LoginLeft, TypeOK
  <2>4. /\ Cardinality(UnderWay') = Cardinality(UnderWay) + 1
        /\ Cardinality(UnderWay') \in Nat /\ Cardinality(UnderWay') <= Cardinality(Requests)
    BY <2>1, <2>2, <2>3, UnderWayChanges
  <2> QED
    BY <1>1, <2>1, <2>4, NoFailureKeeps
<1>6. ASSUME NEW r \in Requests,
             \/ LoginSucceeds(r) \/ LoginBroken(r) \/ Update(r)
      PROVE  AttemptsInv'
  <2>1. failures' = failures
    BY <1>6 DEF LoginSucceeds, LoginBroken, Update, UpdateBegins, UpdateRejected,
       UpdateRotates, UpdateClears, UpdateKeeps, UpdateSaved
  <2>3. LoginLeft(r) /\ Others(r)
    <3> USE DEF LoginLeft, Others, TypeOK, Becomes
    <3>1. CASE \/ LoginSucceeds(r) \/ LoginBroken(r)
               \/ UpdateRejected(r) \/ UpdateSaved(r)
      BY <1>1, <3>1 DEF LoginSucceeds, LoginBroken, UpdateRejected, UpdateSaved, Answered, Free
    <3>2. CASE UpdateBegins(r)
      BY <1>1, <3>2 DEF UpdateBegins
    <3>3. CASE UpdateRotates(r)
      BY <1>1, <3>3 DEF UpdateRotates
    <3>4. CASE UpdateClears(r)
      BY <1>1, <3>4 DEF UpdateClears
    <3>5. CASE UpdateKeeps(r)
      BY <1>1, <3>5 DEF UpdateKeeps
    <3> QED
      BY <1>6, <3>1, <3>2, <3>3, <3>4, <3>5 DEF Update
  <2>4. Cardinality(UnderWay') \in Nat /\ Cardinality(UnderWay') <= Cardinality(UnderWay)
    BY <2>3, UnderWayChanges, AllowedType
  <2> QED
    BY <1>1, <2>1, <2>4, NoFailureKeeps
<1>7. ASSUME NEW r \in Requests, LoginFails(r) PROVE AttemptsInv'
  <2>1. failures' = Append(failures, 0) /\ request[r].at = "login" /\ Others(r)
    BY <1>7 DEF LoginFails, RecordFailure, Answered, Becomes, Others
  <2>8. LoginLeft(r)
    BY <1>1, <1>7 DEF LoginFails, Answered, Becomes, Free, LoginLeft, TypeOK
  <2>2. Cardinality(UnderWay') = Cardinality(UnderWay) - 1
    BY <2>1, <2>8, UnderWayChanges
  <2>3. Allowed' = Allowed + 1 /\ Allowed \in Int /\ Allowed >= 0
    BY <2>2, AllowedType DEF Allowed
  <2>4. /\ Len(failures') = Len(failures) + 1
        /\ failures'[Len(failures) + 1] = 0
        /\ \A i \in 1 .. Len(failures) : failures'[i] = failures[i]
    BY <1>2, <2>1, AppendProperties
  <2>5. \A i \in 1 .. Len(failures') : i \in 1 .. Len(failures) \/ i = Len(failures) + 1
    BY <1>2, <2>4
  <2>6. OthersAreOld'
    <3> SUFFICES ASSUME NEW i \in 1 .. Len(failures'), i + Allowed' <= Len(failures')
                 PROVE  failures'[i] >= Lockout
      BY DEF OthersAreOld
    <3>1. i \in 1 .. Len(failures) /\ i + Allowed <= Len(failures)
      BY <1>2, <2>3, <2>4, <2>5
    <3> QED
      BY <2>4, <3>1 DEF AttemptsInv, OthersAreOld
  <2>7. LastIsYoungest'
    BY <1>2, <2>4, <2>5 DEF LastIsYoungest
  <2> QED
    BY <1>1, <2>6, <2>7 DEF AttemptsInv
<1> QED
  BY <1>3, <1>4, <1>5, <1>6, <1>7 DEF Next, Login

(* Guessing is bounded, however many logins overlap: an attempt during the *)
(* lockout is refused, and those that passed the check before it are as    *)
(* many as are served at a time (lockout_remaining, record_failure).       *)
THEOREM GuessesAreBounded == Spec => []AttemptsBounded
<1>1. Init => AttemptsInv
  <2> SUFFICES ASSUME Init PROVE AttemptsInv
    OBVIOUS
  <2>1. failures \in Seq(Nat) /\ Len(failures) = 0
    BY EmptySeq DEF Init
  <2>2. TypeOK
    BY <2>1, StatesOfRequests DEF Init, TypeOK
  <2> QED
    BY <2>1, <2>2 DEF AttemptsInv, OthersAreOld, LastIsYoungest
<1>2. AttemptsInv => AttemptsBounded
  <2> SUFFICES ASSUME AttemptsInv PROVE AttemptsBounded
    OBVIOUS
  <2> DEFINE young == {i \in DOMAIN failures : failures[i] < Lockout}
             n == Len(failures)
             most == MaxFailed - 1 + Cardinality(Requests)
  <2>1. /\ n \in Nat /\ DOMAIN failures = 1 .. n
        /\ \A i \in 1 .. n : failures[i] \in Nat
    BY LenProperties, ElementOfSeq DEF AttemptsInv, TypeOK
  <2>2. Allowed \in Nat /\ most \in Nat /\ Allowed <= most
    BY AllowedType DEF Allowed
  <2>3. young \in SUBSET ((n - Allowed + 1) .. n)
    BY <2>1, <2>2 DEF AttemptsInv, OthersAreOld
  <2>4. young \in SUBSET (1 .. n)
    BY <2>1
  <2> HIDE DEF young, n
  <2>5. CASE Allowed <= n
    <3>1. /\ IsFiniteSet((n - Allowed + 1) .. n)
          /\ Cardinality((n - Allowed + 1) .. n) = Allowed
      BY <2>1, <2>2, <2>5, FS_Interval
    <3>2. Cardinality(young) <= Allowed /\ Cardinality(young) \in Nat
      BY <2>3, <3>1, FS_Subset, FS_CardinalityType
    <3> QED
      BY <2>2, <3>2 DEF AttemptsBounded, young
  <2>6. CASE Allowed > n
    <3>1. IsFiniteSet(1 .. n) /\ Cardinality(1 .. n) = n
      BY <2>1, FS_Interval
    <3>2. Cardinality(young) <= n /\ Cardinality(young) \in Nat
      BY <2>4, <3>1, FS_Subset, FS_CardinalityType
    <3> QED
      BY <2>1, <2>2, <2>6, <3>2 DEF AttemptsBounded, young
  <2> QED
    BY <2>1, <2>2, <2>5, <2>6
<1> QED
  BY <1>1, <1>2, AttemptsStep, PTL DEF Spec
================================================================================
