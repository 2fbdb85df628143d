-------------------------- MODULE PortalSessionProofs --------------------------
(***************************************************************************)
(* What TLAPS proves of PortalSession, for any number of clients, with and *)
(* without RemoteDesktop, and any number of sessions.                      *)
(***************************************************************************)
EXTENDS PortalSession, TLAPS

(* The requests of a negotiation: CreateSession is the first, and one that *)
(* is neither the first nor Start has a next one.                          *)
LEMMA ChainFacts ==
  /\ Len(Chain) \in Nat \ {0}
  /\ \A i \in 1 .. Len(Chain) :
       /\ Chain[i] = "create" <=> i = 1
       /\ Chain[i] \in {"devices", "sources"} => i + 1 \in 1 .. Len(Chain)
       /\ Chain[i] = "create" => 2 \in 1 .. Len(Chain)
<1>1. CASE HasRemoteDesktop
  <2>1. Chain = <<"create", "devices", "sources", "start">>
    BY <1>1 DEF Chain
  <2> QED
    BY <2>1
<1>2. CASE ~HasRemoteDesktop
  <2>1. Chain = <<"create", "sources", "start">>
    BY <1>2 DEF Chain
  <2> QED
    BY <2>1
<1> QED
  BY <1>1, <1>2

USE PortalAssumption

--------------------------------------------------------------------------------
(* The inductive invariant.                                                *)

(* PORTAL_ACQUIRE_LOCK is held from the second check to the store.         *)
UnderLock == {"recheck", "recheckDrop", "store"} \cup Negotiating
LockInv == \A c \in Clients : pc[c] \in UnderLock => acquireLock = c

(* A request that was made is awaited, and its rule was installed before.  *)
TalkInv ==
  \A c \in Clients :
    /\ talk[c].call # "missed"
    /\ talk[c].call # "unsent" => pc[c] = "await"
    /\ pc[c] \in {"call", "await"} => talk[c].rule

(* A negotiation has a session from its first answer to its end; until     *)
(* then nobody holds it.                                                   *)
NegotiationInv ==
  \A c \in Clients :
    /\ talk[c].session # NoSession => pc[c] \in Negotiating
    /\ talk[c].session # NoSession <=> talk[c].step # 1
    /\ talk[c].session # NoSession => ~Alive(held, talk[c].session)

(* Sessions are numbered in the order they are made, and the one under     *)
(* negotiation is the newest.                                              *)
NumberInv ==
  \A c \in Clients :
    /\ talk[c].session \in {NoSession, made}
    /\ \A p \in Places : held[c][p] <= made

(* The newest session, while anybody holds it, is the cached one or about  *)
(* to be.                                                                  *)
CacheInv ==
  /\ made # NoSession /\ Alive(held, made) =>
       cache = made \/ \E c \in Clients : pc[c] = "store"
  /\ \A c \in Clients : pc[c] = "store" => held[c]["local"] = made
  /\ \A c \in Clients :
       pc[c] = "recheckDrop" => cache \in Sessions /\ cursorOf[cache] # cursor[c]

IInv ==
  /\ TypeOK /\ LockInv /\ TalkInv /\ NegotiationInv /\ NumberInv
  /\ CacheInv

(* Arcs are cloned from Arcs, moved or dropped: nothing becomes alive that *)
(* was not, and what dies is closed.                                       *)
LEMMA HoldKeeps ==
  ASSUME IInv, NEW h \in [Clients -> [Places -> 0 .. MaxSessions]], Hold(h),
         \A s \in Sessions : Alive(h, s) => Alive(held, s),
         talk' = talk, made' = made
  PROVE  /\ held' = h
         /\ held' \in [Clients -> [Places -> 0 .. MaxSessions]]
         /\ open' \in SUBSET Sessions
         /\ \A c \in Clients :
              talk'[c].session # NoSession => ~Alive(held', talk'[c].session)
         /\ NumberInv'
         /\ made' # NoSession /\ Alive(held, made)' => Alive(held, made)
<1> USE DEF IInv, TypeOK, Hold, Sessions, NoSession
<1>1. /\ held' = h /\ open' \in SUBSET Sessions
      /\ open' = {s \in open : Alive(held, s) => Alive(h, s)}
  OBVIOUS
<1>2. \A s \in Sessions : Alive(held, s)' <=> Alive(h, s)
  BY <1>1 DEF Alive
<1>3. \A c \in Clients : talk[c].session \in 0 .. MaxSessions
  OBVIOUS
<1>4. \A c \in Clients :
        talk'[c].session # NoSession => ~Alive(held', talk'[c].session)
  <2> SUFFICES ASSUME NEW c \in Clients, talk[c].session # NoSession
               PROVE  ~Alive(h, talk[c].session)
    BY <1>1 DEF Alive
  <2>1. talk[c].session \in Sessions /\ ~Alive(held, talk[c].session)
    BY <1>3 DEF NegotiationInv
  <2> QED
    BY <2>1
<1>5. NumberInv'
  <2> SUFFICES ASSUME NEW c \in Clients, NEW p \in Places
               PROVE  h[c][p] <= made
    BY <1>1 DEF NumberInv
  <2>1. h[c][p] \in 0 .. MaxSessions
    OBVIOUS
  <2>2. CASE h[c][p] = 0
    BY <2>2
  <2>3. CASE h[c][p] # 0
    <3>1. Alive(h, h[c][p]) /\ h[c][p] \in Sessions
      BY <2>1, <2>3 DEF Alive
    <3>2. Alive(held, h[c][p])
      BY <3>1
    <3> QED
      BY <3>2 DEF Alive, NumberInv
  <2> QED
    BY <2>2, <2>3
<1>6. made' # NoSession /\ Alive(held, made)' => Alive(held, made)
  <2> SUFFICES ASSUME made # NoSession, Alive(h, made)
               PROVE  Alive(held, made)
    BY <1>1 DEF Alive
  <2>1. made \in Sessions
    OBVIOUS
  <2> QED
    BY <2>1
<1> QED
  BY <1>1, <1>4, <1>5, <1>6

(* What replacing one Arc does to the places that hold one.                *)
LEMMA SetKeepsType ==
  ASSUME TypeOK, NEW c \in Clients, NEW p \in Places, NEW s \in 0 .. MaxSessions
  PROVE  /\ [held EXCEPT ![c][p] = s] \in [Clients -> [Places -> 0 .. MaxSessions]]
         /\ \A t \in Sessions :
              Alive([held EXCEPT ![c][p] = s], t) => t = s \/ Alive(held, t)
  BY DEF TypeOK, Alive

(* Steps of the cache's lock and of the acquisition of a session that take *)
(* or drop an Arc.                                                         *)
LEMMA ListStepKeeps ==
  ASSUME IInv, NEW c \in Clients, Reuse(c) \/ WrongMode(c) \/ DropPeek(c)
  PROVE  IInv'
<1> USE DEF IInv, NoSession
<1>1. PICK p \in {"local", "peek"}, s \in 0 .. MaxSessions :
        /\ Take(c, p, s)
        /\ s \in Sessions => Alive(held, s)
        /\ p = "local" => pc[c] # "store" /\ pc'[c] # "store"
        /\ UNCHANGED <<cache, made, cursorOf, cursor, pending, talk>>
  <2>1. CASE Reuse(c)
    <3>1. cache \in 0 .. MaxSessions
      BY DEF TypeOK
    <3> QED
      BY <2>1, <3>1 DEF Reuse, Fits, Goto, TypeOK
  <2>2. CASE WrongMode(c)
    <3>1. cache \in 0 .. MaxSessions
      BY DEF TypeOK
    <3> QED
      BY <2>2, <3>1 DEF WrongMode
  <2>3. CASE DropPeek(c)
    BY <2>3 DEF DropPeek, Sessions
  <2> QED
    BY <2>1, <2>2, <2>3
<1> DEFINE h == [held EXCEPT ![c][p] = s]
<1>2. h \in [Clients -> [Places -> 0 .. MaxSessions]]
  BY SetKeepsType DEF Places
<1>3. \A t \in Sessions : Alive(h, t) => Alive(held, t)
  BY <1>1, SetKeepsType DEF Places
<1>4. Hold(h)
  BY <1>1 DEF Take
<1> HIDE DEF h
<1>5. /\ held' = h
      /\ held' \in [Clients -> [Places -> 0 .. MaxSessions]]
      /\ open' \in SUBSET Sessions
      /\ \A d \in Clients :
           talk'[d].session # NoSession => ~Alive(held', talk'[d].session)
      /\ NumberInv'
      /\ made' # NoSession /\ Alive(held, made)' => Alive(held, made)
  BY <1>1, <1>2, <1>3, <1>4, HoldKeeps
<1>6. /\ pc' \in [Clients -> Listing \cup {"idle"}]
      /\ \A d \in Clients : d # c => pc'[d] = pc[d]
      /\ pc'[c] \notin {"call", "await", "store"}
      /\ pc[c] \notin Negotiating \cup {"store"}
      /\ \/ acquireLock' = acquireLock
         \/ acquireLock' = NoClient /\ pc[c] \in UnderLock
      /\ pc'[c] \in UnderLock => pc[c] \in UnderLock /\ acquireLock' = acquireLock
      /\ pc'[c] = "recheckDrop" => cache \in Sessions /\ cursorOf[cache] # cursor[c]
      /\ cacheLock' \in Clients \cup {NoClient}
  <2> USE DEF Goto, Listing, UnderLock, Negotiating
  <2>1. CASE Reuse(c)
    BY <2>1 DEF Reuse, TypeOK
  <2>2. CASE WrongMode(c)
    <3>1. cache \in Sessions /\ cursorOf[cache] # cursor[c]
      BY <2>2 DEF WrongMode, Fits
    <3> QED
      BY <2>2, <3>1 DEF WrongMode, TypeOK
  <2>3. CASE DropPeek(c)
    BY <2>3 DEF DropPeek, AfterCheck, TypeOK
  <2> QED
    BY <2>1, <2>2, <2>3
<1>7. TypeOK'
  BY <1>1, <1>5, <1>6 DEF TypeOK
<1>8. LockInv'
  BY <1>6 DEF LockInv, TypeOK
<1>9. TalkInv'
  BY <1>1, <1>6 DEF TalkInv, TypeOK, Negotiating
<1>10. NegotiationInv'
  BY <1>1, <1>5, <1>6 DEF NegotiationInv, TypeOK
<1>11. CacheInv'
  <2>1. \A d \in Clients : pc'[d] = "store" <=> pc[d] = "store"
    BY <1>6 DEF TypeOK
  <2>2. \A d \in Clients : pc'[d] = "store" => held'[d]["local"] = made'
    <3>1. \A d \in Clients : d # c => h[d] = held[d]
      BY DEF TypeOK, h
    <3>2. \A d \in Clients : pc[d] = "store" => held[d]["local"] = made /\ d # c
      BY <1>6 DEF CacheInv
    <3>3. held' = h /\ made' = made
      BY <1>1, <1>5
    <3> QED
      BY <2>1, <3>1, <3>2, <3>3
  <2>3. \A d \in Clients :
          pc'[d] = "recheckDrop" => cache' \in Sessions /\ cursorOf'[cache'] # cursor'[d]
    BY <1>1, <1>6 DEF CacheInv, TypeOK
  <2> QED
    BY <1>1, <1>5, <2>1, <2>2, <2>3 DEF CacheInv
<1> QED
  BY <1>5, <1>7, <1>8, <1>9, <1>10, <1>11

(* Arcs move while c neither checks nor negotiates: the list is replaced,  *)
(* the device and the recorder take theirs, the client leaves.             *)
LEMMA ArcsMove ==
  ASSUME IInv, NEW c \in Clients, NEW h \in [Clients -> [Places -> 0 .. MaxSessions]],
         Hold(h), \A s \in Sessions : Alive(h, s) => Alive(held, s),
         \A d \in Clients \ {c} : h[d] = held[d],
         pc[c] # "store" \/ h[c]["local"] = held[c]["local"],
         \/ UNCHANGED <<pc, cursor>>
         \/ UNCHANGED cursor /\ Goto(c, "idle") /\ pc[c] = "listed"
         \/ UNCHANGED pc /\ pc[c] = "idle" /\ \E b \in BOOLEAN : cursor' = [cursor EXCEPT ![c] = b],
         pending' \in [Clients -> BOOLEAN],
         UNCHANGED <<cache, cacheLock, acquireLock, made, cursorOf, talk>>
  PROVE  IInv'
<1> USE DEF IInv, NoSession
<1>1. /\ held' = h
      /\ held' \in [Clients -> [Places -> 0 .. MaxSessions]]
      /\ open' \in SUBSET Sessions
      /\ \A d \in Clients :
           talk'[d].session # NoSession => ~Alive(held', talk'[d].session)
      /\ NumberInv'
      /\ made' # NoSession /\ Alive(held, made)' => Alive(held, made)
  BY HoldKeeps
<1>2. /\ pc' \in [Clients -> Listing \cup {"idle"}]
      /\ cursor' \in [Clients -> BOOLEAN]
      /\ \A d \in Clients : pc'[d] = pc[d] \/ (pc[d] = "listed" /\ pc'[d] = "idle")
      /\ \A d \in Clients : cursor'[d] = cursor[d] \/ pc'[d] = "idle"
  <2>1. pc \in [Clients -> Listing \cup {"idle"}] /\ cursor \in [Clients -> BOOLEAN]
    BY DEF TypeOK
  <2>2. CASE UNCHANGED <<pc, cursor>>
    BY <2>1, <2>2
  <2>3. CASE UNCHANGED cursor /\ Goto(c, "idle") /\ pc[c] = "listed"
    BY <2>1, <2>3 DEF Goto
  <2>4. CASE UNCHANGED pc /\ pc[c] = "idle" /\ \E b \in BOOLEAN : cursor' = [cursor EXCEPT ![c] = b]
    <3>1. PICK b \in BOOLEAN : cursor' = [cursor EXCEPT ![c] = b]
      BY <2>4
    <3>2. cursor' \in [Clients -> BOOLEAN] /\ \A d \in Clients : d # c => cursor'[d] = cursor[d]
      BY <2>1, <3>1
    <3>3. QED
      BY <2>1, <2>4, <3>2
  <2>5. QED
    BY <2>2, <2>3, <2>4
<1>3. TypeOK'
  BY <1>1, <1>2 DEF TypeOK
<1>4. LockInv' /\ TalkInv' /\ NegotiationInv'
  <2>1. LockInv'
    BY <1>2 DEF LockInv, UnderLock, Negotiating
  <2>2. TalkInv'
    BY <1>1, <1>2 DEF TalkInv, Negotiating
  <2>3. NegotiationInv'
    BY <1>1, <1>2 DEF NegotiationInv, Negotiating
  <2> QED
    BY <2>1, <2>2, <2>3
<1>5. CacheInv'
  <2>1. \A d \in Clients : pc'[d] = "store" <=> pc[d] = "store"
    BY <1>2
  <2>2. \A d \in Clients : pc'[d] = "store" => held'[d]["local"] = made'
    BY <1>1, <2>1 DEF CacheInv
  <2>3. \A d \in Clients :
          pc'[d] = "recheckDrop" => cache' \in Sessions /\ cursorOf'[cache'] # cursor'[d]
    BY <1>2 DEF CacheInv
  <2> QED
    BY <1>1, <2>1, <2>2, <2>3 DEF CacheInv
<1> QED
  BY <1>1, <1>3, <1>4, <1>5

(* What replacing two of them does.                                        *)
Two(c, p, s, q, t) == [held EXCEPT ![c][p] = s, ![c][q] = t]

LEMMA SetTwo ==
  ASSUME TypeOK, NEW c \in Clients, NEW p \in Places, NEW q \in Places, p # q,
         NEW s \in 0 .. MaxSessions, NEW t \in 0 .. MaxSessions
  PROVE  /\ Two(c, p, s, q, t) \in [Clients -> [Places -> 0 .. MaxSessions]]
         /\ \A d \in Clients \ {c} : Two(c, p, s, q, t)[d] = held[d]
         /\ Two(c, p, s, q, t)[c][p] = s /\ Two(c, p, s, q, t)[c][q] = t
         /\ \A r \in Places : r # p /\ r # q => Two(c, p, s, q, t)[c][r] = held[c][r]
<1> DEFINE g == [held EXCEPT ![c][p] = s]
<1>1. /\ g \in [Clients -> [Places -> 0 .. MaxSessions]]
      /\ \A d \in Clients \ {c} : g[d] = held[d]
      /\ g[c][p] = s
      /\ \A r \in Places \ {p} : g[c][r] = held[c][r]
  BY DEF TypeOK
<1>2. Two(c, p, s, q, t) = [g EXCEPT ![c][q] = t]
  BY DEF TypeOK, Two
<1> HIDE DEF g
<1> QED
  BY <1>1, <1>2

LEMMA TwoArcsMove ==
  ASSUME IInv, NEW c \in Clients, NEW p \in Places, NEW q \in Places,
         p # q, p # "local", q # "local",
         NEW s \in 0 .. MaxSessions, NEW t \in 0 .. MaxSessions,
         s \in Sessions => Alive(held, s), t \in Sessions => Alive(held, t),
         Hold(Two(c, p, s, q, t)),
         pending' \in [Clients -> BOOLEAN],
         \/ UNCHANGED cursor
         \/ pc[c] = "idle" /\ \E b \in BOOLEAN : cursor' = [cursor EXCEPT ![c] = b],
         UNCHANGED <<cache, cacheLock, acquireLock, made, cursorOf, pc, talk>>
  PROVE  IInv'
<1> DEFINE h == Two(c, p, s, q, t)
<1>1. TypeOK
  BY DEF IInv
<1>2. /\ h \in [Clients -> [Places -> 0 .. MaxSessions]]
      /\ \A d \in Clients \ {c} : h[d] = held[d]
      /\ h[c][p] = s /\ h[c][q] = t
      /\ \A r \in Places : r # p /\ r # q => h[c][r] = held[c][r]
  BY <1>1, SetTwo
<1>3. Hold(h)
  OBVIOUS
<1> HIDE DEF h
<1>4. \A u \in Sessions : Alive(h, u) => Alive(held, u)
  <2> SUFFICES ASSUME NEW u \in Sessions, NEW d \in Clients, NEW r \in Places,
                      h[d][r] = u
               PROVE  Alive(held, u)
    BY DEF Alive
  <2>1. u = s \/ u = t \/ h[d][r] = held[d][r]
    BY <1>2
  <2> QED
    BY <2>1 DEF Alive
<1>5. h[c]["local"] = held[c]["local"]
  BY <1>2 DEF Places
<1> QED
  BY <1>2, <1>3, <1>4, <1>5, ArcsMove

LEMMA UseKeeps ==
  ASSUME IInv, NEW c \in Clients, Use(c) \/ Listed(c)
  PROVE  IInv'
<1> USE DEF NoSession
<1>0. TypeOK /\ 0 \in 0 .. MaxSessions
  BY DEF IInv
<1>1. ASSUME NEW s \in Sessions \cup {NoSession}, NEW b \in BOOLEAN, Configure(c, s, b)
      PROVE  IInv'
  <2>1. /\ s \in 0 .. MaxSessions /\ NoSession \in 0 .. MaxSessions
        /\ "device" \in Places /\ "command" \in Places /\ "list" \in Places
        /\ "device" # "command" /\ "device" # "local" /\ "command" # "local"
        /\ NoSession \notin Sessions
    BY DEF Sessions, Places
  <2>2. s = held[c]["list"] \/ s = NoSession
    BY <1>1 DEF Configure
  <2>3. s \in Sessions => Alive(held, s)
    BY <2>1, <2>2 DEF Alive
  <2>4. pending' \in [Clients -> BOOLEAN]
    BY <1>0, <1>1 DEF Configure, TypeOK
  <2>5. Hold(Two(c, "device", s, "command", s))
    BY <1>1 DEF Configure, Two
  <2> QED
    BY <1>1, <2>1, <2>3, <2>4, <2>5, TwoArcsMove DEF Configure
<1>2. ASSUME NEW b \in BOOLEAN, DeviceFails(c, b)
      PROVE  IInv'
  <2>1. cursor' \in [Clients -> BOOLEAN] /\ \A d \in Clients : d # c => cursor'[d] = cursor[d]
    BY <1>0, <1>2 DEF DeviceFails, TypeOK
  <2>a. /\ UNCHANGED <<held, open, made, pc, acquireLock, talk>>
        /\ \A s \in Sessions : Alive(held, s)' <=> Alive(held, s)
    BY <1>2 DEF DeviceFails, Alive
  <2>2. TypeOK' /\ LockInv' /\ TalkInv' /\ NegotiationInv' /\ NumberInv'
    <3>1. TypeOK'
      BY <1>0, <1>2, <2>1 DEF DeviceFails, TypeOK
    <3>2. LockInv' /\ TalkInv' /\ NumberInv'
      BY <2>a DEF IInv, LockInv, TalkInv, NumberInv
    <3>3. NegotiationInv'
      BY <2>a DEF IInv, NegotiationInv, Alive
    <3> QED
      BY <3>1, <3>2, <3>3
  <2>3. CacheInv'
    BY <1>2, <2>1 DEF DeviceFails, IInv, CacheInv, Alive
  <2> QED
    BY <2>2, <2>3 DEF IInv
<1>3. ASSUME NEW s \in Sessions \cup {NoSession}, StartVideo(c, s)
      PROVE  IInv'
  <2>1. /\ s \in 0 .. MaxSessions /\ NoSession \in 0 .. MaxSessions
        /\ "recorder" \in Places /\ "command" \in Places /\ "command" \in Places
        /\ "recorder" # "command" /\ "recorder" # "local" /\ "command" # "local"
        /\ NoSession \notin Sessions
    BY DEF Sessions, Places
  <2>2. s = held[c]["command"] \/ s = NoSession
    BY <1>3 DEF StartVideo
  <2>3. s \in Sessions => Alive(held, s)
    BY <2>1, <2>2 DEF Alive
  <2>4. pending' \in [Clients -> BOOLEAN]
    BY <1>0, <1>3 DEF StartVideo, TypeOK
  <2>5. Hold(Two(c, "recorder", s, "command", NoSession))
    BY <1>3 DEF StartVideo, Two
  <2> QED
    BY <1>3, <2>1, <2>3, <2>4, <2>5, TwoArcsMove DEF StartVideo
<1>4. CASE LoseRecorder(c)
  <2> DEFINE h == [held EXCEPT ![c]["recorder"] = NoSession]
  <2>1. h \in [Clients -> [Places -> 0 .. MaxSessions]]
    BY <1>0 DEF TypeOK
  <2>2. \A t \in Sessions : Alive(h, t) => Alive(held, t)
    BY SMTT(20), <1>0 DEF TypeOK, Alive, Sessions, Places
  <2>3. h[c]["local"] = held[c]["local"] /\ \A d \in Clients \ {c} : h[d] = held[d]
    BY <1>0 DEF TypeOK, Places
  <2>4. pending' \in [Clients -> BOOLEAN]
    BY <1>0, <1>4 DEF LoseRecorder, TypeOK
  <2>5. Hold(h)
    BY <1>4 DEF LoseRecorder, Take
  <2> HIDE DEF h
  <2> QED
    BY <1>4, <2>1, <2>2, <2>3, <2>4, <2>5, ArcsMove DEF LoseRecorder
<1>5. CASE Leave(c)
  <2> DEFINE h == [held EXCEPT ![c] = [p \in Places |-> NoSession]]
  <2>1. h \in [Clients -> [Places -> 0 .. MaxSessions]]
    BY <1>0 DEF TypeOK
  <2>2. \A t \in Sessions : Alive(h, t) => Alive(held, t)
    BY <1>0 DEF TypeOK, Alive, Sessions
  <2>3. \A d \in Clients \ {c} : h[d] = held[d]
    BY <1>0 DEF TypeOK
  <2>4. pending' \in [Clients -> BOOLEAN]
    BY <1>0, <1>5 DEF Leave, TypeOK
  <2>5. Hold(h)
    BY <1>5 DEF Leave
  <2> HIDE DEF h
  <2> QED
    BY <1>5, <2>1, <2>2, <2>3, <2>4, <2>5, ArcsMove DEF Leave
<1>6. CASE Listed(c)
  <2> DEFINE h == [held EXCEPT ![c]["list"] = held[c]["local"], ![c]["local"] = NoSession]
  <2>1. h \in [Clients -> [Places -> 0 .. MaxSessions]]
    BY ZenonT(60), <1>0 DEF TypeOK, Places
  <2>2. \A t \in Sessions : Alive(h, t) => Alive(held, t)
    BY SMTT(20), <1>0 DEF TypeOK, Alive, Sessions, Places
  <2>3. \A d \in Clients \ {c} : h[d] = held[d]
    BY <1>0 DEF TypeOK
  <2>4. pending' \in [Clients -> BOOLEAN]
    BY <1>0, <1>6 DEF Listed, TypeOK
  <2>5. Hold(h)
    BY <1>6 DEF Listed
  <2> HIDE DEF h
  <2> QED
    BY <1>6, <2>1, <2>2, <2>3, <2>4, <2>5, ArcsMove DEF Listed
<1> QED
  BY <1>1, <1>2, <1>3, <1>4, <1>5, <1>6 DEF Use

(* Steps of the list and of the negotiation that neither take nor drop an  *)
(* Arc, nor a session.                                                     *)
LEMMA OtherStepKeeps ==
  ASSUME IInv, NEW c \in Clients,
         \/ RequestList(c) \/ Miss(c) \/ Acquire(c) \/ Store(c)
         \/ Register(c) \/ Call(c) \/ Answer(c) \/ NextRequest(c)
  PROVE  IInv'
<1> USE DEF NoSession
<1>0. TypeOK
  BY DEF IInv
<1>1. UNCHANGED <<held, open, made, cursorOf, cursor, pending, cacheLock>>
  BY DEF RequestList, Miss, Acquire, Store, Register, Call, Answer, NextRequest
<1>2. \A s : Alive(held, s)' <=> Alive(held, s)
  BY <1>1 DEF Alive
<1>3. /\ \A d \in Clients : talk'[d].session = talk[d].session
      /\ \A d \in Clients : talk'[d].step # 1 <=> talk[d].step # 1
      /\ talk' \in [Clients -> [step : 1 .. Len(Chain), rule : BOOLEAN,
                                call : {"unsent", "sent", "answered", "missed"},
                                session : 0 .. MaxSessions]]
  <2>0. talk[c] \in [step : 1 .. Len(Chain), rule : BOOLEAN,
                     call : {"unsent", "sent", "answered", "missed"},
                     session : 0 .. MaxSessions]
    BY <1>0 DEF TypeOK
  <2>1. CASE RequestList(c) \/ Miss(c) \/ Acquire(c) \/ Store(c)
    <3>1. talk' = talk
      BY <2>1 DEF RequestList, Miss, Acquire, Store
    <3> QED
      BY <1>0, <3>1 DEF TypeOK
  <2>2. CASE Register(c)
    <3> DEFINE new == [talk[c] EXCEPT !.rule = TRUE]
    <3>1. talk' = [talk EXCEPT ![c] = new]
      BY <1>0, <2>2 DEF Register, TypeOK
    <3>2. /\ new \in [step : 1 .. Len(Chain), rule : BOOLEAN,
                      call : {"unsent", "sent", "answered", "missed"},
                      session : 0 .. MaxSessions]
          /\ new.step = talk[c].step /\ new.session = talk[c].session
      BY <2>0
    <3> HIDE DEF new
    <3> QED
      BY <1>0, <3>1, <3>2 DEF TypeOK
  <2>3. CASE Call(c)
    <3> DEFINE new == [talk[c] EXCEPT !.call = "sent"]
    <3>1. talk' = [talk EXCEPT ![c] = new]
      BY <1>0, <2>3 DEF Call, TypeOK
    <3>2. /\ new \in [step : 1 .. Len(Chain), rule : BOOLEAN,
                      call : {"unsent", "sent", "answered", "missed"},
                      session : 0 .. MaxSessions]
          /\ new.step = talk[c].step /\ new.session = talk[c].session
      BY <2>0
    <3> HIDE DEF new
    <3> QED
      BY <1>0, <3>1, <3>2 DEF TypeOK
  <2>4. CASE Answer(c)
    BY ZenonT(60), <1>0, <2>4 DEF Answer, TypeOK
  <2>5. CASE NextRequest(c)
    <3> DEFINE new == [NoTalk EXCEPT !.step = talk[c].step + 1, !.session = talk[c].session]
    <3>1. talk' = [talk EXCEPT ![c] = new] /\ Chain[talk[c].step] \in {"devices", "sources"}
      BY <2>5 DEF NextRequest
    <3>2. talk[c].step \in 1 .. Len(Chain) /\ talk[c].session \in 0 .. MaxSessions
      BY <1>0 DEF TypeOK
    <3>3. talk[c].step + 1 \in 1 .. Len(Chain) /\ talk[c].step # 1
      BY <3>1, <3>2, ChainFacts
    <3>4. talk[c].step + 1 # 1
      BY <3>2
    <3>5. /\ new \in [step : 1 .. Len(Chain), rule : BOOLEAN,
                      call : {"unsent", "sent", "answered", "missed"},
                      session : 0 .. MaxSessions]
          /\ new.step = talk[c].step + 1 /\ new.session = talk[c].session
      BY <3>2, <3>3 DEF NoTalk
    <3> HIDE DEF new
    <3> QED
      BY <1>0, <3>1, <3>3, <3>4, <3>5 DEF TypeOK
  <2> QED
    BY <2>1, <2>2, <2>3, <2>4, <2>5
<1>4. /\ pc' \in [Clients -> Listing \cup {"idle"}]
      /\ \A d \in Clients : d # c => pc'[d] = pc[d] /\ talk'[d] = talk[d]
  <2> USE DEF Goto, Listing, Negotiating
  <2>1. CASE RequestList(c) \/ Acquire(c) \/ Store(c)
    BY <1>0, <2>1 DEF RequestList, Acquire, Store, TypeOK
  <2>2. CASE Miss(c)
    BY <1>0, <2>2 DEF Miss, AfterCheck, TypeOK
  <2>3. CASE Register(c) \/ Call(c) \/ NextRequest(c) \/ Answer(c)
    BY <1>0, <2>3 DEF Register, Call, NextRequest, Answer, TypeOK
  <2> QED
    BY <2>1, <2>2, <2>3
<1>5. TypeOK'
  <2>1. cache' \in 0 .. MaxSessions /\ acquireLock' \in Clients \cup {NoClient}
    BY SMTT(20), <1>0 DEF RequestList, Miss, Acquire, Store, Register, Call, Answer, NextRequest,
                TypeOK, Places
  <2> QED
    BY <1>0, <1>1, <1>3, <1>4, <2>1 DEF TypeOK
<1>6. LockInv'
  <2> USE DEF Goto, UnderLock, Negotiating
  <2>1. CASE Store(c)
    <3>1. pc'[c] = "listed" /\ pc[c] = "store"
      BY <1>0, <2>1 DEF Store, TypeOK
    <3>2. \A d \in Clients : d # c => pc'[d] \notin UnderLock
      BY <1>4, <3>1 DEF IInv, LockInv
    <3> QED
      BY <3>1, <3>2 DEF LockInv
  <2>2. CASE Acquire(c)
    <3>1. pc'[c] = "recheck" /\ acquireLock = NoClient /\ acquireLock' = c
      BY <1>0, <2>2 DEF Acquire, TypeOK
    <3>2. \A d \in Clients : d # c => pc'[d] \notin UnderLock
      BY <1>4, <3>1 DEF IInv, LockInv
    <3> QED
      BY <3>1, <3>2 DEF LockInv
  <2>3. CASE \/ RequestList(c) \/ Miss(c) \/ Register(c) \/ Call(c) \/ Answer(c)
             \/ NextRequest(c)
    <3>1. /\ acquireLock' = acquireLock
          /\ pc'[c] \in UnderLock => pc[c] \in UnderLock
      BY <1>0, <2>3 DEF RequestList, Miss, AfterCheck, Register, Call, Answer, NextRequest,
                        Answered, TypeOK
    <3> QED
      BY <1>4, <3>1 DEF IInv, LockInv
  <2> QED
    BY <2>1, <2>2, <2>3
<1>7. TalkInv'
  <2>0. TalkInv
    BY DEF IInv
  <2> USE DEF Goto
  <2>1. /\ talk'[c].call # "missed"
        /\ talk'[c].call # "unsent" => pc'[c] = "await"
        /\ pc'[c] \in {"call", "await"} => talk'[c].rule
    <3>1. CASE RequestList(c) \/ Acquire(c) \/ Store(c) \/ Miss(c)
      BY <1>0, <2>0, <3>1 DEF RequestList, Acquire, Store, Miss, AfterCheck, TypeOK, TalkInv
    <3>2. CASE Register(c) \/ Call(c)
      BY <1>0, <2>0, <3>2 DEF Register, Call, TypeOK, TalkInv
    <3>3. CASE Answer(c)
      BY <1>0, <2>0, <3>3 DEF Answer, TypeOK, TalkInv
    <3>4. CASE NextRequest(c)
      BY <1>0, <2>0, <3>4 DEF NextRequest, NoTalk, TypeOK, TalkInv
    <3> QED
      BY <3>1, <3>2, <3>3, <3>4
  <2> QED
    BY <1>4, <2>0, <2>1 DEF TalkInv
<1>8. NegotiationInv'
  <2>1. talk[c].session # NoSession => pc'[c] \in Negotiating
    <3>1. talk[c].session # NoSession => pc[c] \in Negotiating
      BY DEF IInv, NegotiationInv
    <3>2. pc[c] \in Negotiating => pc'[c] \in Negotiating
      BY <1>0 DEF RequestList, Miss, Acquire, Store, Register, Call, Answer, NextRequest,
                  Goto, Negotiating, TypeOK
    <3> QED
      BY <3>1, <3>2
  <2>2. \A d \in Clients : Alive(held, talk[d].session)' <=> Alive(held', talk'[d].session)
    BY <1>3 DEF Alive
  <2> QED
    BY <1>1, <1>3, <1>4, <2>1 DEF IInv, NegotiationInv, Alive
<1>9. NumberInv'
  BY <1>1, <1>3 DEF IInv, NumberInv
<1>10. CacheInv'
  <2>0. CacheInv /\ LockInv
    BY DEF IInv
  <2>1. CASE Store(c)
    <3>1. /\ cache' = made /\ pc[c] = "store"
          /\ pc'[c] = "listed"
      BY <1>0, <2>0, <2>1 DEF Store, Goto, CacheInv, TypeOK
    <3>2. \A d \in Clients : pc'[d] \notin {"store", "recheckDrop"}
      BY <1>4, <2>0, <3>1 DEF LockInv, UnderLock
    <3> QED
      BY <1>1, <3>1, <3>2 DEF CacheInv
  <2>2. CASE ~Store(c)
    <3>1. /\ cache' = cache
          /\ pc[c] # "store" /\ pc'[c] # "store" /\ pc'[c] # "recheckDrop"
      BY <1>0, <2>2 DEF RequestList, Miss, AfterCheck, Acquire, Register, Call, Answer,
                        NextRequest, Answered, Goto, TypeOK, TalkInv, IInv
    <3> QED
      BY <1>1, <1>2, <1>4, <2>0, <3>1 DEF CacheInv
  <2> QED
    BY <2>1, <2>2
<1> QED
  BY <1>5, <1>6, <1>7, <1>8, <1>9, <1>10 DEF IInv

(* The client that negotiates holds the acquisition lock alone.            *)
LEMMA OneUnderLock ==
  ASSUME IInv, NEW c \in Clients, pc[c] \in Negotiating
  PROVE  \A d \in Clients : d # c => pc[d] \notin UnderLock /\ talk[d].session = NoSession
  BY DEF IInv, LockInv, UnderLock, NegotiationInv, Negotiating

(* The portal has created a session.                                       *)
LEMMA CreatedKeeps ==
  ASSUME IInv, NEW c \in Clients, Created(c)
  PROVE  IInv'
<1> USE DEF NoSession
<1> DEFINE new == [NoTalk EXCEPT !.step = 2, !.session = made + 1]
<1>0. TypeOK /\ NegotiationInv /\ NumberInv /\ TalkInv /\ LockInv
  BY DEF IInv
<1>1. /\ pc[c] = "await" /\ Chain[talk[c].step] = "create" /\ made < MaxSessions
      /\ made' = made + 1 /\ open' = open \cup {made + 1}
      /\ cursorOf' = [cursorOf EXCEPT ![made + 1] = cursor[c]]
      /\ talk' = [talk EXCEPT ![c] = new]
      /\ pc' = [pc EXCEPT ![c] = "register"]
      /\ UNCHANGED <<cache, cacheLock, acquireLock, held, cursor, pending>>
  BY DEF Created, Answered, Goto
<1>2. made + 1 \in Sessions /\ made + 1 # 0
  BY <1>0, <1>1 DEF TypeOK, Sessions
<1>3. talk[c].step = 1 /\ 2 \in 1 .. Len(Chain) /\ talk[c].session = 0
  <2>1. talk[c].step \in 1 .. Len(Chain)
    BY <1>0 DEF TypeOK
  <2> QED
    BY <1>0, <1>1, <2>1, ChainFacts DEF NegotiationInv
<1>4. /\ new \in [step : 1 .. Len(Chain), rule : BOOLEAN,
                  call : {"unsent", "sent", "answered", "missed"},
                  session : 0 .. MaxSessions]
      /\ new.step = 2 /\ new.session = made + 1 /\ new.call = "unsent"
  <2>1. made + 1 \in 0 .. MaxSessions
    BY <1>2 DEF Sessions
  <2>2. NoTalk \in [step : {1}, rule : {FALSE}, call : {"unsent"}, session : {0}]
    BY DEF NoTalk
  <2> QED
    BY <1>3, <2>1, <2>2
<1> HIDE DEF new
<1>5. /\ \A d \in Clients : d # c => /\ pc[d] \notin UnderLock /\ pc'[d] = pc[d]
                                   /\ talk'[d] = talk[d] /\ talk[d].session = 0
      /\ talk'[c] = new /\ pc'[c] = "register"
  BY <1>0, <1>1, OneUnderLock DEF Negotiating, TypeOK
<1>6. ~Alive(held, made + 1)
  <2>1. \A d \in Clients, p \in Places : held[d][p] <= made /\ held[d][p] \in Nat /\ made \in Nat
    BY <1>0 DEF TypeOK, NumberInv
  <2>2. \A d \in Clients, p \in Places : held[d][p] # made + 1
    BY <2>1
  <2> QED
    BY <2>2 DEF Alive
<1>7. TypeOK'
  <2>1. pc' \in [Clients -> Listing \cup {"idle"}]
    BY <1>0, <1>1 DEF TypeOK, Listing, Negotiating
  <2>2. cursorOf' \in [Sessions -> BOOLEAN]
    BY <1>0, <1>1 DEF TypeOK
  <2> QED
    BY <1>0, <1>1, <1>2, <1>4, <2>1, <2>2 DEF TypeOK, Sessions
<1>8. LockInv' /\ TalkInv'
  BY <1>0, <1>1, <1>4, <1>5 DEF LockInv, TalkInv, UnderLock, Negotiating
<1>9. NegotiationInv'
  <2>1. \A d \in Clients : d # c => talk'[d].session = 0 /\ talk'[d].step = 1
    BY <1>0, <1>5 DEF NegotiationInv
  <2>2. \A s : Alive(held, s)' <=> Alive(held, s)
    BY <1>1 DEF Alive
  <2>3. \A d \in Clients : talk'[d].session # 0 => ~Alive(held', talk'[d].session)
    BY <1>1, <1>4, <1>5, <1>6, <2>1 DEF Alive
  <2> QED
    BY <1>2, <1>4, <1>5, <2>1, <2>3 DEF NegotiationInv, Negotiating, Alive
<1>10. NumberInv'
  <2>1. \A d \in Clients, p \in Places : held'[d][p] <= made'
    BY <1>0, <1>1 DEF TypeOK, NumberInv
  <2> QED
    BY <1>1, <1>4, <1>5, <2>1 DEF NumberInv
<1>11. CacheInv'
  <2>1. ~Alive(held, made)'
    BY <1>1, <1>6 DEF Alive
  <2>2. \A d \in Clients : pc'[d] # "store" /\ pc'[d] # "recheckDrop"
    BY <1>5 DEF UnderLock
  <2> QED
    BY <2>1, <2>2 DEF CacheInv
<1> QED
  BY <1>7, <1>8, <1>9, <1>10, <1>11 DEF IInv

(* The negotiation succeeds or fails.                                      *)
LEMMA EndKeeps ==
  ASSUME IInv, NEW c \in Clients, Started(c) \/ Fail(c)
  PROVE  IInv'
<1> USE DEF NoSession
<1>0. TypeOK /\ NegotiationInv /\ NumberInv /\ TalkInv /\ LockInv /\ CacheInv
  BY DEF IInv
<1>1. /\ pc[c] \in {"call", "await"}
      /\ talk' = [talk EXCEPT ![c] = NoTalk]
      /\ UNCHANGED <<cache, cacheLock, made, cursorOf, cursor, pending>>
  BY DEF Started, Answered, Fail
<1>2. /\ \A d \in Clients : d # c => /\ pc[d] \notin UnderLock
                                   /\ talk'[d] = talk[d] /\ talk[d].session = 0
      /\ talk'[c].session = 0 /\ talk'[c].step = 1 /\ talk'[c].call = "unsent"
  BY <1>0, <1>1, OneUnderLock DEF Negotiating, TypeOK, NoTalk
<1>3. talk' \in [Clients -> [step : 1 .. Len(Chain), rule : BOOLEAN,
                            call : {"unsent", "sent", "answered", "missed"},
                            session : 0 .. MaxSessions]]
  <2>1. NoTalk \in [step : 1 .. Len(Chain), rule : BOOLEAN,
                    call : {"unsent", "sent", "answered", "missed"},
                    session : 0 .. MaxSessions]
    BY ChainFacts DEF NoTalk
  <2> QED
    BY <1>0, <1>1, <2>1 DEF TypeOK
<1>4. \A d \in Clients : talk'[d].session = 0
  BY <1>2
<1>5. NegotiationInv'
  BY <1>0, <1>2 DEF NegotiationInv
<1>6. CASE Started(c)
  <2> DEFINE s0 == talk[c].session
             h == [held EXCEPT ![c]["local"] = s0]
  <2>1. /\ Hold(h) /\ pc' = [pc EXCEPT ![c] = "store"] /\ acquireLock' = acquireLock
        /\ Chain[talk[c].step] = "start"
    BY <1>6 DEF Started, Take, Goto
  <2>2. s0 # 0 /\ s0 \in Sessions /\ s0 = made /\ ~Alive(held, s0)
    <3>1. talk[c].step \in 1 .. Len(Chain) /\ s0 \in 0 .. MaxSessions
      BY <1>0 DEF TypeOK
    <3>2. talk[c].step # 1
      BY <2>1, <3>1, ChainFacts
    <3> QED
      BY <1>0, <3>1, <3>2 DEF NegotiationInv, NumberInv, Sessions
  <2>3. /\ h \in [Clients -> [Places -> 0 .. MaxSessions]]
        /\ \A t \in Sessions : Alive(h, t) => t = s0 \/ Alive(held, t)
    <3>1. "local" \in Places /\ s0 \in 0 .. MaxSessions
      BY <2>2 DEF Places, Sessions
    <3> QED
      BY <1>0, <3>1, SetKeepsType
  <2>4. h[c]["local"] = s0 /\ Alive(h, s0)
    <3>1. "local" \in Places
      BY DEF Places
    <3>2. h[c]["local"] = s0
      BY <1>0, <3>1 DEF TypeOK
    <3> QED
      BY <3>1, <3>2 DEF Alive
  <2>5. \A d \in Clients, p \in Places : h[d][p] = s0 \/ h[d][p] = held[d][p]
    BY <1>0 DEF TypeOK
  <2> HIDE DEF h
  <2>6. held' = h /\ open' = {s \in open : Alive(held, s) => Alive(h, s)}
    BY <2>1 DEF Hold
  <2>7. pc' \in [Clients -> Listing \cup {"idle"}] /\ pc'[c] = "store"
        /\ \A d \in Clients : d # c => pc'[d] = pc[d]
    BY <1>0, <2>1 DEF TypeOK, Listing
  <2>8. TypeOK'
    BY <1>0, <1>1, <1>3, <2>1, <2>3, <2>6, <2>7 DEF TypeOK
  <2>9. LockInv' /\ TalkInv'
    BY <1>0, <1>1, <1>2, <2>1, <2>7 DEF LockInv, TalkInv, UnderLock, Negotiating
  <2>10. NumberInv'
    <3>1. made \in Nat /\ made <= made
      BY <1>0 DEF TypeOK
    <3>2. \A d \in Clients, p \in Places : held[d][p] <= made
      BY <1>0 DEF NumberInv
    <3>3. \A d \in Clients, p \in Places : h[d][p] <= made
      BY <2>2, <2>5, <3>1, <3>2
    <3> QED
      BY <1>1, <1>4, <2>6, <3>3 DEF NumberInv
  <2>11. CacheInv'
    <3>1. \A d \in Clients : pc'[d] = "store" => d = c
      BY <1>2, <2>7 DEF UnderLock
    <3>2. \A d \in Clients : pc'[d] # "recheckDrop"
      BY <1>2, <2>7 DEF UnderLock
    <3>3. held'[c]["local"] = made'
      BY <1>1, <2>2, <2>4, <2>6
    <3> QED
      BY <2>7, <3>1, <3>2, <3>3 DEF CacheInv
  <2> QED
    BY <1>5, <2>8, <2>9, <2>10, <2>11 DEF IInv
<1>7. CASE Fail(c)
  <2>1. /\ open' = open \ {talk[c].session} /\ pc' = [pc EXCEPT ![c] = "listed"]
        /\ acquireLock' = NoClient /\ held' = held
    BY <1>7 DEF Fail, Goto
  <2>2. \A s : Alive(held, s)' <=> Alive(held, s)
    BY <2>1 DEF Alive
  <2>3. pc' \in [Clients -> Listing \cup {"idle"}] /\ pc'[c] = "listed"
        /\ \A d \in Clients : d # c => pc'[d] = pc[d]
    BY <1>0, <2>1 DEF TypeOK, Listing
  <2>4. \A d \in Clients : pc'[d] \notin UnderLock
    BY <1>2, <2>3 DEF UnderLock, Negotiating
  <2>5. TypeOK'
    BY <1>0, <1>1, <1>3, <2>1, <2>3 DEF TypeOK
  <2>6. LockInv' /\ TalkInv'
    BY <1>0, <1>2, <2>3, <2>4 DEF LockInv, TalkInv, UnderLock, Negotiating
  <2>7. NumberInv'
    BY <1>0, <1>1, <1>4, <2>1 DEF NumberInv
  <2>8. CacheInv'
    <3>1. \A d \in Clients : pc[d] # "store" /\ pc'[d] # "store" /\ pc'[d] # "recheckDrop"
      BY <1>1, <1>2, <2>4 DEF UnderLock
    <3> QED
      BY <1>0, <1>1, <2>2, <3>1 DEF CacheInv
  <2> QED
    BY <1>5, <2>5, <2>6, <2>7, <2>8 DEF IInv
<1> QED
  BY <1>6, <1>7

--------------------------------------------------------------------------------
LEMMA NextKeepsIInv == IInv /\ [Next]_vars => IInv'
<1> SUFFICES ASSUME IInv, [Next]_vars PROVE IInv'
  OBVIOUS
<1>1. ASSUME NEW c \in Clients,
             \/ RequestList(c) \/ CheckCache(c) \/ List(c) \/ Talk(c) \/ Answer(c)
             \/ Use(c)
      PROVE  IInv'
  <2>1. CASE Reuse(c) \/ WrongMode(c) \/ DropPeek(c)
    BY <2>1, ListStepKeeps
  <2>2. CASE Use(c) \/ Listed(c)
    BY <2>2, UseKeeps
  <2>3. CASE \/ RequestList(c) \/ Miss(c) \/ Acquire(c) \/ Store(c)
             \/ Register(c) \/ Call(c) \/ Answer(c) \/ NextRequest(c)
    BY <2>3, OtherStepKeeps
  <2>4. CASE Created(c)
    BY <2>4, CreatedKeeps
  <2>5. CASE Started(c) \/ Fail(c)
    BY <2>5, EndKeeps
  <2> QED
    BY <1>1, <2>1, <2>2, <2>3, <2>4, <2>5 DEF CheckCache, List, Talk
<1>2. CASE UNCHANGED vars
  BY <1>2 DEF vars, IInv, TypeOK, LockInv, TalkInv, NegotiationInv, NumberInv,
              CacheInv, Alive
<1>3. ASSUME NEW s \in Sessions, PortalEnds(s)
      PROVE  IInv'
  <2>1. /\ UNCHANGED <<cache, cacheLock, acquireLock, held, made, cursorOf, pc, cursor,
                      pending, talk>>
        /\ open' \subseteq open
    BY <1>3 DEF PortalEnds
  <2>2. TypeOK'
    BY <2>1 DEF IInv, TypeOK
  <2>3. LockInv' /\ TalkInv' /\ NegotiationInv' /\ NumberInv' /\ CacheInv'
    BY <2>1 DEF IInv, LockInv, TalkInv, NegotiationInv, NumberInv, CacheInv, Alive
  <2> QED
    BY <2>2, <2>3 DEF IInv
<1> QED
  BY <1>1, <1>2, <1>3 DEF Next

LEMMA InitEstablishesIInv == Init => IInv
<1> SUFFICES ASSUME Init PROVE IInv
  OBVIOUS
<1> USE DEF Init, NoSession
<1>1. NoTalk \in [step : 1 .. Len(Chain), rule : BOOLEAN,
                  call : {"unsent", "sent", "answered", "missed"},
                  session : 0 .. MaxSessions]
  BY ChainFacts DEF NoTalk
<1>2. TypeOK
  BY <1>1 DEF TypeOK, Listing
<1>3. LockInv /\ TalkInv /\ NegotiationInv /\ NumberInv
  BY DEF LockInv, TalkInv, NegotiationInv, NumberInv, UnderLock, Negotiating, NoTalk
<1>4. CacheInv
  BY DEF CacheInv
<1> QED
  BY <1>2, <1>3, <1>4 DEF IInv

LEMMA IInvHolds == Spec => []IInv
  BY InitEstablishesIInv, NextKeepsIInv, PTL DEF Spec

(* The variables keep their types (acquire_portal_session,                 *)
(* request_remote_desktop, PortalSession::drop).                           *)
THEOREM TypeCorrect == Spec => []TypeOK
<1>1. IInv => TypeOK
  BY DEF IInv
<1> QED
  BY <1>1, IInvHolds, PTL

(* However many clients ask at once, one of them negotiates                *)
(* (PORTAL_ACQUIRE_LOCK): OneDialog.                                       *)
THEOREM OneNegotiates == Spec => []OneDialog
<1>1. IInv => OneDialog
  BY DEF IInv, LockInv, OneDialog, UnderLock
<1> QED
  BY <1>1, IInvHolds, PTL

(* The answer to every request is heard (register_response_handler before  *)
(* the call): AnswerHeard.                                                 *)
THEOREM AnswersAreHeard == Spec => []AnswerHeard
<1>1. IInv => AnswerHeard
  BY DEF IInv, TalkInv, AnswerHeard
<1> QED
  BY <1>1, IInvHolds, PTL

(* Who asks the portal has looked for a session under the lock, and nobody *)
(* else can have made one since (the second check of                       *)
(* acquire_portal_session): NoNeedlessDialog.                              *)
THEOREM NoDialogIsNeedless == Spec => NoNeedlessDialog
<1>1. ASSUME IInv, [Next]_vars, NEW c \in Clients,
             Chain[talk[c].step] = "create", pc[c] # "register", pc'[c] = "register",
             talk'[c].session = NoSession
      PROVE  ~(made # NoSession /\ Alive(held, made) /\ cursorOf[made] = cursor[c])
  <2>0. TypeOK /\ CacheInv /\ LockInv /\ TalkInv
    BY <1>1 DEF IInv
  <2>1. \/ Miss(c) /\ pc[c] = "recheck"
        \/ DropPeek(c) /\ pc[c] = "recheckDrop"
    <3>1. PICK d \in Clients :
            \/ RequestList(d) \/ CheckCache(d) \/ List(d) \/ Talk(d) \/ Answer(d)
            \/ Use(d)
      BY <1>1 DEF Next, PortalEnds, vars
    <3>2. d = c
      BY <1>1, <2>0, <3>1 DEF RequestList, CheckCache, Reuse, WrongMode, Miss, List, DropPeek,
         Acquire, Store, Listed, Talk, Register, Call, Created, NextRequest, Started, Fail,
         Answer, Use, Configure, DeviceFails, StartVideo, LoseRecorder, Leave, Goto, TypeOK
    <3>3. ~Created(c)
      <4> SUFFICES ASSUME Created(c) PROVE FALSE
        OBVIOUS
      <4>1. talk' = [talk EXCEPT ![c] = [NoTalk EXCEPT !.step = 2, !.session = made + 1]]
        BY DEF Created
      <4>2. talk'[c].session = made + 1
        BY <2>0, <4>1 DEF TypeOK, NoTalk
      <4>3. made \in Nat
        BY <2>0 DEF TypeOK
      <4> QED
        BY <1>1, <4>2, <4>3 DEF NoSession
    <3>4. ~NextRequest(c)
      BY <1>1 DEF NextRequest
    <3> QED
      BY <1>1, <2>0, <3>1, <3>2, <3>3, <3>4 DEF RequestList, CheckCache, Reuse, WrongMode,
         Miss, List, DropPeek, Acquire, Store, Listed, Talk, Register, Call, Started, Fail,
         Answer, Use, Configure, DeviceFails, StartVideo, LoseRecorder, Leave, Goto,
         AfterCheck, TypeOK
  <2>2. \A d \in Clients : pc[d] # "store"
    BY <2>0, <2>1 DEF LockInv, UnderLock
  <2>3. made # NoSession /\ Alive(held, made) => cache = made /\ cache \in Sessions
    BY <2>0, <2>2 DEF CacheInv, TypeOK, Sessions, NoSession
  <2>4. CASE Miss(c)
    BY <2>3, <2>4 DEF Miss
  <2>5. CASE pc[c] = "recheckDrop"
    BY <2>0, <2>3, <2>5 DEF CacheInv
  <2> QED
    BY <2>1, <2>4, <2>5
<1>2. IInv /\ [Next]_vars =>
        [\A c \in Clients :
           Chain[talk[c].step] = "create" /\ pc[c] # "register" /\ pc'[c] = "register"
             /\ talk'[c].session = NoSession
           => ~(made # NoSession /\ Alive(held, made) /\ cursorOf[made] = cursor[c])]_vars
  BY <1>1
<1> QED
  BY <1>2, IInvHolds, PTL DEF Spec, NoNeedlessDialog
================================================================================
