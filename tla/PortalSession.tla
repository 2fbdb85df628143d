--------------------------- MODULE PortalSession ---------------------------
(* The screen-cast sessions a Wayland server holds at the desktop portal      *)
(* (rylus-capture/src/pipewire.rs), and who keeps them alive.                 *)
(*                                                                            *)
(* Every client has a handler thread, which lists what can be captured and    *)
(* configures, and a video thread, which owns the recorder.  All of them      *)
(* share PORTAL_CACHE, a weak reference to the newest session, and            *)
(* PORTAL_ACQUIRE_LOCK, under which one thread at a time negotiates a new one *)
(* with the portal: CreateSession, SelectDevices on GNOME, SelectSources,     *)
(* Start.  A session is closed by the drop of the last Arc to it, if the user *)
(* has not ended it before; the Arcs are in `held`, by the place that owns    *)
(* them.                                                                      *)
EXTENDS Integers, FiniteSets, Sequences

CONSTANTS Clients,           \* the connected browsers
          NoClient,          \* a free lock
          HasRemoteDesktop,  \* DESKTOP_SESSION names gnome
          MaxSessions,       \* bound: sessions the portal ever creates
          Recording          \* bound: the clients that ever start a video

ASSUME PortalAssumption ==
    /\ NoClient \notin Clients
    /\ HasRemoteDesktop \in BOOLEAN
    /\ MaxSessions \in Nat \ {0}
    /\ Recording \subseteq Clients

VARIABLES
    cache,        \* PORTAL_CACHE: the session the Weak points to
    cacheLock,    \* who is inside PORTAL_CACHE.lock()
    acquireLock,  \* who is inside PORTAL_ACQUIRE_LOCK.lock()
    held,         \* held[c][p]: the session whose Arc client c has in place p
    open,         \* sessions open at the portal
    made,         \* sessions the portal has created so far
    cursorOf,     \* capture_cursor of each session
    pc,           \* where the handler thread of c is
    cursor,       \* RylusClientHandler.capture_cursor
    pending,      \* a Start command is in the video thread's channel
    talk          \* the negotiation of c with the portal

vars == <<cache, cacheLock, acquireLock, held, open, made, cursorOf, pc,
          cursor, pending, talk>>

NoSession == 0
Sessions == 1..MaxSessions

\* "local" is the result of acquire_portal_session, "peek" the upgraded Weak
\* whose cursor mode did not match, "command" the capturable inside a Start.
Places == {"local", "peek", "list", "device", "command", "recorder"}

Chain == IF HasRemoteDesktop
         THEN <<"create", "devices", "sources", "start">>
         ELSE <<"create", "sources", "start">>

\* step: position in Chain; rule: the match rule for its Response is installed;
\* call: what has become of the request; session: the session created.
NoTalk == [step |-> 1, rule |-> FALSE, call |-> "unsent", session |-> NoSession]

Negotiating == {"register", "call", "await"}
Listing == {"fast", "fastDrop", "slow", "recheck", "recheckDrop", "store", "listed"}
             \cup Negotiating

Alive(h, s) == \E c \in Clients, p \in Places : h[c][p] = s

\* A plausible slip: the cache holds an Arc instead of a Weak.
HoldInCache(h) == /\ held' = h
                  /\ open' = {s \in open : Alive(held, s) => Alive(h, s) \/ s = cache}

\* Arcs move to h; PortalSession::drop closes what nobody holds any more.
Hold(h) == /\ held' = h
           /\ open' = {s \in open : Alive(held, s) => Alive(h, s)}

Take(c, p, s) == Hold([held EXCEPT ![c][p] = s])

Goto(c, l) == pc' = [pc EXCEPT ![c] = l]

-----------------------------------------------------------------------------
(* acquire_portal_session, called by get_capturables for GetCapturableList.   *)

RequestList(c) == /\ pc[c] = "idle"
                  /\ Goto(c, "fast")
                  /\ UNCHANGED <<cache, cacheLock, acquireLock, held, open, made,
                                 cursorOf, cursor, pending, talk>>

Fits(c) == Alive(held, cache) /\ cache \in Sessions /\ cursorOf[cache] = cursor[c]

\* The cached session is alive and of the right mode: its Arc is returned.
Reuse(c) ==
    /\ pc[c] \in {"fast", "recheck"}
    /\ cacheLock = NoClient
    /\ Fits(c)
    /\ Take(c, "local", cache)
    /\ Goto(c, "listed")
    /\ acquireLock' = IF pc[c] = "recheck" THEN NoClient ELSE acquireLock
    /\ UNCHANGED <<cache, cacheLock, made, cursorOf, cursor, pending, talk>>

AfterCheck(c) == IF pc[c] \in {"fast", "fastDrop"} THEN "slow" ELSE "register"

\* It is of the other mode: the upgraded Arc lives to the end of the block that
\* holds the cache lock ...
WrongMode(c) ==
    /\ pc[c] \in {"fast", "recheck"}
    /\ cacheLock = NoClient
    /\ cache \in Sessions /\ Alive(held, cache) /\ ~Fits(c)
    /\ Take(c, "peek", cache)
    /\ cacheLock' = c
    /\ Goto(c, IF pc[c] = "fast" THEN "fastDrop" ELSE "recheckDrop")
    /\ UNCHANGED <<cache, acquireLock, made, cursorOf, cursor, pending, talk>>

\* ... and is dropped there, which closes the session if it is the last one.
DropPeek(c) ==
    /\ pc[c] \in {"fastDrop", "recheckDrop"}
    /\ Take(c, "peek", NoSession)
    /\ cacheLock' = NoClient
    /\ Goto(c, AfterCheck(c))
    /\ UNCHANGED <<cache, acquireLock, made, cursorOf, cursor, pending, talk>>

\* Nothing is cached, or the Weak is dead.
Miss(c) ==
    /\ pc[c] \in {"fast", "recheck"}
    /\ cacheLock = NoClient
    /\ ~(cache \in Sessions /\ Alive(held, cache))
    /\ Goto(c, AfterCheck(c))
    /\ UNCHANGED <<cache, cacheLock, acquireLock, held, open, made, cursorOf,
                   cursor, pending, talk>>

\* A plausible slip: what appeared while the thread waited is not looked for.
AcquireWithoutRecheck(c) ==
    /\ pc[c] = "slow"
    /\ acquireLock = NoClient
    /\ acquireLock' = c
    /\ Goto(c, "register")
    /\ UNCHANGED <<cache, cacheLock, held, open, made, cursorOf, cursor, pending,
                   talk>>

\* A plausible slip: the guard is bound to `_` and dropped at once.
AcquireAndRelease(c) ==
    /\ pc[c] = "slow"
    /\ acquireLock = NoClient
    /\ Goto(c, "recheck")
    /\ UNCHANGED <<cache, cacheLock, acquireLock, held, open, made, cursorOf,
                   cursor, pending, talk>>

Acquire(c) ==
    /\ pc[c] = "slow"
    /\ acquireLock = NoClient
    /\ acquireLock' = c
    /\ Goto(c, "recheck")
    /\ UNCHANGED <<cache, cacheLock, held, open, made, cursorOf, cursor, pending,
                   talk>>

\* The new session becomes the cached one and the acquisition lock is released.
Store(c) ==
    /\ pc[c] = "store"
    /\ cacheLock = NoClient
    /\ cache' = held[c]["local"]
    /\ acquireLock' = NoClient
    /\ Goto(c, "listed")
    /\ UNCHANGED <<cacheLock, held, open, made, cursorOf, cursor, pending, talk>>

\* send_capturable_list replaces the list; the old one is dropped only now.
Listed(c) ==
    /\ pc[c] = "listed"
    /\ Hold([held EXCEPT ![c]["list"] = held[c]["local"], ![c]["local"] = NoSession])
    /\ Goto(c, "idle")
    /\ UNCHANGED <<cache, cacheLock, acquireLock, made, cursorOf, cursor, pending,
                   talk>>

-----------------------------------------------------------------------------
(* request_remote_desktop: one request after the other, each answered by a    *)
(* Response signal on a path that is known before the call is made.           *)

\* A plausible slip: the rule is added for the path in the reply, after the call.
RegisterLate(c) ==
    /\ pc[c] = "register"
    /\ Goto(c, "call")
    /\ UNCHANGED <<cache, cacheLock, acquireLock, held, open, made, cursorOf,
                   cursor, pending, talk>>

\* register_response_handler: add_match, before the call.
Register(c) ==
    /\ pc[c] = "register"
    /\ talk' = [talk EXCEPT ![c].rule = TRUE]
    /\ Goto(c, "call")
    /\ UNCHANGED <<cache, cacheLock, acquireLock, held, open, made, cursorOf,
                   cursor, pending>>

Call(c) ==
    /\ pc[c] = "call"
    /\ talk' = [talk EXCEPT ![c].call = "sent"]
    /\ Goto(c, "await")
    /\ UNCHANGED <<cache, cacheLock, acquireLock, held, open, made, cursorOf,
                   cursor, pending>>

\* The portal answers; a signal no rule matches is not delivered.
Answer(c) ==
    /\ talk[c].call = "sent"
    /\ talk' = [talk EXCEPT ![c].call = IF talk[c].rule THEN "answered" ELSE "missed"]
    /\ UNCHANGED <<cache, cacheLock, acquireLock, held, open, made, cursorOf, pc,
                   cursor, pending>>

Answered(c) == pc[c] = "await" /\ talk[c].call = "answered"

\* on_create_session_response: the session exists at the portal from here on.
Created(c) ==
    /\ Answered(c)
    /\ Chain[talk[c].step] = "create"
    /\ made < MaxSessions
    /\ made' = made + 1
    /\ open' = open \cup {made + 1}
    /\ cursorOf' = [cursorOf EXCEPT ![made + 1] = cursor[c]]
    /\ talk' = [talk EXCEPT ![c] = [NoTalk EXCEPT !.step = 2, !.session = made + 1]]
    /\ Goto(c, "register")
    /\ UNCHANGED <<cache, cacheLock, acquireLock, held, cursor, pending>>

\* The handler of a middle response makes the next request.
NextRequest(c) ==
    /\ Answered(c)
    /\ Chain[talk[c].step] \in {"devices", "sources"}
    /\ talk' = [talk EXCEPT ![c] =
                  [NoTalk EXCEPT !.step = talk[c].step + 1, !.session = talk[c].session]]
    /\ Goto(c, "register")
    /\ UNCHANGED <<cache, cacheLock, acquireLock, held, open, made, cursorOf,
                   cursor, pending>>

\* on_start_response: streams and the PipeWire remote; the loop ends.
Started(c) ==
    /\ Answered(c)
    /\ Chain[talk[c].step] = "start"
    /\ Take(c, "local", talk[c].session)
    /\ talk' = [talk EXCEPT ![c] = NoTalk]
    /\ Goto(c, "store")
    /\ UNCHANGED <<cache, cacheLock, acquireLock, made, cursorOf, cursor, pending>>

\* A plausible slip: the loop waits for the answer as long as it takes.
FailIfAnswered(c) ==
    /\ Answered(c)
    /\ open' = open \ {talk[c].session}
    /\ talk' = [talk EXCEPT ![c] = NoTalk]
    /\ acquireLock' = NoClient
    /\ Goto(c, "listed")
    /\ UNCHANGED <<cache, cacheLock, held, made, cursorOf, cursor, pending>>

\* Err: the user cancelled, a call or a handler failed, no stream was returned,
\* or 300 rounds of 100 ms are over.  The connection is dropped, and with it
\* the portal ends the session it may have created.
Fail(c) ==
    /\ pc[c] \in {"call", "await"}
    /\ open' = open \ {talk[c].session}
    /\ talk' = [talk EXCEPT ![c] = NoTalk]
    /\ acquireLock' = NoClient
    /\ Goto(c, "listed")
    /\ UNCHANGED <<cache, cacheLock, held, made, cursorOf, cursor, pending>>

\* The user stops sharing, or the compositor does: the portal ends a session that
\* clients hold.  Nothing listens for Session.Closed: the Arcs and the cache stay
\* as they are, and only the recorders find out, by failing (LoseRecorder).
PortalEnds(s) ==
    /\ s \in open
    /\ Alive(held, s)
    /\ open' = open \ {s}
    /\ UNCHANGED <<cache, cacheLock, acquireLock, held, made, cursorOf, pc, cursor,
                   pending, talk>>

-----------------------------------------------------------------------------
(* What the handler and the video thread do with the Arcs.                    *)

\* update_config with an entry of the list (an X11 one holds no session): the
\* input device gets a clone, and so does the Start command.  Bound: one
\* command in the channel.
Configure(c, s, wantCursor) ==
    /\ c \in Recording
    /\ pc[c] = "idle"
    /\ s \in {held[c]["list"], NoSession}
    /\ ~pending[c]
    /\ Hold([held EXCEPT ![c]["device"] = s, ![c]["command"] = s])
    /\ cursor' = [cursor EXCEPT ![c] = wantCursor]
    /\ pending' = [pending EXCEPT ![c] = TRUE]
    /\ UNCHANGED <<cache, cacheLock, acquireLock, made, cursorOf, pc, talk>>

\* The same when the uinput device cannot be created: only the mode is kept.
DeviceFails(c, wantCursor) ==
    /\ pc[c] = "idle"
    /\ cursor' = [cursor EXCEPT ![c] = wantCursor]
    /\ UNCHANGED <<cache, cacheLock, acquireLock, held, open, made, cursorOf, pc,
                   pending, talk>>

\* handle_video, Start: the old recorder is dropped, the new one clones the Arc
\* (or cannot be created), and the command is dropped.
StartVideo(c, s) ==
    /\ pending[c]
    /\ s \in {held[c]["command"], NoSession}
    /\ Hold([held EXCEPT ![c]["recorder"] = s, ![c]["command"] = NoSession])
    /\ pending' = [pending EXCEPT ![c] = FALSE]
    /\ UNCHANGED <<cache, cacheLock, acquireLock, made, cursorOf, pc, cursor, talk>>

\* handle_video gives the recorder up after too many failures.
LoseRecorder(c) ==
    /\ held[c]["recorder"] # NoSession
    /\ Take(c, "recorder", NoSession)
    /\ UNCHANGED <<cache, cacheLock, acquireLock, made, cursorOf, pc, cursor,
                   pending, talk>>

\* The client is gone: the video thread is joined, then the handler is dropped.
Leave(c) ==
    /\ pc[c] = "idle"
    /\ Hold([held EXCEPT ![c] = [p \in Places |-> NoSession]])
    /\ cursor' = [cursor EXCEPT ![c] = FALSE]
    /\ pending' = [pending EXCEPT ![c] = FALSE]
    /\ UNCHANGED <<cache, cacheLock, acquireLock, made, cursorOf, pc, talk>>

-----------------------------------------------------------------------------
Init ==
    /\ cache = NoSession /\ cacheLock = NoClient /\ acquireLock = NoClient
    /\ held = [c \in Clients |-> [p \in Places |-> NoSession]]
    /\ open = {} /\ made = 0
    /\ cursorOf = [s \in Sessions |-> FALSE]
    /\ pc = [c \in Clients |-> "idle"]
    /\ cursor = [c \in Clients |-> FALSE]
    /\ pending = [c \in Clients |-> FALSE]
    /\ talk = [c \in Clients |-> NoTalk]

CheckCache(c) == Reuse(c) \/ WrongMode(c) \/ Miss(c)
Talk(c) == Register(c) \/ Call(c) \/ Created(c) \/ NextRequest(c) \/ Started(c)
             \/ Fail(c)
List(c) == DropPeek(c) \/ Acquire(c) \/ Store(c) \/ Listed(c)
Use(c) == \/ \E s \in Sessions \cup {NoSession}, b \in BOOLEAN : Configure(c, s, b)
          \/ \E b \in BOOLEAN : DeviceFails(c, b)
          \/ \E s \in Sessions \cup {NoSession} : StartVideo(c, s)
          \/ LoseRecorder(c)
          \/ Leave(c)

Next ==
    \/ \E c \in Clients :
         RequestList(c) \/ CheckCache(c) \/ List(c) \/ Talk(c) \/ Answer(c) \/ Use(c)
    \/ \E s \in Sessions : PortalEnds(s)

Spec == Init /\ [][Next]_vars

\* Fairness.  A handler thread that can go on does, the end of its 300 rounds
\* included; it is strong because of the two mutexes, which others may take in
\* between: those of parking_lot are fair in the end.  Neither the portal nor its
\* user has to answer, and no client to ask, configure or leave.
Acquiring(c) == CheckCache(c) \/ List(c) \/ Talk(c)
Fairness == \A c \in Clients : SF_vars(Acquiring(c))
LiveSpec == Spec /\ Fairness

-----------------------------------------------------------------------------
TypeOK ==
    /\ cache \in 0..MaxSessions
    /\ cacheLock \in Clients \cup {NoClient}
    /\ acquireLock \in Clients \cup {NoClient}
    /\ held \in [Clients -> [Places -> 0..MaxSessions]]
    /\ open \in SUBSET Sessions
    /\ made \in 0..MaxSessions
    /\ cursorOf \in [Sessions -> BOOLEAN]
    /\ pc \in [Clients -> Listing \cup {"idle"}]
    /\ cursor \in [Clients -> BOOLEAN]
    /\ pending \in [Clients -> BOOLEAN]
    /\ talk \in [Clients -> [step : 1..Len(Chain), rule : BOOLEAN,
                             call : {"unsent", "sent", "answered", "missed"},
                             session : 0..MaxSessions]]

\* "Serializes portal acquisition so only one thread negotiates with the
\* compositor at a time": the user never faces two dialogs at once.
OneDialog == \A c, d \in Clients :
    pc[c] \in Negotiating /\ pc[d] \in Negotiating => c = d

\* The approval of a dialog is never lost: its answer is heard.
AnswerHeard == \A c \in Clients : talk[c].call # "missed"

\* A dialog is never put up for what the newest session offers while anybody
\* holds it, even when it appeared while the caller waited for the lock.  (An
\* older session, displaced in the cache by one of the other mode, is forgotten:
\* the user is asked again although it is alive.)
NoNeedlessDialog == [][\A c \in Clients :
    Chain[talk[c].step] = "create" /\ pc[c] # "register" /\ pc'[c] = "register"
      /\ talk'[c].session = NoSession
    => ~(made # NoSession /\ Alive(held, made) /\ cursorOf[made] = cursor[c])]_vars

\* Who asks for the sources gets an answer, although the portal's user may leave a
\* dialog open for ever and the others wait for the lock behind it.
ListAnswered == \A c \in Clients : (pc[c] = "fast") ~> (pc[c] = "idle")

\* A session that nobody holds - its negotiation is under way, or the last of its
\* holders let go - is soon held or closed: "screen is being shared" does not
\* stay on for nobody, although the cache remembers the session.
SharingEnds == \A s \in Sessions :
    (s \in open /\ ~Alive(held, s)) ~> (s \notin open \/ Alive(held, s))

\* Negotiations end, for the client that waits and for the portal.
PortalServes == ListAnswered /\ SharingEnds
=============================================================================
