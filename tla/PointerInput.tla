------------------------------ MODULE PointerInput ------------------------------
(***************************************************************************)
(* From the browser's pointer events to the kernel's view of the pointer   *)
(* devices: PointerHandler and the palm rejector (ts/lib.ts, ts/utils.ts), *)
(* process_pointer_event (crates/rylus-server/src/session.rs) and          *)
(* UInputDevice (crates/rylus-input/src/uinput_device.rs).                 *)
(*                                                                         *)
(* The events of a session reach the device in order and nothing flows     *)
(* back, so an event is handled in the step in which it is sent.  What the *)
(* kernel believes is the set of keys the device has pressed and not       *)
(* released and the touch slots it has in use; positions are left out.     *)
(***************************************************************************)
EXTENDS Naturals, FiniteSets

CONSTANTS
  Fingers,        \* pointer ids of touches
  None,           \* no finger: a free slot
  NumSlots,       \* UInputDevice.touches.len()
  Buttons         \* the buttons of the mouse

ASSUME PointerAssumption ==
  /\ None \notin Fingers /\ IsFiniteSet(Fingers)
  /\ NumSlots \in Nat \ {0}
  /\ Buttons \subseteq {"left", "right", "middle"}

VARIABLES
  finger,     \* the browser: where each finger is
  stylus,     \* the browser: where the pen is
  held,       \* the browser: mouse buttons held
  rejecting,  \* the browser: less than 100 ms since the last pen event
  slots,      \* UInputDevice.touches
  toolKeys,   \* touch device: BTN_TOOL_* keys pressed, by their finger count
  touchKey,   \* touch device: BTN_TOUCH is pressed
  pen,        \* tool_pen_active, pen_touching and the pen's keys pressed
  penIdle,    \* more than 50 ms since last_pen_event
  mouseKeys,  \* mouse device: buttons pressed
  lost        \* history: why some event so far has not reached its device

browserVars == <<finger, stylus, held, rejecting>>
touchVars   == <<slots, toolKeys, touchKey>>
penVars     == <<pen, penIdle>>
vars == <<browserVars, touchVars, penVars, mouseKeys, lost>>

Slots == 1 .. NumSlots

(* begun: over and enter have been fired, down follows at once.            *)
FingerStates == {"away", "begun", "down", "lifted"}
StylusStates == {"away", "hover", "tip", "eraser"}
PenKeys == {"touch", "pen", "rubber"}

(* palm: rejected in the browser; failed: before_input or geometry of the  *)
(* capturable failed; refused: all slots were taken; chord: a mouse button *)
(* changed while another was held.                                         *)
Losses == {"palm", "failed", "refused", "chord"}

Init ==
  /\ finger = [f \in Fingers |-> "away"]
  /\ stylus = "away" /\ held = {} /\ rejecting = FALSE
  /\ slots = [s \in Slots |-> None]
  /\ toolKeys = {} /\ touchKey = FALSE
  /\ pen = [active |-> FALSE, touching |-> FALSE, keys |-> {}]
  /\ penIdle = FALSE /\ mouseKeys = {} /\ lost = {}

--------------------------------------------------------------------------------
(* UInputDevice: touch.                                                    *)

Occupied == {s \in Slots : slots[s] # None}
Free     == Slots \ Occupied
Active   == Cardinality(Occupied)

(* find_slot                                                               *)
SlotsOf(f) == {s \in Slots : slots[s] = f}

(* The finger's slot, or else the first free one, which becomes its own.   *)
Claim(f, s) ==
  /\ IF SlotsOf(f) # {} THEN s \in SlotsOf(f)
     ELSE s \in Free /\ \A free \in Free : s <= free
  /\ slots' = [slots EXCEPT ![s] = f]

(* A finger that has no slot when all are taken is ignored.                *)
Ignored(f) == SlotsOf(f) = {} /\ Free = {}

TouchMove(f) ==
  \/ Ignored(f) /\ UNCHANGED touchVars
  \/ (\E s \in Slots : Claim(f, s)) /\ UNCHANGED <<toolKeys, touchKey>>

(* A slip of an earlier version: the tool key of the slot, not of the      *)
(* number of fingers.                                                      *)
TouchDownBySlot(f) ==
  \/ Ignored(f) /\ UNCHANGED touchVars
  \/ \E s \in Slots :
       /\ Claim(f, s)
       /\ touchKey' = TRUE
       /\ toolKeys' = (toolKeys \ {s - 1}) \cup {s}

(* BTN_TOUCH, and the tool key goes from one finger less to this many.     *)
TouchDown(f) ==
  \/ Ignored(f) /\ UNCHANGED touchVars
  \/ /\ \E s \in Slots : Claim(f, s)
     /\ touchKey' = TRUE
     /\ LET count == Cardinality({s \in Slots : slots'[s] # None})
        IN  toolKeys' = (toolKeys \ {count - 1}) \cup {count}

(* A plausible slip: the tool key of the remaining fingers is not pressed. *)
TouchReleaseOnly(f) ==
  \/ SlotsOf(f) = {} /\ UNCHANGED touchVars
  \/ \E s \in SlotsOf(f) :
       /\ slots' = [slots EXCEPT ![s] = None]
       /\ touchKey' = FALSE
       /\ toolKeys' = toolKeys \ {Active}

(* Up, cancel, out and leave alike; all but the first find no slot.        *)
TouchRelease(f) ==
  \/ SlotsOf(f) = {} /\ UNCHANGED touchVars
  \/ \E s \in SlotsOf(f) :
       /\ slots' = [slots EXCEPT ![s] = None]
       /\ touchKey' = FALSE
       /\ toolKeys' = (toolKeys \ {Active}) \cup ({Active - 1} \ {0})

--------------------------------------------------------------------------------
(* UInputDevice: pen.                                                      *)

(* A plausible slip: the keys are released, the flag is not cleared.       *)
KeysOnlyCleared(p) ==
  IF p.active /\ ~p.touching /\ penIdle THEN [p EXCEPT !.keys = {}] ELSE p

(* clear_stale_pen_hover, which every pointer event runs first.            *)
StaleCleared(p) ==
  IF p.active /\ ~p.touching /\ penIdle
  THEN [p EXCEPT !.active = FALSE, !.keys = {}]
  ELSE p

(* Down, move, over, enter.  First the pen is announced unless it is or    *)
(* the eraser is held; then an event of the eraser button turns the tool   *)
(* into the rubber.                                                        *)
Announced(p, eraserHeld) ==
  IF ~p.active /\ ~eraserHeld
  THEN [p EXCEPT !.active = TRUE, !.keys = (@ \ {"rubber"}) \cup {"pen"}]
  ELSE p

Erasing(p, eraserChanged) ==
  IF eraserChanged
  THEN [p EXCEPT !.active = FALSE, !.keys = (@ \ {"pen"}) \cup {"rubber"}]
  ELSE p

Touching(p, isDown) ==
  IF isDown THEN [p EXCEPT !.touching = TRUE, !.keys = @ \cup {"touch"}] ELSE p

PenPresent(p, isDown, eraserHeld, eraserChanged) ==
  Erasing(Announced(Touching(p, isDown), eraserHeld), eraserChanged)

(* Up, cancel, leave, out.                                                 *)
PenGone == [active |-> FALSE, touching |-> FALSE, keys |-> {}]

--------------------------------------------------------------------------------
(* From the browser to the device.                                         *)

(* over, enter and down of a touch are fired back to back, and so are up,  *)
(* out and leave: no other event comes between them.                       *)
Settled == \A f \in Fingers : finger[f] \in {"away", "down"}

Loses(why) == lost' = lost \cup why

(* before_input or geometry fails: the event is dropped.                   *)
InputFails == UNCHANGED <<touchVars, penVars, mouseKeys>> /\ Loses({"failed"})

(* onEvent for a touch: within 100 ms of a pen event it is rejected, unless*)
(* the settings say otherwise; else it is sent, and then handled by arm.   *)
TouchEvent(f, from, to, arm) ==
  /\ finger[f] = from /\ finger' = [finger EXCEPT ![f] = to]
  /\ \/ rejecting /\ UNCHANGED <<touchVars, penVars, mouseKeys>> /\ Loses({"palm"})
     \/ InputFails
     \/ /\ arm
        /\ pen' = StaleCleared(pen)
        /\ Loses(IF to # "lifted" /\ to # "away" /\ Ignored(f) THEN {"refused"} ELSE {})
        /\ UNCHANGED <<penIdle, mouseKeys>>
  /\ UNCHANGED <<stylus, held, rejecting>>

FingerBegins(f) == Settled /\ TouchEvent(f, "away", "begun", TouchMove(f))
FingerDown(f)   == TouchEvent(f, "begun", "down", TouchDown(f))
FingerMoves(f)  == Settled /\ TouchEvent(f, "down", "down", TouchMove(f))
FingerLifts(f)  == Settled /\ TouchEvent(f, "down", "lifted", TouchRelease(f))
FingerLeaves(f) == TouchEvent(f, "lifted", "away", TouchRelease(f))

(* onEvent for the pen: touches are rejected from now on, if the settings  *)
(* say so; last_pen_event is set after the stale hover is cleared.         *)
PenEvent(to, after) ==
  /\ Settled
  /\ stylus' = to /\ rejecting' \in {rejecting, TRUE}
  /\ \/ InputFails
     \/ pen' = after /\ penIdle' = FALSE /\ UNCHANGED <<touchVars, mouseKeys, lost>>
  /\ UNCHANGED <<finger, held>>

PenHovers ==
  /\ stylus \in {"away", "hover"}
  /\ PenEvent("hover", PenPresent(StaleCleared(pen), FALSE, FALSE, FALSE))

PenTouches ==
  /\ stylus \in {"away", "hover"}
  /\ \E eraser \in BOOLEAN :
       PenEvent(IF eraser THEN "eraser" ELSE "tip",
                PenPresent(StaleCleared(pen), TRUE, eraser, eraser))

PenMoves ==
  /\ stylus \in {"tip", "eraser"}
  /\ PenEvent(stylus, PenPresent(StaleCleared(pen), FALSE, stylus = "eraser", FALSE))

(* The eraser button changes while the pen touches: a move event.          *)
PenTurns ==
  /\ stylus \in {"tip", "eraser"}
  /\ LET to == IF stylus = "tip" THEN "eraser" ELSE "tip"
     IN  PenEvent(to, PenPresent(StaleCleared(pen), FALSE, to = "eraser", TRUE))

PenLifts  == stylus \in {"tip", "eraser"} /\ PenEvent("hover", PenGone)
PenLeaves == stylus = "hover" /\ PenEvent("away", PenGone)

(* Some browsers fire nothing when a hovering pen leaves.                  *)
PenVanishes ==
  /\ stylus = "hover" /\ stylus' = "away"
  /\ UNCHANGED <<finger, held, rejecting, touchVars, penVars, mouseKeys, lost>>

(* onEvent for the mouse.                                                  *)
MouseEvent(keys, ignored) ==
  /\ Settled
  /\ \/ InputFails
     \/ /\ mouseKeys' = keys /\ pen' = StaleCleared(pen)
        /\ Loses(ignored)
        /\ UNCHANGED <<touchVars, penIdle>>
  /\ UNCHANGED <<finger, stylus, rejecting>>

MouseMoves == UNCHANGED held /\ MouseEvent(mouseKeys, {})

(* The device ignores the button of a move event.                          *)
MouseChord == MouseEvent(mouseKeys, {"chord"})

(* Only the first button pressed is a down event; those pressed while it   *)
(* is held are moves.                                                      *)
MousePress(b) ==
  /\ b \notin held /\ held' = held \cup {b}
  /\ IF held = {} THEN MouseEvent(mouseKeys \cup {b}, {}) ELSE MouseChord

(* Likewise, only the last button released is an up event.                 *)
MouseRelease(b) ==
  /\ b \in held /\ held' = held \ {b}
  /\ IF held = {b} THEN MouseEvent(mouseKeys \ {b}, {}) ELSE MouseChord

(* Time passes.                                                            *)
PenIdles ==
  /\ ~penIdle /\ penIdle' = TRUE
  /\ UNCHANGED <<browserVars, touchVars, pen, mouseKeys, lost>>

PalmWindowEnds ==
  /\ rejecting /\ rejecting' = FALSE
  /\ UNCHANGED <<finger, stylus, held, touchVars, penVars, mouseKeys, lost>>

Next ==
  \/ \E f \in Fingers :
       \/ FingerBegins(f) \/ FingerDown(f) \/ FingerMoves(f)
       \/ FingerLifts(f) \/ FingerLeaves(f)
  \/ PenHovers \/ PenTouches \/ PenMoves \/ PenTurns
  \/ PenLifts \/ PenLeaves \/ PenVanishes
  \/ MouseMoves \/ \E b \in Buttons : MousePress(b) \/ MouseRelease(b)
  \/ PenIdles \/ PalmWindowEnds

Spec == Init /\ [][Next]_vars

--------------------------------------------------------------------------------
(* Properties.                                                             *)

(* Type invariant of the browser's and the device's state.                 *)
TypeOK ==
  /\ finger \in [Fingers -> FingerStates] /\ stylus \in StylusStates
  /\ held \subseteq Buttons /\ rejecting \in BOOLEAN
  /\ slots \in [Slots -> Fingers \cup {None}]
  /\ toolKeys \subseteq Slots /\ touchKey \in BOOLEAN
  /\ pen \in [active : BOOLEAN, touching : BOOLEAN, keys : SUBSET PenKeys]
  /\ penIdle \in BOOLEAN /\ mouseKeys \subseteq Buttons /\ lost \subseteq Losses

(* Nothing stays pressed on the touch device when the last touch it knows  *)
(* is released, in whatever order touches come, go or are ignored: a key   *)
(* for n fingers is down only while there are n (tool_key_for_touch_count).*)
LiftedMeansReleased ==
  /\ \A n \in toolKeys : n <= Active
  /\ touchKey => Active > 0

(* The pen's keys follow tool_pen_active and pen_touching through stale    *)
(* hovers, erasers and dropped events: the pen is never left announced but *)
(* forgotten, and pen and rubber are never pressed together.               *)
PenKeysFollow ==
  /\ "pen" \in pen.keys <=> pen.active
  /\ "touch" \in pen.keys <=> pen.touching
  /\ ~({"pen", "rubber"} \subseteq pen.keys)

FingersDown == {f \in Fingers : finger[f] = "down"}
TouchesSettled(losses) == Settled /\ lost \cap {"palm", "failed", "refused"} \subseteq losses

(* As long as no touch was lost, the live count of touches is the number of*)
(* fingers on the screen and exactly the tool key for that number is       *)
(* pressed, whatever the order in which they come and go and whatever the  *)
(* pen and the mouse do in between (find_slot, tool_key_for_touch_count).  *)
KernelCountsFingers ==
  TouchesSettled({}) =>
    LET count == Cardinality(FingersDown)
    IN  Active = count /\ toolKeys = {count} \ {0}
================================================================================
