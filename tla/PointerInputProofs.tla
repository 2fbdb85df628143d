--------------------------- MODULE PointerInputProofs ---------------------------
(***************************************************************************)
(* What TLAPS proves of PointerInput, for any number of fingers and slots. *)
(***************************************************************************)
EXTENDS PointerInput, FiniteSetTheorems, TLAPS

--------------------------------------------------------------------------------
(* The pen.                                                                *)

(* A state of the pen in which its keys follow its flags.                  *)
PenFollows(p) ==
  /\ p \in [active : BOOLEAN, touching : BOOLEAN, keys : SUBSET PenKeys]
  /\ "pen" \in p.keys <=> p.active
  /\ "touch" \in p.keys <=> p.touching
  /\ ~("pen" \in p.keys /\ "rubber" \in p.keys)

LEMMA PenMade ==
  ASSUME NEW active \in BOOLEAN, NEW touching \in BOOLEAN, NEW keys \in SUBSET PenKeys,
         "pen" \in keys <=> active, "touch" \in keys <=> touching,
         ~("pen" \in keys /\ "rubber" \in keys)
  PROVE  PenFollows([active |-> active, touching |-> touching, keys |-> keys])
BY DEF PenFollows

LEMMA StaleFollows ==
  ASSUME NEW p, PenFollows(p)
  PROVE  PenFollows(StaleCleared(p))
<1>1. CASE p.active /\ ~p.touching /\ penIdle
  <2>1. StaleCleared(p) = [active |-> FALSE, touching |-> p.touching, keys |-> {}]
    BY <1>1 DEF StaleCleared, PenFollows
  <2> QED
    BY <1>1, <2>1, PenMade DEF PenFollows
<1>2. CASE ~(p.active /\ ~p.touching /\ penIdle)
  BY <1>2 DEF StaleCleared
<1> QED
  BY <1>1, <1>2

LEMMA TouchingFollows ==
  ASSUME NEW p, PenFollows(p), NEW isDown \in BOOLEAN
  PROVE  PenFollows(Touching(p, isDown))
<1>1. CASE isDown
  <2>1. Touching(p, isDown)
          = [active |-> p.active, touching |-> TRUE, keys |-> p.keys \cup {"touch"}]
    BY <1>1 DEF Touching, PenFollows
  <2> QED
    BY <2>1, PenMade DEF PenFollows, PenKeys
<1>2. CASE ~isDown
  BY <1>2 DEF Touching
<1> QED
  BY <1>1, <1>2

LEMMA AnnouncedFollows ==
  ASSUME NEW p, PenFollows(p), NEW button \in BOOLEAN
  PROVE  PenFollows(Announced(p, button))
<1>1. CASE ~p.active /\ ~button
  <2>1. Announced(p, button)
          = [active |-> TRUE, touching |-> p.touching,
             keys |-> (p.keys \ {"rubber"}) \cup {"pen"}]
    BY <1>1 DEF Announced, PenFollows
  <2> QED
    BY <2>1, PenMade DEF PenFollows, PenKeys
<1>2. CASE p.active \/ button
  BY <1>2 DEF Announced
<1> QED
  BY <1>1, <1>2

LEMMA ErasingFollows ==
  ASSUME NEW p, PenFollows(p), NEW changed \in BOOLEAN
  PROVE  PenFollows(Erasing(p, changed))
<1>1. CASE changed
  <2>1. Erasing(p, changed)
          = [active |-> FALSE, touching |-> p.touching,
             keys |-> (p.keys \ {"pen"}) \cup {"rubber"}]
    BY <1>1 DEF Erasing, PenFollows
  <2> QED
    BY <2>1, PenMade DEF PenFollows, PenKeys
<1>2. CASE ~changed
  BY <1>2 DEF Erasing
<1> QED
  BY <1>1, <1>2

LEMMA PresentFollows ==
  ASSUME NEW p, PenFollows(p), NEW isDown \in BOOLEAN, NEW button \in BOOLEAN,
         NEW changed \in BOOLEAN
  PROVE  PenFollows(PenPresent(p, isDown, button, changed))
BY TouchingFollows, AnnouncedFollows, ErasingFollows DEF PenPresent

LEMMA GoneFollows == PenFollows(PenGone)
BY PenMade DEF PenGone

(* A pen event is handled or lost; any other event may clear a stale hover.*)
LEMMA PenStep ==
  ASSUME PenFollows(pen), [Next]_vars
  PROVE  PenFollows(pen')
<1>1. ASSUME NEW f \in Fingers,
             \/ FingerBegins(f) \/ FingerDown(f) \/ FingerMoves(f)
             \/ FingerLifts(f) \/ FingerLeaves(f)
      PROVE  PenFollows(pen')
  <2>1. pen' = pen \/ pen' = StaleCleared(pen)
    BY <1>1 DEF FingerBegins, FingerDown, FingerMoves, FingerLifts, FingerLeaves, TouchEvent,
                InputFails, penVars
  <2> QED
    BY <2>1, StaleFollows
<1>2. ASSUME NEW to, NEW after, PenFollows(after), PenEvent(to, after)
      PROVE  PenFollows(pen')
  <2>1. pen' = pen \/ pen' = after
    BY <1>2 DEF PenEvent, InputFails, penVars
  <2> QED
    BY <1>2, <2>1
<1>3. ASSUME NEW isDown \in BOOLEAN, NEW button \in BOOLEAN, NEW changed \in BOOLEAN
      PROVE  PenFollows(PenPresent(StaleCleared(pen), isDown, button, changed))
  BY StaleFollows, PresentFollows
<1>4. CASE PenHovers
  BY <1>2, <1>3, <1>4 DEF PenHovers
<1>5. CASE PenTouches
  BY <1>2, <1>3, <1>5 DEF PenTouches
<1>6. CASE PenMoves
  BY <1>2, <1>3, <1>6 DEF PenMoves
<1>7. CASE PenTurns
  <2> DEFINE to == IF stylus = "tip" THEN "eraser" ELSE "tip"
  <2>1. PenEvent(to, PenPresent(StaleCleared(pen), FALSE, to = "eraser", TRUE))
    BY <1>7 DEF PenTurns
  <2>2. PenFollows(PenPresent(StaleCleared(pen), FALSE, to = "eraser", TRUE))
    BY <1>3
  <2> HIDE DEF to
  <2> QED
    BY <1>2, <2>1, <2>2
<1>8. CASE PenLifts \/ PenLeaves
  BY <1>2, <1>8, GoneFollows DEF PenLifts, PenLeaves
<1>9. CASE MouseMoves \/ \E b \in Buttons : MousePress(b) \/ MouseRelease(b)
  <2>1. pen' = pen \/ pen' = StaleCleared(pen)
    BY <1>9 DEF MouseMoves, MousePress, MouseRelease, MouseChord, MouseEvent, InputFails, penVars
  <2> QED
    BY <2>1, StaleFollows
<1>10. CASE PenVanishes \/ PenIdles \/ PalmWindowEnds
  BY <1>10 DEF PenVanishes, PenIdles, PalmWindowEnds, penVars
<1>11. CASE UNCHANGED vars
  BY <1>11 DEF vars, penVars
<1> QED
  BY <1>1, <1>4, <1>5, <1>6, <1>7, <1>8, <1>9, <1>10, <1>11 DEF Next

(* The pen's keys follow tool_pen_active and pen_touching, whatever is     *)
(* lost, stale or turned over (clear_stale_pen_hover and the pen's arms).  *)
THEOREM PenIsFollowed == Spec => []PenKeysFollow
<1>1. Init => PenFollows(pen)
  BY PenMade DEF Init
<1>2. PenFollows(pen) /\ [Next]_vars => PenFollows(pen)'
  BY PenStep
<1>3. PenFollows(pen) => PenKeysFollow
  BY DEF PenFollows, PenKeysFollow
<1> QED
  BY <1>1, <1>2, <1>3, PTL DEF Spec

--------------------------------------------------------------------------------
(* The slots.                                                              *)

USE PointerAssumption

SlotTypeOK == slots \in [Slots -> Fingers \cup {None}] /\ toolKeys \subseteq Slots

(* A finger has at most one slot.                                          *)
OneSlotEach ==
  \A s, t \in Slots : slots[s] = slots[t] /\ slots[s] # None => s = t

LEMMA OccupiedFinite ==
  /\ IsFiniteSet(Slots) /\ IsFiniteSet(Occupied) /\ IsFiniteSet(Occupied')
  /\ Active \in Nat /\ Active' \in Nat
<1>1. IsFiniteSet(Slots)
  BY FS_Interval DEF Slots
<1>2. IsFiniteSet(Occupied) /\ IsFiniteSet(Occupied')
  BY <1>1, FS_Subset DEF Occupied
<1> QED
  BY <1>1, <1>2, FS_CardinalityType DEF Active

(* A finger claims a free slot, or has one already and nothing changes.    *)
LEMMA ClaimFacts ==
  ASSUME SlotTypeOK, OneSlotEach, NEW f \in Fingers, NEW s \in Slots, Claim(f, s)
  PROVE  /\ slots' \in [Slots -> Fingers \cup {None}]
         /\ OneSlotEach'
         /\ SlotsOf(f)' # {}
         /\ \A g \in Fingers \ {f} : SlotsOf(g)' = SlotsOf(g)
         /\ IF SlotsOf(f) # {} THEN slots' = slots /\ Active' = Active
            ELSE Active' = Active + 1
<1>1. slots' = [slots EXCEPT ![s] = f] /\ slots' \in [Slots -> Fingers \cup {None}]
  BY DEF Claim, SlotTypeOK
<1>2. f # None
  OBVIOUS
<1>3. SlotsOf(f)' # {}
  BY <1>1 DEF SlotsOf, SlotTypeOK
<1>4. CASE SlotsOf(f) # {}
  <2>1. slots[s] = f
    BY <1>4 DEF Claim, SlotsOf
  <2>2. slots' = slots
    BY <1>1, <2>1 DEF SlotTypeOK
  <2>3. Active' = Active
    BY <2>2 DEF Active, Occupied
  <2> QED
    BY <1>1, <1>3, <1>4, <2>2, <2>3 DEF OneSlotEach, SlotsOf
<1>5. CASE SlotsOf(f) = {}
  <2>1. slots[s] = None
    BY <1>5 DEF Claim, Free, Occupied
  <2>2. OneSlotEach'
    BY <1>1, <1>5 DEF OneSlotEach, SlotsOf, SlotTypeOK
  <2>3. \A g \in Fingers \ {f} : SlotsOf(g)' = SlotsOf(g)
    BY <1>1, <1>2, <2>1 DEF SlotsOf, SlotTypeOK
  <2>4. Occupied' = Occupied \cup {s} /\ s \notin Occupied
    BY <1>1, <1>2, <2>1 DEF Occupied, SlotTypeOK
  <2>5. Active' = Active + 1
    BY <2>4, OccupiedFinite, FS_AddElement DEF Active
  <2> QED
    BY <1>1, <1>3, <1>5, <2>2, <2>3, <2>5
<1> QED
  BY <1>4, <1>5

(* A slot is released.                                                     *)
LEMMA ReleaseFacts ==
  ASSUME SlotTypeOK, OneSlotEach, NEW f \in Fingers, NEW s \in SlotsOf(f),
         slots' = [slots EXCEPT ![s] = None]
  PROVE  /\ slots' \in [Slots -> Fingers \cup {None}]
         /\ OneSlotEach'
         /\ SlotsOf(f)' = {}
         /\ \A g \in Fingers \ {f} : SlotsOf(g)' = SlotsOf(g)
         /\ Active > 0 /\ Active' = Active - 1
<1>1. s \in Slots /\ slots[s] = f /\ f # None
  BY DEF SlotsOf
<1>2. slots' \in [Slots -> Fingers \cup {None}]
  BY <1>1 DEF SlotTypeOK
<1>3. OneSlotEach'
  BY <1>1 DEF OneSlotEach, SlotTypeOK
<1>4. SlotsOf(f)' = {}
  BY <1>1 DEF OneSlotEach, SlotsOf, SlotTypeOK
<1>5. \A g \in Fingers \ {f} : SlotsOf(g)' = SlotsOf(g)
  BY <1>1 DEF SlotsOf, SlotTypeOK
<1>6. Occupied' = Occupied \ {s} /\ s \in Occupied
  BY <1>1 DEF Occupied, SlotTypeOK
<1>7. Active' = Active - 1
  BY <1>6, OccupiedFinite, FS_RemoveElement DEF Active
<1>8. Active > 0
  BY <1>6, <1>7, OccupiedFinite
<1> QED
  BY <1>2, <1>3, <1>4, <1>5, <1>7, <1>8

LEMMA ActiveBound == Active \in 0 .. NumSlots /\ Active' \in 0 .. NumSlots
<1>1. Cardinality(Slots) = NumSlots
  BY FS_Interval DEF Slots
<1>2. Occupied \subseteq Slots /\ Occupied' \subseteq Slots
  BY DEF Occupied
<1>3. Active <= Cardinality(Slots) /\ Active' <= Cardinality(Slots)
  BY <1>2, OccupiedFinite, FS_Subset DEF Active
<1> QED
  BY <1>1, <1>3, OccupiedFinite

(* What the touch device relies on.                                        *)
TouchInv == SlotTypeOK /\ OneSlotEach /\ LiftedMeansReleased /\ touchKey \in BOOLEAN

LEMMA MoveFacts ==
  ASSUME TouchInv, NEW f \in Fingers, TouchMove(f)
  PROVE  /\ TouchInv'
         /\ UNCHANGED toolKeys
         /\ ~Ignored(f) => SlotsOf(f)' # {}
         /\ \A g \in Fingers \ {f} : SlotsOf(g)' = SlotsOf(g)
         /\ SlotsOf(f) # {} => Active' = Active
         /\ SlotsOf(f) = {} /\ ~Ignored(f) => Active' = Active + 1
<1>1. CASE Ignored(f) /\ UNCHANGED touchVars
  <2>1. UNCHANGED <<slots, toolKeys, touchKey>>
    BY <1>1 DEF touchVars
  <2>2. Active' = Active
    BY <2>1 DEF Active, Occupied
  <2> QED
    BY <1>1, <2>1, <2>2
       DEF TouchInv, SlotTypeOK, OneSlotEach, LiftedMeansReleased, SlotsOf, Ignored
<1>2. ASSUME NEW s \in Slots, Claim(f, s), UNCHANGED <<toolKeys, touchKey>>
      PROVE  /\ TouchInv'
             /\ SlotsOf(f)' # {}
             /\ \A g \in Fingers \ {f} : SlotsOf(g)' = SlotsOf(g)
             /\ SlotsOf(f) # {} => Active' = Active
             /\ SlotsOf(f) = {} => Active' = Active + 1
  <2>1. SlotTypeOK /\ OneSlotEach
    BY DEF TouchInv
  <2>2. /\ slots' \in [Slots -> Fingers \cup {None}] /\ OneSlotEach' /\ SlotsOf(f)' # {}
        /\ \A g \in Fingers \ {f} : SlotsOf(g)' = SlotsOf(g)
        /\ SlotsOf(f) # {} => Active' = Active
        /\ SlotsOf(f) = {} => Active' = Active + 1
    BY <1>2, <2>1, ClaimFacts
  <2>3. LiftedMeansReleased'
    <3>1. Active' >= Active /\ toolKeys \subseteq Nat
      BY <2>1, <2>2, OccupiedFinite DEF SlotTypeOK, Slots
    <3>2. LiftedMeansReleased
      BY DEF TouchInv
    <3> QED
      BY <1>2, <3>1, <3>2, OccupiedFinite DEF LiftedMeansReleased
  <2> QED
    BY <1>2, <2>1, <2>2, <2>3 DEF TouchInv, SlotTypeOK
<1> QED
  BY <1>1, <1>2 DEF TouchMove

LEMMA DownFacts ==
  ASSUME TouchInv, NEW f \in Fingers, TouchDown(f)
  PROVE  /\ TouchInv'
         /\ ~Ignored(f) => toolKeys' = (toolKeys \ {Active' - 1}) \cup {Active'}
         /\ ~Ignored(f) => SlotsOf(f)' # {}
         /\ \A g \in Fingers \ {f} : SlotsOf(g)' = SlotsOf(g)
         /\ SlotsOf(f) # {} => Active' = Active
<1>1. CASE Ignored(f) /\ UNCHANGED touchVars
  <2>1. UNCHANGED <<slots, toolKeys, touchKey>>
    BY <1>1 DEF touchVars
  <2>2. Active' = Active
    BY <2>1 DEF Active, Occupied
  <2> QED
    BY <1>1, <2>1, <2>2
       DEF TouchInv, SlotTypeOK, OneSlotEach, LiftedMeansReleased, SlotsOf, Ignored
<1>2. ASSUME NEW s \in Slots, Claim(f, s), touchKey' = TRUE,
             toolKeys' = (toolKeys \ {Active' - 1}) \cup {Active'}
      PROVE  /\ TouchInv'
             /\ SlotsOf(f)' # {}
             /\ \A g \in Fingers \ {f} : SlotsOf(g)' = SlotsOf(g)
             /\ SlotsOf(f) # {} => Active' = Active
  <2>1. SlotTypeOK /\ OneSlotEach
    BY DEF TouchInv
  <2>2. /\ slots' \in [Slots -> Fingers \cup {None}] /\ OneSlotEach' /\ SlotsOf(f)' # {}
        /\ \A g \in Fingers \ {f} : SlotsOf(g)' = SlotsOf(g)
        /\ SlotsOf(f) # {} => Active' = Active
        /\ SlotsOf(f) = {} => Active' = Active + 1
    BY <1>2, <2>1, ClaimFacts
  <2>3. Active' > 0
    <3>1. PICK t \in Slots : slots'[t] = f
      BY <2>2 DEF SlotsOf
    <3>2. t \in Occupied'
      BY <3>1 DEF Occupied
    <3> QED
      BY <3>2, OccupiedFinite, FS_EmptySet DEF Active
  <2>4. toolKeys' \subseteq Slots
    <3>1. Active' \in Slots
      BY <2>3, ActiveBound DEF Slots
    <3>2. toolKeys \subseteq Slots
      BY <2>1 DEF SlotTypeOK
    <3> QED
      BY <1>2, <3>1, <3>2
  <2>5. LiftedMeansReleased'
    <3>1. Active' >= Active /\ toolKeys \subseteq Nat
      BY <2>1, <2>2, OccupiedFinite DEF SlotTypeOK, Slots
    <3>2. LiftedMeansReleased
      BY DEF TouchInv
    <3> QED
      <4>1. \A n \in toolKeys : n \in Nat /\ n <= Active
        BY <3>1, <3>2 DEF LiftedMeansReleased
      <4>2. ASSUME NEW n \in toolKeys' PROVE n <= Active'
        <5>1. Active \in Nat /\ Active' \in Nat
          BY OccupiedFinite
        <5>2. n \in toolKeys \/ n = Active'
          BY <1>2, <4>2
        <5>3. CASE n \in toolKeys
          <6>1. n \in Nat /\ n <= Active /\ Active <= Active'
            BY <3>1, <4>1, <5>1, <5>3
          <6> QED
            BY <5>1, <6>1
        <5>4. CASE n = Active'
          BY <5>1, <5>4
        <5> QED
          BY <5>2, <5>3, <5>4
      <4> QED
        BY <2>3, <4>2 DEF LiftedMeansReleased
  <2> QED
    BY <1>2, <2>2, <2>4, <2>5 DEF TouchInv, SlotTypeOK
<1>3. CASE \E s \in Slots :
             /\ Claim(f, s) /\ touchKey' = TRUE
             /\ toolKeys' = (toolKeys \ {Active' - 1}) \cup {Active'}
  BY <1>2, <1>3
<1> QED
  BY <1>1, <1>3 DEF TouchDown, Active, Occupied

LEMMA UpFacts ==
  ASSUME TouchInv, NEW f \in Fingers, TouchRelease(f)
  PROVE  /\ TouchInv'
         /\ SlotsOf(f)' = {}
         /\ \A g \in Fingers \ {f} : SlotsOf(g)' = SlotsOf(g)
         /\ SlotsOf(f) = {} => Active' = Active /\ toolKeys' = toolKeys
         /\ SlotsOf(f) # {} =>
              /\ Active' = Active - 1
              /\ toolKeys' = (toolKeys \ {Active}) \cup ({Active - 1} \ {0})
<1>1. CASE SlotsOf(f) = {} /\ UNCHANGED touchVars
  <2>1. UNCHANGED <<slots, toolKeys, touchKey>>
    BY <1>1 DEF touchVars
  <2>2. Active' = Active
    BY <2>1 DEF Active, Occupied
  <2> QED
    BY <1>1, <2>1, <2>2
       DEF TouchInv, SlotTypeOK, OneSlotEach, LiftedMeansReleased, SlotsOf
<1>2. ASSUME NEW s \in SlotsOf(f), slots' = [slots EXCEPT ![s] = None], touchKey' = FALSE,
             toolKeys' = (toolKeys \ {Active}) \cup ({Active - 1} \ {0})
      PROVE  /\ TouchInv'
             /\ SlotsOf(f)' = {}
             /\ \A g \in Fingers \ {f} : SlotsOf(g)' = SlotsOf(g)
             /\ Active' = Active - 1
  <2>1. SlotTypeOK /\ OneSlotEach /\ LiftedMeansReleased
    BY DEF TouchInv
  <2>2. /\ slots' \in [Slots -> Fingers \cup {None}] /\ OneSlotEach' /\ SlotsOf(f)' = {}
        /\ \A g \in Fingers \ {f} : SlotsOf(g)' = SlotsOf(g)
        /\ Active > 0 /\ Active' = Active - 1
    BY <1>2, <2>1, ReleaseFacts
  <2>3. toolKeys' \subseteq Slots
    BY <1>2, <2>1, <2>2, ActiveBound DEF SlotTypeOK, Slots
  <2>4. \A n \in toolKeys' : n <= Active'
    <3>1. \A n \in toolKeys : n \in Nat /\ n <= Active
      BY <2>1 DEF SlotTypeOK, Slots, LiftedMeansReleased
    <3> QED
      BY <1>2, <2>2, <3>1, OccupiedFinite
  <2> QED
    BY <1>2, <2>2, <2>3, <2>4 DEF TouchInv, SlotTypeOK, LiftedMeansReleased
<1> QED
  BY <1>1, <1>2 DEF TouchRelease

--------------------------------------------------------------------------------
(* Every step, seen by the touch device.                                   *)

FingerStep(f) ==
  \/ FingerBegins(f) \/ FingerDown(f) \/ FingerMoves(f)
  \/ FingerLifts(f) \/ FingerLeaves(f)

LEMMA StepCases ==
  ASSUME [Next]_vars
  PROVE  \/ \E f \in Fingers : FingerStep(f)
         \/ UNCHANGED <<finger, touchVars>> /\ lost \subseteq lost'
<1>1. CASE PenHovers \/ PenTouches \/ PenMoves \/ PenTurns \/ PenLifts \/ PenLeaves
  BY <1>1 DEF PenHovers, PenTouches, PenMoves, PenTurns, PenLifts, PenLeaves, PenEvent,
              InputFails, Loses
<1>2. CASE MouseMoves \/ \E b \in Buttons : MousePress(b) \/ MouseRelease(b)
  BY <1>2 DEF MouseMoves, MousePress, MouseRelease, MouseChord, MouseEvent, InputFails, Loses
<1>3. CASE PenVanishes \/ PenIdles \/ PalmWindowEnds \/ UNCHANGED vars
  BY <1>3 DEF PenVanishes, PenIdles, PalmWindowEnds, vars, browserVars
<1> QED
  BY <1>1, <1>2, <1>3 DEF Next, FingerStep

LEMMA TouchUntouched ==
  ASSUME TouchInv, UNCHANGED touchVars
  PROVE  /\ TouchInv' /\ Active' = Active /\ UNCHANGED toolKeys
         /\ \A g \in Fingers : SlotsOf(g)' = SlotsOf(g)
<1>1. UNCHANGED <<slots, toolKeys, touchKey>>
  BY DEF touchVars
<1>2. Active' = Active
  BY <1>1 DEF Active, Occupied
<1> QED
  BY <1>1, <1>2 DEF TouchInv, SlotTypeOK, OneSlotEach, LiftedMeansReleased, SlotsOf

LEMMA TouchStep ==
  ASSUME TouchInv, [Next]_vars
  PROVE  TouchInv'
<1>1. ASSUME NEW f \in Fingers, FingerStep(f) PROVE TouchInv'
  <2>1. \/ UNCHANGED touchVars
        \/ TouchMove(f) \/ TouchDown(f) \/ TouchRelease(f)
    BY <1>1 DEF FingerStep, FingerBegins, FingerDown, FingerMoves, FingerLifts, FingerLeaves,
                TouchEvent, InputFails
  <2> QED
    BY <2>1, TouchUntouched, MoveFacts, DownFacts, UpFacts
<1> QED
  BY <1>1, StepCases, TouchUntouched

LEMMA TouchInit == Init => TouchInv
<1> SUFFICES ASSUME Init PROVE TouchInv
  OBVIOUS
<1>1. SlotTypeOK /\ OneSlotEach /\ touchKey \in BOOLEAN
  BY DEF Init, SlotTypeOK, OneSlotEach
<1>2. LiftedMeansReleased
  BY DEF Init, LiftedMeansReleased
<1> QED
  BY <1>1, <1>2 DEF TouchInv

(* A key for n fingers is down only while there are n, and BTN_TOUCH only  *)
(* while there is one, whatever the device was not told (find_slot,        *)
(* tool_key_for_touch_count).                                              *)
THEOREM NothingSticks == Spec => []LiftedMeansReleased
<1>1. TouchInv /\ [Next]_vars => TouchInv'
  BY TouchStep
<1>2. TouchInv => LiftedMeansReleased
  BY DEF TouchInv
<1> QED
  BY TouchInit, <1>1, <1>2, PTL DEF Spec

--------------------------------------------------------------------------------
(* As long as no touch was lost.                                           *)

Told == lost \cap {"palm", "failed", "refused"} = {}

OnScreen == {f \in Fingers : finger[f] \in {"begun", "down"}}

(* One finger's events at a time; every finger on the screen has a slot;   *)
(* the tool key is for those whose down has been handled.                  *)
CountInv ==
  /\ TouchInv
  /\ finger \in [Fingers -> FingerStates]
  /\ \A f, g \in Fingers :
       finger[f] \in {"begun", "lifted"} /\ finger[g] \in {"begun", "lifted"} => f = g
  /\ Told =>
       /\ \A f \in Fingers : SlotsOf(f) # {} <=> f \in OnScreen
       /\ Active = Cardinality(OnScreen)
       /\ toolKeys = {Cardinality(FingersDown)} \ {0}

LEMMA FingersFinite ==
  /\ IsFiniteSet(OnScreen) /\ IsFiniteSet(FingersDown)
  /\ Cardinality(OnScreen) \in Nat /\ Cardinality(FingersDown) \in Nat
<1>1. IsFiniteSet(OnScreen) /\ IsFiniteSet(FingersDown)
  BY FS_Subset DEF OnScreen, FingersDown
<1> QED
  BY <1>1, FS_CardinalityType

(* A finger's step moves it; its event was lost, or handled by one arm.    *)
Moves(f, from, to) == finger[f] = from /\ finger' = [finger EXCEPT ![f] = to]

LEMMA HeardFacts ==
  ASSUME NEW f \in Fingers, FingerStep(f), Told'
  PROVE  /\ Told
         /\ \/ Moves(f, "away", "begun") /\ Settled /\ TouchMove(f) /\ ~Ignored(f)
            \/ Moves(f, "begun", "down") /\ TouchDown(f) /\ ~Ignored(f)
            \/ Moves(f, "down", "down") /\ Settled /\ TouchMove(f) /\ ~Ignored(f)
            \/ Moves(f, "down", "lifted") /\ Settled /\ TouchRelease(f)
            \/ Moves(f, "lifted", "away") /\ TouchRelease(f)
<1>1. "palm" \notin lost' /\ "failed" \notin lost' /\ "refused" \notin lost'
  BY DEF Told
<1>2. Told
  BY DEF Told, FingerStep, FingerBegins, FingerDown, FingerMoves, FingerLifts, FingerLeaves,
         TouchEvent, InputFails, Loses
<1>3. CASE FingerBegins(f)
  BY <1>1, <1>2, <1>3 DEF FingerBegins, TouchEvent, InputFails, Loses, Moves
<1>4. CASE FingerDown(f)
  BY <1>1, <1>2, <1>4 DEF FingerDown, TouchEvent, InputFails, Loses, Moves
<1>5. CASE FingerMoves(f)
  BY <1>1, <1>2, <1>5 DEF FingerMoves, TouchEvent, InputFails, Loses, Moves
<1>6. CASE FingerLifts(f)
  BY <1>1, <1>2, <1>6 DEF FingerLifts, TouchEvent, InputFails, Loses, Moves
<1>7. CASE FingerLeaves(f)
  BY <1>1, <1>2, <1>7 DEF FingerLeaves, TouchEvent, InputFails, Loses, Moves
<1> QED
  BY <1>3, <1>4, <1>5, <1>6, <1>7 DEF FingerStep

(* The two sets of fingers, as one of them moves.                          *)
LEMMA SetsFollow ==
  ASSUME finger \in [Fingers -> FingerStates], NEW f \in Fingers,
         NEW from \in FingerStates, NEW to \in FingerStates, Moves(f, from, to)
  PROVE  /\ OnScreen' = IF to \in {"begun", "down"} THEN OnScreen \cup {f} ELSE OnScreen \ {f}
         /\ FingersDown' = IF to = "down" THEN FingersDown \cup {f} ELSE FingersDown \ {f}
         /\ f \in OnScreen <=> from \in {"begun", "down"}
         /\ f \in FingersDown <=> from = "down"
BY DEF OnScreen, FingersDown, Moves

LEMMA SettledSets ==
  ASSUME Settled
  PROVE  OnScreen = FingersDown
BY DEF Settled, OnScreen, FingersDown

LEMMA CountStep ==
  ASSUME CountInv, [Next]_vars
  PROVE  CountInv'
<1>1. TouchInv'
  BY TouchStep DEF CountInv
<1>2. ASSUME UNCHANGED <<finger, touchVars>>, lost \subseteq lost' PROVE CountInv'
  <2>1. Told' => Told
    BY <1>2 DEF Told
  <2>2. Active' = Active /\ UNCHANGED toolKeys /\ \A g \in Fingers : SlotsOf(g)' = SlotsOf(g)
    BY <1>2, TouchUntouched DEF CountInv
  <2>3. OnScreen' = OnScreen /\ FingersDown' = FingersDown
    BY <1>2 DEF OnScreen, FingersDown
  <2> QED
    BY <1>1, <1>2, <2>1, <2>2, <2>3 DEF CountInv
<1>3. ASSUME NEW f \in Fingers, FingerStep(f) PROVE CountInv'
  <2>1. /\ finger' \in [Fingers -> FingerStates]
        /\ \A g, h \in Fingers :
             finger'[g] \in {"begun", "lifted"} /\ finger'[h] \in {"begun", "lifted"} => g = h
    <3>1. /\ finger \in [Fingers -> FingerStates]
          /\ \A g, h \in Fingers :
               finger[g] \in {"begun", "lifted"} /\ finger[h] \in {"begun", "lifted"} => g = h
      BY DEF CountInv
    <3>2. \/ Settled /\ \E to \in FingerStates : Moves(f, finger[f], to)
          \/ /\ finger[f] \in {"begun", "lifted"}
             /\ \E to \in {"down", "away"} : Moves(f, finger[f], to)
      BY <1>3 DEF FingerStep, FingerBegins, FingerDown, FingerMoves, FingerLifts, FingerLeaves,
                  TouchEvent, Moves, FingerStates
    <3>3. CASE Settled /\ \E to \in FingerStates : Moves(f, finger[f], to)
      BY <3>1, <3>3 DEF Settled, Moves
    <3>4. CASE /\ finger[f] \in {"begun", "lifted"}
               /\ \E to \in {"down", "away"} : Moves(f, finger[f], to)
      BY <3>1, <3>4 DEF Moves, FingerStates
    <3> QED
      BY <3>2, <3>3, <3>4
  <2>2. ASSUME Told'
        PROVE  /\ \A g \in Fingers : SlotsOf(g)' # {} <=> g \in OnScreen'
               /\ Active' = Cardinality(OnScreen')
               /\ toolKeys' = {Cardinality(FingersDown')} \ {0}
    <3>0. /\ finger \in [Fingers -> FingerStates] /\ TouchInv
          /\ \A g \in Fingers : SlotsOf(g) # {} <=> g \in OnScreen
          /\ Active = Cardinality(OnScreen)
          /\ toolKeys = {Cardinality(FingersDown)} \ {0}
      BY <1>3, <2>2, HeardFacts DEF CountInv
    <3>1. CASE Moves(f, "away", "begun") /\ Settled /\ TouchMove(f) /\ ~Ignored(f)
      <4>1. /\ OnScreen' = OnScreen \cup {f} /\ f \notin OnScreen
            /\ FingersDown' = FingersDown
        BY <3>0, <3>1, SetsFollow DEF FingerStates
      <4>2. Cardinality(OnScreen') = Cardinality(OnScreen) + 1
        BY <4>1, FingersFinite, FS_AddElement
      <4>3. /\ UNCHANGED toolKeys /\ SlotsOf(f)' # {} /\ Active' = Active + 1
            /\ \A g \in Fingers \ {f} : SlotsOf(g)' = SlotsOf(g)
        BY <3>0, <3>1, <4>1, MoveFacts
      <4> QED
        BY <3>0, <4>1, <4>2, <4>3
    <3>2. CASE Moves(f, "begun", "down") /\ TouchDown(f) /\ ~Ignored(f)
      <4>1. /\ OnScreen' = OnScreen /\ f \in OnScreen
            /\ FingersDown' = FingersDown \cup {f} /\ f \notin FingersDown
        BY <3>0, <3>2, SetsFollow DEF FingerStates
      <4>2. OnScreen = FingersDown \cup {f}
        BY <3>2, <4>1 DEF CountInv, OnScreen, FingersDown, Moves
      <4>3. Cardinality(OnScreen) = Cardinality(FingersDown) + 1
        BY <4>1, <4>2, FingersFinite, FS_AddElement
      <4>4. /\ Active' = Active /\ SlotsOf(f)' # {}
            /\ toolKeys' = (toolKeys \ {Active' - 1}) \cup {Active'}
            /\ \A g \in Fingers \ {f} : SlotsOf(g)' = SlotsOf(g)
        BY <3>0, <3>2, <4>1, DownFacts
      <4>5. toolKeys' = {Cardinality(OnScreen)} \ {0}
        BY <3>0, <4>3, <4>4, FingersFinite
      <4> QED
        BY <3>0, <4>1, <4>2, <4>4, <4>5
    <3>3. CASE Moves(f, "down", "down") /\ Settled /\ TouchMove(f) /\ ~Ignored(f)
      <4>1. OnScreen' = OnScreen /\ f \in OnScreen /\ FingersDown' = FingersDown
        BY <3>0, <3>3, SetsFollow DEF FingerStates
      <4>2. /\ UNCHANGED toolKeys /\ SlotsOf(f)' # {} /\ Active' = Active
            /\ \A g \in Fingers \ {f} : SlotsOf(g)' = SlotsOf(g)
        BY <3>0, <3>3, <4>1, MoveFacts
      <4> QED
        BY <3>0, <4>1, <4>2
    <3>4. CASE Moves(f, "down", "lifted") /\ Settled /\ TouchRelease(f)
      <4>1. /\ OnScreen' = OnScreen \ {f} /\ f \in OnScreen
            /\ FingersDown' = OnScreen' /\ FingersDown = OnScreen
        BY <3>0, <3>4, SetsFollow, SettledSets DEF FingerStates
      <4>2. Cardinality(OnScreen') = Cardinality(OnScreen) - 1
        BY <4>1, FingersFinite, FS_RemoveElement
      <4>3. /\ SlotsOf(f)' = {} /\ Active' = Active - 1
            /\ toolKeys' = (toolKeys \ {Active}) \cup ({Active - 1} \ {0})
            /\ \A g \in Fingers \ {f} : SlotsOf(g)' = SlotsOf(g)
        BY <3>0, <3>4, <4>1, UpFacts
      <4>4. toolKeys' = {Cardinality(OnScreen')} \ {0}
        BY <3>0, <4>1, <4>2, <4>3
      <4> QED
        BY <3>0, <4>1, <4>2, <4>3, <4>4
    <3>5. CASE Moves(f, "lifted", "away") /\ TouchRelease(f)
      <4>1. OnScreen' = OnScreen /\ f \notin OnScreen /\ FingersDown' = FingersDown
        BY <3>0, <3>5, SetsFollow DEF FingerStates
      <4>2. /\ SlotsOf(f)' = {} /\ Active' = Active /\ UNCHANGED toolKeys
            /\ \A g \in Fingers \ {f} : SlotsOf(g)' = SlotsOf(g)
        BY <3>0, <3>5, <4>1, UpFacts
      <4> QED
        BY <3>0, <4>1, <4>2
    <3> QED
      BY <1>3, <2>2, <3>1, <3>2, <3>3, <3>4, <3>5, HeardFacts
  <2> QED
    BY <1>1, <2>1, <2>2 DEF CountInv
<1> QED
  BY <1>2, <1>3, StepCases

LEMMA CountInit == Init => CountInv
<1> SUFFICES ASSUME Init PROVE CountInv
  OBVIOUS
<1>1. TouchInv /\ finger = [f \in Fingers |-> "away"]
  BY TouchInit DEF Init
<1>2. OnScreen = {} /\ FingersDown = {}
  BY <1>1 DEF OnScreen, FingersDown
<1>3. \A f \in Fingers : SlotsOf(f) = {}
  BY DEF Init, SlotsOf
<1>4. Occupied = {} /\ toolKeys = {}
  BY DEF Init, Occupied
<1>5. Active = 0 /\ Cardinality(OnScreen) = 0 /\ Cardinality(FingersDown) = 0
  BY <1>2, <1>4, FS_EmptySet DEF Active
<1> QED
  BY <1>1, <1>2, <1>3, <1>4, <1>5 DEF CountInv, FingerStates

(* Until a touch is lost, the device counts the fingers on the screen, for *)
(* any number of fingers and slots (find_slot, tool_key_for_touch_count).  *)
THEOREM FingersAreCounted == Spec => []KernelCountsFingers
<1>1. CountInv /\ [Next]_vars => CountInv'
  BY CountStep
<1>2. CountInv => KernelCountsFingers
  <2> SUFFICES ASSUME CountInv, TouchesSettled({})
               PROVE  /\ Active = Cardinality(FingersDown)
                      /\ toolKeys = {Cardinality(FingersDown)} \ {0}
    BY DEF KernelCountsFingers
  <2>1. Told /\ Settled
    BY DEF TouchesSettled, Told
  <2> QED
    BY <2>1, SettledSets DEF CountInv
<1> QED
  BY CountInit, <1>1, <1>2, PTL DEF Spec

(* The browser's and the device's state keep their types.                  *)
BrowserTypeOK ==
  /\ finger \in [Fingers -> FingerStates] /\ stylus \in StylusStates
  /\ held \subseteq Buttons /\ rejecting \in BOOLEAN
  /\ penIdle \in BOOLEAN /\ mouseKeys \subseteq Buttons /\ lost \subseteq Losses

LEMMA BrowserTypeStep == BrowserTypeOK /\ [Next]_vars => BrowserTypeOK'
<1> SUFFICES ASSUME BrowserTypeOK, [Next]_vars PROVE BrowserTypeOK'
  OBVIOUS
<1> USE DEF BrowserTypeOK, FingerStates, StylusStates, Losses
<1>1. ASSUME NEW f \in Fingers,
             FingerBegins(f) \/ FingerDown(f) \/ FingerMoves(f)
               \/ FingerLifts(f) \/ FingerLeaves(f)
      PROVE  BrowserTypeOK'
  BY <1>1 DEF FingerBegins, FingerDown, FingerMoves, FingerLifts, FingerLeaves,
              TouchEvent, InputFails, Loses, penVars
<1>2. ASSUME NEW to \in StylusStates, NEW after, PenEvent(to, after)
      PROVE  BrowserTypeOK'
  BY <1>2 DEF PenEvent, InputFails, Loses, penVars
<1>3. CASE PenHovers \/ PenTouches \/ PenMoves \/ PenTurns \/ PenLifts \/ PenLeaves
  BY <1>2, <1>3 DEF PenHovers, PenTouches, PenMoves, PenTurns, PenLifts, PenLeaves
<1>4. CASE PenVanishes
  BY <1>4 DEF PenVanishes, penVars
<1>5. ASSUME NEW keys \in SUBSET Buttons, NEW ignored \in SUBSET Losses,
             MouseEvent(keys, ignored), held' \subseteq Buttons
      PROVE  BrowserTypeOK'
  BY <1>5 DEF MouseEvent, InputFails, Loses, penVars
<1>6. CASE MouseMoves
  BY <1>5, <1>6 DEF MouseMoves
<1>7. ASSUME NEW b \in Buttons, MousePress(b) \/ MouseRelease(b)
      PROVE  BrowserTypeOK'
  <2>1. held' \subseteq Buttons
    BY <1>7 DEF MousePress, MouseRelease
  <2>2. /\ mouseKeys \in SUBSET Buttons /\ mouseKeys \cup {b} \in SUBSET Buttons
        /\ mouseKeys \ {b} \in SUBSET Buttons
        /\ {} \in SUBSET Losses /\ {"chord"} \in SUBSET Losses
    OBVIOUS
  <2> QED
    BY <1>5, <1>7, <2>1, <2>2 DEF MousePress, MouseRelease, MouseChord
<1>8. CASE PenIdles \/ PalmWindowEnds \/ UNCHANGED vars
  BY <1>8 DEF PenIdles, PalmWindowEnds, vars, browserVars, penVars
<1> QED
  BY <1>1, <1>3, <1>4, <1>6, <1>7, <1>8 DEF Next

(* TypeOK, for any number of fingers and slots.                            *)
THEOREM TypeCorrect == Spec => []TypeOK
<1>1. Init => BrowserTypeOK
  BY DEF Init, BrowserTypeOK, FingerStates, StylusStates
<1>2. BrowserTypeOK /\ [Next]_vars => BrowserTypeOK'
  BY BrowserTypeStep
<1>3. TouchInv /\ [Next]_vars => TouchInv'
  BY TouchStep
<1>4. BrowserTypeOK /\ TouchInv /\ PenFollows(pen) => TypeOK
  BY DEF TypeOK, BrowserTypeOK, TouchInv, SlotTypeOK, PenFollows
<1>5. Init => PenFollows(pen)
  BY PenMade DEF Init
<1>6. PenFollows(pen) /\ [Next]_vars => PenFollows(pen)'
  BY PenStep
<1> QED
  BY <1>1, <1>2, <1>3, <1>4, <1>5, <1>6, TouchInit, PTL DEF Spec
================================================================================
