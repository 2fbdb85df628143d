\* Three fingers for two slots: one may be refused, and slots are taken again
\* in another order.
CONSTANTS
  f1 = f1
  f2 = f2
  f3 = f3
  None = None
  Fingers <- ThreeFingers
  NumSlots = 2
  Buttons = {"left", "right"}
SPECIFICATION Spec
SYMMETRY Symmetric
INVARIANTS LiftedMeansReleased PenKeysFollow KernelCountsFingers
