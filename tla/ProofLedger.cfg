SPECIFICATION Spec
CONSTANTS
  logic = logic
  layout = layout
  unit = unit
  demo = demo
  Glitches = {logic, layout}
  Gates = {unit, demo}
  Obligations <- TwoAndOne
  Runs = {p1}
  MaxReq = 1
INVARIANTS
  TypeOK
  SatisfiedIsProven
  SatisfiedHoldsUp
  GateSeesBlockers
PROPERTIES
  SeenWaiverStands
CHECK_DEADLOCK FALSE
