SPECIFICATION Spec
CONSTANTS
  Requests = {r1, r2}
  In = in
INVARIANTS
  NoLostWakeup
  HandledInOrder
PROPERTIES
  WaitsEnd
