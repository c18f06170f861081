CONSTANTS
  Clients = {c1, c2, c3}
  MaxSends = 1
SPECIFICATION Spec
SYMMETRY Symmetry
CHECK_DEADLOCK FALSE
INVARIANTS
  ConnectedIsServed
  QuietDelivery
PROPERTY
  Contained
