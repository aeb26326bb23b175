SPECIFICATION Spec
CONSTANTS
  Fds = {a, b, c}
  Interests = {in}
  Hup = hup
  Chunk = 1
SYMMETRY Symmetry
INVARIANTS
  SlotsConsistent
  WalkComplete
  NoFault
PROPERTY
  DispatchReported
CHECK_DEADLOCK FALSE
