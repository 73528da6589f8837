CONSTANTS
  Profiles = {p1, p2, p3}
  NoProfile = NoProfile
  Unwritten = Unwritten
  Handlers = {h1, h2}
SPECIFICATION Spec
SYMMETRY Symmetric
INVARIANT TypeOK
INVARIANT SelectionAgrees
INVARIANT ShownIsUsed
CHECK_DEADLOCK FALSE
