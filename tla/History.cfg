SPECIFICATION Spec
CONSTANTS
  Convs = {c1, c2}
  Messages = {m1, m2, m3}
  Limits = {0, 1, 3}
  DefaultLimit = 2
  MaxLimit = 2
  MaxFaults = 1
  None = None
SYMMETRY Interchangeable
INVARIANTS TypeOK PagesDescend NothingIsSkipped ListIsFresh UpdatedAtIsRecent
CHECK_DEADLOCK FALSE
