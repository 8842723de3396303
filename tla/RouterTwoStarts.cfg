\* start.sh in two terminals: expected to violate.
SPECIFICATION Spec
CONSTANTS
  t1 = t1  t2 = t2  p1 = p1  p2 = p2  p3 = p3
  Terminals = {t1, t2}
  Pids = {p1, p2, p3}
  Attempts = 2
  Unbroken <- MCEverywhere
  NoFile = NoFile  Empty = Empty  None = None
INVARIANT
  SecondStartIsBlocked
