\* One script at a time, interrupted anywhere but before its router is named.
SPECIFICATION FairSpec
CONSTANTS
  t1 = t1  t2 = t2  p1 = p1  p2 = p2  p3 = p3
  Terminals = {t1}
  Pids = {p1, p2, p3}
  Attempts = 2
  Unbroken <- MCUnnamed
  NoFile = NoFile  Empty = Empty  None = None
INVARIANTS
  OneNamedRouter
  StoppedMeansStopped
PROPERTIES
  SparesOthers
  ScriptsEnd
