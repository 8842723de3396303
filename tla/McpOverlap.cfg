\* Two threads administer the same server at once: expected to violate.
SPECIFICATION Spec
CONSTANTS
  s1 = s1  s2 = s2  x1 = x1  x2 = x2  t1 = t1  t2 = t2
  None = None
  Servers = {s1}
  Tools = {x1}
  Threads = {t1, t2}
  Names <- MCNames
  RegName <- MCRegName
  Discoverable <- MCDiscoverable
  Assigned <- MCOneForAll
INVARIANT
  RegisteredOnlyWhenReady
