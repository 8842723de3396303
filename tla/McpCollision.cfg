\* One thread, two servers whose tools share a name: expected to violate.
SPECIFICATION Spec
CONSTANTS
  s1 = s1  s2 = s2  x1 = x1  x2 = x2  t1 = t1  t2 = t2
  None = None
  Servers = {s1, s2}
  Tools = {x1}
  Threads = {t1}
  Names <- MCSharedNames
  RegName <- MCSharedRegName
  Discoverable <- MCDiscoverable
  Assigned <- MCOneForAll
INVARIANT
  ReadyToolsAreRegistered
