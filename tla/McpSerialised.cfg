\* Two threads, each administering a server of its own; no name collisions.
SPECIFICATION Spec
CONSTANTS
  s1 = s1  s2 = s2  x1 = x1  x2 = x2  t1 = t1  t2 = t2
  None = None
  Servers = {s1, s2}
  Tools = {x1, x2}
  Threads = {t1, t2}
  Names <- MCNames
  RegName <- MCRegName
  Discoverable <- MCDiscoverable
  Assigned <- MCOnePerServer
INVARIANTS
  RegistryMirrorsReadyServers
  NoOrphanedTool
  RegistryNeverRaises
PROPERTIES
  TouchesOwnTools
  RequestsShrink
  ImplementsDirectory
