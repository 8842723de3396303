\* One request that calls tools while two threads, each with a server of its
\* own, install, enable and disable.
SPECIFICATION SystemSpec
CONSTANTS
  s1 = s1  s2 = s2  x1 = x1  x2 = x2  t1 = t1  t2 = t2  c1 = c1
  None = None
  Servers = {s1, s2}
  Tools = {x1, x2}
  Threads = {t1, t2}
  Names <- MCNames
  RegName <- MCRegName
  Discoverable <- MCOneTool
  Assigned <- MCOnePerServer
  Requests = {c1}
  Allowed <- MCAllowed
INVARIANTS
  RunsOnlyReadyServers
  OfferIsCurrent
PROPERTIES
  RefusalsHaveACause
